--------------------------- MODULE ForensicsProof ---------------------------
(***************************************************************************)
(* For any number of goroutines, versions, verdicts and failed requests: a   *)
(* version is never compared with a later one, and where Job names are       *)
(* distinct a cycle whose calls went well has its forensics run, although    *)
(* the goroutines delete each other's Jobs.                                  *)
(***************************************************************************)
EXTENDS Forensics, TLAPS

USE ForensicsAssumption DEF ForensicsAssumption, Versions, None

Distinct == \A u, v \in Versions : JobName[u] = JobName[v] => u = v

\* A call is for a version with a verdict, of a cycle, and compares backwards.
CallsMakeSense ==
    \A w \in Workers : wk[w].pc # "idle" =>
        /\ wk[w].v \in 1..released
        /\ phase[wk[w].v] = "verdict"
        /\ wk[w].prev < wk[w].v

CyclesCount ==
    \A v \in Versions :
        /\ ran[v] <= cycle[v] /\ cycle[v] <= clock /\ finalizedAt[v] <= clock
        /\ phase[v] = "verdict" => cycle[v] > 0

\* Every verdict is later than all before it, so among any versions one was
\* finalized last: findPreviousVersion's maximum is there.
LastOneThere ==
    \A S \in SUBSET Versions : S # {} =>
        \E u \in S : \A t \in S : finalizedAt[t] <= finalizedAt[u]

TypeInv == TypeOK /\ CallsMakeSense /\ CyclesCount /\ LastOneThere

-----------------------------------------------------------------------------
LEMMA InitType == Init => TypeInv
<1>. SUFFICES ASSUME Init PROVE TypeInv
  OBVIOUS
<1>1. TypeOK
  <2>1. 0 \in 0..MaxVersions /\ 0 \in 0..MaxVerdicts /\ 0 \in 0..MaxErrors /\ 0 \in 0..MaxPolls
    OBVIOUS
  <2>2. wk \in [Workers -> [pc : Pcs, v : 0..MaxVersions, prev : 0..MaxVersions,
                            polls : 0..MaxPolls]]
    BY <2>1 DEF Init, Idle, Pcs
  <2>3. jobs \in [Names -> Job \cup {NoJob}]
    BY DEF Init
  <2>4. /\ released \in 0..MaxVersions /\ clock \in 0..MaxVerdicts /\ errors \in 0..MaxErrors
        /\ {finalizedAt, cycle, ran} \subseteq [Versions -> 0..MaxVerdicts]
        /\ phase \in [Versions -> {"open", "verdict"}]
        /\ {noted, failed} \subseteq [Versions -> BOOLEAN]
    BY <2>1 DEF Init
  <2>. QED  BY <2>2, <2>3, <2>4 DEF TypeOK
<1>2. CallsMakeSense
  BY DEF Init, CallsMakeSense, Idle
<1>3. CyclesCount
  BY DEF Init, CyclesCount
<1>4. LastOneThere
  <2>. SUFFICES ASSUME NEW S \in SUBSET Versions, S # {}
                PROVE  \E u \in S : \A t \in S : finalizedAt[t] <= finalizedAt[u]
    BY DEF LastOneThere
  <2>1. \A t \in S : finalizedAt[t] = 0
    BY DEF Init
  <2>2. PICK u \in S : TRUE
    OBVIOUS
  <2>3. \A t \in S : finalizedAt[t] <= finalizedAt[u]
    BY <2>1
  <2>. QED  BY <2>3
<1>. QED  BY <1>1, <1>2, <1>3, <1>4 DEF TypeInv

\* findPreviousVersion finds an earlier version, or nothing.
LEMMA PreviousIsEarlier ==
    ASSUME LastOneThere, TypeOK, NEW v \in Versions
    PROVE  Previous(v) \in 0..MaxVersions /\ Previous(v) < v
<1>1. CASE Candidates(v) = {}
  BY <1>1 DEF Previous
<1>2. CASE Candidates(v) # {}
  <2>1. Candidates(v) \in SUBSET Versions
    BY DEF Candidates, TypeOK
  <2>2. \E u \in Candidates(v) : \A t \in Candidates(v) : finalizedAt[t] <= finalizedAt[u]
    BY <1>2, <2>1 DEF LastOneThere
  <2>3. Previous(v) \in Candidates(v)
    BY <1>2, <2>2 DEF Previous
  <2>. QED  BY <2>1, <2>3 DEF Candidates
<1>. QED  BY <1>1, <1>2

LEMMA VerdictType ==
    ASSUME TypeInv, NEW w \in Workers, NEW v \in Versions, Verdict(w, v)
    PROVE  TypeInv'
<1>0. /\ clock + 1 \in 0..MaxVerdicts /\ v \in 1..released
      /\ clock \in 0..MaxVerdicts /\ wk[w] = Idle
  <2>1. clock \in 0..MaxVerdicts /\ released \in 0..MaxVersions
    BY DEF TypeInv, TypeOK
  <2>2. wk[w] = Idle /\ v <= released /\ clock < MaxVerdicts
    BY DEF Verdict
  <2>. QED  BY <2>1, <2>2
<1>1. /\ cycle' \in [Versions -> 0..MaxVerdicts]
      /\ cycle[v] <= cycle'[v] /\ cycle'[v] <= clock + 1 /\ cycle'[v] > 0
      /\ \A u \in Versions \ {v} : cycle'[u] = cycle[u]
  <2>1. /\ cycle[v] \in 0..MaxVerdicts /\ cycle[v] <= clock
        /\ cycle \in [Versions -> 0..MaxVerdicts]
    BY DEF TypeInv, TypeOK, CyclesCount
  <2>2. cycle[v] + 1 \in 0..MaxVerdicts
    BY <1>0, <2>1
  <2>3. CASE phase[v] = "open"
    <3>1. cycle' = [cycle EXCEPT ![v] = cycle[v] + 1]
      BY <2>3 DEF Verdict
    <3>. QED  BY <1>0, <2>1, <2>2, <3>1
  <2>4. CASE phase[v] # "open"
    <3>1. cycle' = cycle /\ cycle[v] > 0
      BY <2>4 DEF Verdict, TypeInv, TypeOK, CyclesCount
    <3>. QED  BY <1>0, <2>1, <3>1
  <2>. QED  BY <2>3, <2>4
<1>2. PICK r : /\ r \in [pc : Pcs, v : 0..MaxVersions, prev : 0..MaxVersions, polls : 0..MaxPolls]
               /\ r.pc = "list" /\ r.v = v /\ r.prev = 0
               /\ wk' = [wk EXCEPT ![w] = r]
  <2>1. PICK r : r = [Idle EXCEPT !.pc = "list", !.v = v] /\ wk' = [wk EXCEPT ![w] = r]
    BY Zenon DEF Verdict
  <2>2. Idle \in [pc : Pcs, v : 0..MaxVersions, prev : 0..MaxVersions, polls : 0..MaxPolls]
        /\ Idle.prev = 0
    BY <1>0 DEF TypeInv, TypeOK, Idle
  <2>3. "list" \in Pcs /\ v \in 0..MaxVersions
    BY DEF Pcs
  <2>4. r \in [pc : Pcs, v : 0..MaxVersions, prev : 0..MaxVersions, polls : 0..MaxPolls]
        /\ r.pc = "list" /\ r.v = v /\ r.prev = 0
    BY <2>1, <2>2, <2>3
  <2>. QED  BY <2>1, <2>4
<1>3. TypeOK'
  <2>1. failed' \in [Versions -> BOOLEAN]
    <3>1. failed \in [Versions -> BOOLEAN]
      BY DEF TypeInv, TypeOK
    <3>2. failed' = failed \/ failed' = [failed EXCEPT ![v] = FALSE]
      BY DEF Verdict
    <3>. QED  BY <3>1, <3>2, Zenon
  <2>3. wk' \in [Workers -> [pc : Pcs, v : 0..MaxVersions, prev : 0..MaxVersions,
                             polls : 0..MaxPolls]]
    BY <1>2 DEF TypeInv, TypeOK
  <2>4. phase' \in [Versions -> {"open", "verdict"}]
        /\ finalizedAt' \in [Versions -> 0..MaxVerdicts] /\ clock' \in 0..MaxVerdicts
    BY <1>0 DEF Verdict, TypeInv, TypeOK
  <2>5. UNCHANGED <<released, noted, jobs, ran, errors>>
    BY DEF Verdict
  <2>. QED  BY <1>1, <2>1, <2>3, <2>4, <2>5 DEF TypeInv, TypeOK
<1>4. CallsMakeSense'
  <2>. SUFFICES ASSUME NEW x \in Workers, wk'[x].pc # "idle"
                PROVE  /\ wk'[x].v \in 1..released /\ phase'[wk'[x].v] = "verdict"
                       /\ wk'[x].prev < wk'[x].v
    BY DEF CallsMakeSense, Verdict
  <2>1. phase' = [phase EXCEPT ![v] = "verdict"]
    BY DEF Verdict
  <2>2. CASE x = w
    BY <1>0, <1>2, <2>1, <2>2 DEF TypeInv, TypeOK
  <2>3. CASE x # w
    <3>1. wk'[x] = wk[x]
      BY <1>2, <2>3 DEF TypeInv, TypeOK
    <3>2. wk[x].v \in Versions
      BY <3>1 DEF TypeInv, TypeOK, CallsMakeSense
    <3>. QED  BY <2>1, <3>1, <3>2 DEF TypeInv, TypeOK, CallsMakeSense
  <2>. QED  BY <2>2, <2>3
<1>5. CyclesCount'
  <2>. SUFFICES ASSUME NEW u \in Versions
                PROVE  /\ ran[u] <= cycle'[u] /\ cycle'[u] <= clock + 1
                       /\ finalizedAt'[u] <= clock + 1
                       /\ phase'[u] = "verdict" => cycle'[u] > 0
    BY DEF CyclesCount, Verdict
  <2>0. /\ ran[u] \in Int /\ cycle[u] \in Int /\ finalizedAt[u] \in Int /\ clock \in Int
        /\ ran[u] <= cycle[u] /\ cycle[u] <= clock /\ finalizedAt[u] <= clock
        /\ phase[u] = "verdict" => cycle[u] > 0
        /\ u \in DOMAIN finalizedAt /\ u \in DOMAIN phase
    BY DEF TypeInv, TypeOK, CyclesCount
  <2>1. /\ finalizedAt'[u] = IF u = v THEN clock + 1 ELSE finalizedAt[u]
        /\ phase'[u] = IF u = v THEN "verdict" ELSE phase[u]
    BY <2>0 DEF Verdict
  <2>2. cycle'[u] \in Int /\ cycle[u] <= cycle'[u] /\ cycle'[u] <= clock + 1
        /\ (u # v => cycle'[u] = cycle[u])
    BY <1>1, <2>0
  <2>. QED  BY <1>1, <2>0, <2>1, <2>2
<1>6. LastOneThere'
  <2>. SUFFICES ASSUME NEW S \in SUBSET Versions, S # {}
                PROVE  \E u \in S : \A t \in S : finalizedAt'[t] <= finalizedAt'[u]
    BY DEF LastOneThere
  <2>0. /\ finalizedAt'[v] = clock + 1
        /\ \A t \in Versions \ {v} : finalizedAt'[t] = finalizedAt[t] /\ finalizedAt[t] <= clock
        /\ clock \in Int /\ \A t \in Versions : finalizedAt[t] \in Int
    <3>1. finalizedAt' = [finalizedAt EXCEPT ![v] = clock + 1]
      BY DEF Verdict
    <3>2. finalizedAt \in [Versions -> 0..MaxVerdicts] /\ clock \in 0..MaxVerdicts
      BY DEF TypeInv, TypeOK
    <3>3. \A t \in Versions : finalizedAt[t] <= clock
      BY DEF TypeInv, CyclesCount
    <3>4. /\ finalizedAt'[v] = clock + 1
          /\ \A t \in Versions \ {v} : finalizedAt'[t] = finalizedAt[t]
      BY <3>1, <3>2
    <3>5. clock \in Int /\ \A t \in Versions : finalizedAt[t] \in Int
      BY <3>2
    <3>. QED  BY <3>3, <3>4, <3>5
  <2>1. CASE v \in S
    <3>1. ASSUME NEW t \in S PROVE finalizedAt'[t] <= finalizedAt'[v]
      <4>1. CASE t = v
        BY <2>0, <4>1
      <4>2. CASE t # v
        <5>1. t \in Versions \ {v}
          BY <4>2
        <5>. QED  BY <2>0, <5>1
      <4>. QED  BY <4>1, <4>2
    <3>. QED  BY <2>1, <3>1
  <2>2. CASE v \notin S
    BY <2>0, <2>2 DEF TypeInv, LastOneThere
  <2>. QED  BY <2>1, <2>2
<1>. QED  BY <1>3, <1>4, <1>5, <1>6 DEF TypeInv

\* What a request of a call does to the worker's record.
WorkRec == [pc : Pcs, v : 0..MaxVersions, prev : 0..MaxVersions, polls : 0..MaxPolls]

Moved(w) ==
    /\ wk' \in [Workers -> WorkRec]
    /\ \A x \in Workers \ {w} : wk'[x] = wk[x]
    /\ wk'[w].pc # "idle" => wk'[w].v = wk[w].v /\ wk'[w].prev < wk[w].v

LEMMA GotoMoves ==
    ASSUME TypeInv, NEW w \in Workers, wk[w].pc # "idle", NEW p \in Pcs, Goto(w, p)
    PROVE  Moved(w) /\ wk'[w].pc = p /\ wk'[w].v = wk[w].v
<1>1. wk \in [Workers -> WorkRec] /\ 0 \in 0..MaxPolls /\ wk[w].prev < wk[w].v
  BY DEF TypeInv, TypeOK, WorkRec, CallsMakeSense
<1>2. PICK r : r = [wk[w] EXCEPT !.pc = p, !.polls = 0] /\ wk' = [wk EXCEPT ![w] = r]
  BY DEF Goto
<1>3. r \in WorkRec /\ r.pc = p /\ r.v = wk[w].v /\ r.prev = wk[w].prev
  BY <1>1, <1>2 DEF WorkRec
<1>. QED  BY <1>1, <1>2, <1>3 DEF Moved

LEMMA FailMoves ==
    ASSUME TypeInv, NEW w \in Workers, wk[w].pc # "idle", Fail(w)
    PROVE  /\ Moved(w) /\ wk'[w].pc = "idle" /\ UNCHANGED jobs
           /\ failed' = [failed EXCEPT ![wk[w].v] = TRUE]
           /\ failed' \in [Versions -> BOOLEAN]
<1>1. wk \in [Workers -> WorkRec] /\ Idle \in WorkRec /\ Idle.pc = "idle"
  BY DEF TypeInv, TypeOK, WorkRec, Idle, Pcs
<1>2. wk' = [wk EXCEPT ![w] = Idle] /\ failed' = [failed EXCEPT ![wk[w].v] = TRUE]
      /\ UNCHANGED jobs
  BY DEF Fail
<1>3. failed \in [Versions -> BOOLEAN]
  BY DEF TypeInv, TypeOK
<1>4. failed' \in [Versions -> BOOLEAN]
  BY <1>2, <1>3, Zenon
<1>. QED  BY <1>1, <1>2, <1>4 DEF Moved

LEMMA NameType ==
    ASSUME TypeInv, NEW w \in Workers, wk[w].pc # "idle"
    PROVE  Name(w) \in Names /\ wk[w].v \in Versions
BY DEF TypeInv, TypeOK, CallsMakeSense, Name, Names

LEMMA CreatesType ==
    ASSUME TypeInv, NEW w \in Workers, wk[w].pc # "idle", Creates(w)
    PROVE  /\ Moved(w) /\ wk'[w].pc = "note" /\ wk'[w].v = wk[w].v
           /\ jobs' \in [Names -> Job \cup {NoJob}]
           /\ \E j \in Job : /\ jobs' = [jobs EXCEPT ![Name(w)] = j]
                             /\ j.of = wk[w].v /\ j.cycle = cycle[wk[w].v]
                             /\ j.prev = wk[w].prev /\ ~j.del /\ ~j.done
           /\ UNCHANGED <<errors, failed>>
<1>1. /\ wk[w].v \in Versions /\ Name(w) \in Names
      /\ cycle[wk[w].v] \in 1..MaxVerdicts /\ wk[w].prev \in Versions \cup {0}
  <2>1. wk[w].v \in Versions /\ Name(w) \in Names
    BY NameType
  <2>2. cycle[wk[w].v] > 0
    BY <2>1 DEF TypeInv, CallsMakeSense, CyclesCount
  <2>3. cycle[wk[w].v] \in 0..MaxVerdicts /\ wk[w].prev \in 0..MaxVersions
    BY <2>1 DEF TypeInv, TypeOK
  <2>. QED  BY <2>1, <2>2, <2>3
<1>2. PICK j : /\ j = [NoJob EXCEPT !.of = wk[w].v, !.cycle = cycle[wk[w].v],
                                    !.prev = wk[w].prev]
               /\ jobs' = [jobs EXCEPT ![Name(w)] = j]
  BY DEF Creates
<1>3. j = [of |-> wk[w].v, cycle |-> cycle[wk[w].v], prev |-> wk[w].prev,
           done |-> FALSE, del |-> FALSE]
  BY <1>2, Zenon DEF NoJob
<1>4. j \in Job
  BY <1>1, <1>3 DEF Job
<1>5. jobs \in [Names -> Job \cup {NoJob}]
  BY DEF TypeInv, TypeOK
<1>6. Goto(w, "note") /\ "note" \in Pcs /\ UNCHANGED <<errors, failed>>
  BY DEF Creates, Pcs
<1>7. Moved(w) /\ wk'[w].pc = "note" /\ wk'[w].v = wk[w].v
  BY <1>6, GotoMoves
<1>8. jobs' \in [Names -> Job \cup {NoJob}]
  BY <1>1, <1>2, <1>4, <1>5
<1>9. j.of = wk[w].v /\ j.cycle = cycle[wk[w].v] /\ j.prev = wk[w].prev /\ ~j.del /\ ~j.done
  BY <1>3
<1>. QED  BY <1>2, <1>4, <1>6, <1>7, <1>8, <1>9

LEMMA ErrorType ==
    ASSUME TypeInv, errors < MaxErrors, errors' = errors + 1
    PROVE  errors' \in 0..MaxErrors
BY DEF TypeInv, TypeOK

\* The record of one worker moves, the Arrivals stay.
LEMMA MovedType ==
    ASSUME TypeInv, NEW w \in Workers, wk[w].pc # "idle", Moved(w), UNCHANGED arrivals,
           noted' \in [Versions -> BOOLEAN], jobs' \in [Names -> Job \cup {NoJob}],
           UNCHANGED ran, errors' \in 0..MaxErrors, failed' \in [Versions -> BOOLEAN]
    PROVE  TypeInv'
<1>1. TypeOK'
  BY DEF TypeInv, TypeOK, Moved, WorkRec, arrivals
<1>2. CallsMakeSense'
  BY DEF TypeInv, CallsMakeSense, Moved, arrivals
<1>3. CyclesCount' /\ LastOneThere'
  BY DEF TypeInv, CyclesCount, LastOneThere, arrivals
<1>. QED  BY <1>1, <1>2, <1>3 DEF TypeInv

LEMMA CallType == ASSUME TypeInv, NEW w \in Workers, Call(w) PROVE TypeInv'
<1>1. /\ noted \in [Versions -> BOOLEAN] /\ failed \in [Versions -> BOOLEAN]
      /\ jobs \in [Names -> Job \cup {NoJob}] /\ errors \in 0..MaxErrors
      /\ wk \in [Workers -> WorkRec]
  BY DEF TypeInv, TypeOK, WorkRec
<1>2. wk[w].pc # "idle"
  BY DEF Call, FindPrevious, Create, Delete, Poll, Recreate, Note, At
<1>3. ASSUME RequestFails(w), UNCHANGED <<arrivals, noted, ran>> PROVE TypeInv'
  BY <1>1, <1>2, <1>3, FailMoves, ErrorType, MovedType DEF RequestFails
<1>4. ASSUME Creates(w), UNCHANGED <<arrivals, noted, ran>> PROVE TypeInv'
  BY <1>1, <1>2, <1>4, CreatesType, MovedType
<1>5. ASSUME NEW p \in Pcs, Goto(w, p), jobs' \in [Names -> Job \cup {NoJob}],
             UNCHANGED <<arrivals, noted, ran, failed>>, errors' \in 0..MaxErrors
      PROVE  TypeInv'
  BY <1>1, <1>2, <1>5, GotoMoves, MovedType
<1>6. CASE FindPrevious(w)
  <2>1. CASE Goto(w, "create")
    BY <1>1, <1>5, <1>6, <2>1, ErrorType DEF FindPrevious, Pcs
  <2>2. CASE wk' = [wk EXCEPT ![w].pc = "create", ![w].prev = Previous(wk[w].v)]
             /\ UNCHANGED errors
    <3>1. PICK r : r = [wk[w] EXCEPT !.pc = "create", !.prev = Previous(wk[w].v)]
                   /\ wk' = [wk EXCEPT ![w] = r]
      BY <2>2
    <3>2. Previous(wk[w].v) \in 0..MaxVersions /\ Previous(wk[w].v) < wk[w].v
      BY <1>2, NameType, PreviousIsEarlier DEF TypeInv
    <3>3. r \in WorkRec /\ r.v = wk[w].v /\ r.prev = Previous(wk[w].v)
      BY <1>1, <3>1, <3>2 DEF WorkRec, Pcs
    <3>4. Moved(w)
      BY <1>1, <3>1, <3>2, <3>3 DEF Moved
    <3>. QED  BY <1>1, <1>2, <1>6, <2>2, <3>4, MovedType DEF FindPrevious
  <2>. QED  BY <1>6, <2>1, <2>2 DEF FindPrevious
<1>7. CASE Create(w)
  BY <1>1, <1>3, <1>4, <1>5, <1>7 DEF Create, Pcs
<1>8. CASE Delete(w)
  <2>1. ASSUME Goto(w, "poll"), UNCHANGED <<errors, failed>>,
               jobs' = IF Exists(w) THEN [jobs EXCEPT ![Name(w)].del = TRUE] ELSE jobs
        PROVE  TypeInv'
    <3>1. jobs' \in [Names -> Job \cup {NoJob}]
      <4>1. CASE Exists(w)
        <5>1. jobs[Name(w)] \in Job
          BY <1>1, <1>2, <4>1, NameType DEF Exists
        <5>2. [jobs[Name(w)] EXCEPT !.del = TRUE] \in Job
          BY <5>1 DEF Job
        <5>. QED  BY <1>1, <2>1, <4>1, <5>2
      <4>. QED  BY <1>1, <2>1, <4>1
    <3>. QED  BY <1>1, <1>5, <1>8, <2>1, <3>1 DEF Delete, Pcs
  <2>. QED  BY <1>3, <1>8, <2>1 DEF Delete
<1>9. CASE Poll(w)
  <2>1. ASSUME wk' = [wk EXCEPT ![w].polls = @ + 1], wk[w].polls < MaxPolls,
               UNCHANGED <<jobs, errors, failed>>
        PROVE  TypeInv'
    <3>1. PICK r : r = [wk[w] EXCEPT !.polls = @ + 1] /\ wk' = [wk EXCEPT ![w] = r]
      BY <2>1
    <3>2. wk[w].polls + 1 \in 0..MaxPolls
      BY <1>1, <2>1 DEF WorkRec
    <3>3. r \in WorkRec /\ r.v = wk[w].v /\ r.prev = wk[w].prev
      BY <1>1, <3>1, <3>2 DEF WorkRec
    <3>4. Moved(w)
      BY <1>1, <1>2, <3>1, <3>3 DEF Moved, TypeInv, CallsMakeSense
    <3>. QED  BY <1>1, <1>2, <1>9, <2>1, <3>4, MovedType DEF Poll
  <2>2. ASSUME Fail(w), UNCHANGED errors PROVE TypeInv'
    BY <1>1, <1>2, <1>9, <2>2, FailMoves, MovedType DEF Poll
  <2>. QED  BY <1>1, <1>3, <1>5, <1>9, <2>1, <2>2 DEF Poll, Pcs
<1>10. CASE Recreate(w)
  BY <1>1, <1>2, <1>3, <1>4, <1>10, FailMoves, MovedType DEF Recreate
<1>11. CASE Note(w)
  <2>1. noted' \in [Versions -> BOOLEAN]
    <3>1. noted' = noted \/ noted' = [noted EXCEPT ![wk[w].v] = TRUE]
      BY <1>11 DEF Note
    <3>. QED  BY <1>1, <3>1, Zenon
  <2>2. Moved(w)
    <3>1. Idle \in WorkRec /\ Idle.pc = "idle"
      BY DEF TypeInv, TypeOK, WorkRec, Idle, Pcs
    <3>. QED  BY <1>1, <1>11, <3>1 DEF Note, Moved
  <2>. QED  BY <1>1, <1>2, <1>11, <2>1, <2>2, ErrorType, MovedType DEF Note
<1>. QED  BY <1>6, <1>7, <1>8, <1>9, <1>10, <1>11 DEF Call

LEMMA OthersType ==
    ASSUME TypeInv, Release \/ Die \/ \E v \in Versions : Retest(v)
    PROVE  TypeInv'
<1>1. CASE Release
  <2>1. released' \in 0..MaxVersions /\ released <= released'
    BY <1>1 DEF Release, TypeInv, TypeOK
  <2>2. TypeOK'
    BY <1>1, <2>1 DEF Release, TypeInv, TypeOK
  <2>3. CallsMakeSense'
    <3>1. \A m \in 1..released : m \in 1..released'
      BY <1>1, <2>1 DEF TypeInv, TypeOK
    <3>2. UNCHANGED <<phase, wk>> /\ CallsMakeSense
      BY <1>1 DEF Release, TypeInv
    <3>. QED  BY <3>1, <3>2 DEF CallsMakeSense
  <2>4. CyclesCount' /\ LastOneThere'
    BY <1>1 DEF Release, TypeInv, CyclesCount, LastOneThere
  <2>. QED  BY <2>2, <2>3, <2>4 DEF TypeInv
<1>2. CASE Die
  <2>1. wk' \in [Workers -> WorkRec]
    BY <1>2 DEF Die, TypeInv, TypeOK, Idle, WorkRec, Pcs
  <2>2. failed' \in [Versions -> BOOLEAN]
    BY <1>2, Zenon DEF Die
  <2>3. errors' \in 0..MaxErrors
    BY <1>2 DEF Die, TypeInv, TypeOK
  <2>4. TypeOK'
    BY <1>2, <2>1, <2>2, <2>3 DEF Die, TypeInv, TypeOK, arrivals, WorkRec
  <2>5. CallsMakeSense'
    BY <1>2 DEF Die, CallsMakeSense, Idle
  <2>6. CyclesCount' /\ LastOneThere'
    BY <1>2 DEF Die, TypeInv, CyclesCount, LastOneThere, arrivals
  <2>. QED  BY <2>4, <2>5, <2>6 DEF TypeInv
<1>3. ASSUME NEW v \in Versions, Retest(v) PROVE TypeInv'
  <2>1. phase' = [phase EXCEPT ![v] = "open"] /\ phase' \in [Versions -> {"open", "verdict"}]
    BY <1>3 DEF Retest, TypeInv, TypeOK
  <2>2. TypeOK'
    BY <1>3, <2>1 DEF Retest, TypeInv, TypeOK
  <2>3. CallsMakeSense'
    <3>. SUFFICES ASSUME NEW x \in Workers, wk[x].pc # "idle"
                  PROVE  /\ wk[x].v \in 1..released /\ phase'[wk[x].v] = "verdict"
                         /\ wk[x].prev < wk[x].v
      BY <1>3 DEF CallsMakeSense, Retest
    <3>1. wk[x].v # v /\ wk[x].v \in Versions
      BY <1>3 DEF Retest, Calling, TypeInv, TypeOK, CallsMakeSense
    <3>. QED  BY <2>1, <3>1 DEF TypeInv, TypeOK, CallsMakeSense
  <2>4. CyclesCount'
    BY <1>3, <2>1 DEF Retest, TypeInv, TypeOK, CyclesCount
  <2>5. LastOneThere'
    BY <1>3 DEF Retest, TypeInv, LastOneThere
  <2>. QED  BY <2>2, <2>3, <2>4, <2>5 DEF TypeInv
<1>. QED  BY <1>1, <1>2, <1>3

-----------------------------------------------------------------------------
\* A Job compares backwards, and is for a cycle that has begun.
JobsMakeSense ==
    \A n \in Names : jobs[n] # NoJob =>
        /\ jobs[n].prev < jobs[n].of
        /\ jobs[n].cycle <= cycle[jobs[n].of]

LEMMA ClusterType ==
    ASSUME TypeInv, JobsMakeSense, NEW n \in Names,
           RunEnds(n) \/ Expires(n) \/ Collected(n)
    PROVE  TypeInv'
<1>1. /\ jobs \in [Names -> Job \cup {NoJob}] /\ ran \in [Versions -> 0..MaxVerdicts]
      /\ UNCHANGED <<arrivals, noted, wk, errors, failed>>
  BY DEF TypeInv, TypeOK, RunEnds, Expires, Collected, ClusterOnly
<1>2. jobs' \in [Names -> Job \cup {NoJob}]
  <2>1. CASE Collected(n)
    BY <1>1, <2>1 DEF Collected
  <2>2. CASE RunEnds(n) \/ Expires(n)
    <3>1. jobs[n] \in Job
      BY <1>1, <2>2 DEF RunEnds, Expires, NoJob
    <3>2. [jobs[n] EXCEPT !.done = TRUE] \in Job /\ [jobs[n] EXCEPT !.del = TRUE] \in Job
      BY <3>1 DEF Job
    <3>. QED  BY <1>1, <2>2, <3>2 DEF RunEnds, Expires
  <2>. QED  BY <2>1, <2>2
<1>3. /\ ran' \in [Versions -> 0..MaxVerdicts]
      /\ \A v \in Versions : ran'[v] <= cycle[v]
  <2>1. CASE RunEnds(n)
    <3>1. /\ jobs[n].of \in Versions /\ jobs[n].cycle \in 0..MaxVerdicts
          /\ jobs[n].cycle <= cycle[jobs[n].of]
          /\ ran' = [ran EXCEPT ![jobs[n].of] = jobs[n].cycle]
      BY <1>1, <2>1 DEF RunEnds, Job, JobsMakeSense
    <3>. QED  BY <1>1, <3>1 DEF TypeInv, CyclesCount
  <2>2. CASE Expires(n) \/ Collected(n)
    BY <1>1, <2>2 DEF Expires, Collected, TypeInv, CyclesCount
  <2>. QED  BY <2>1, <2>2
<1>4. TypeOK'
  BY <1>1, <1>2, <1>3 DEF TypeInv, TypeOK, arrivals
<1>5. CallsMakeSense' /\ LastOneThere' /\ CyclesCount'
  BY <1>1, <1>3 DEF TypeInv, CallsMakeSense, LastOneThere, CyclesCount, arrivals
<1>. QED  BY <1>4, <1>5 DEF TypeInv

\* Only the named Job changes, and only its marks.
LEMMA MarkedJobs ==
    ASSUME TypeInv, JobsMakeSense, NEW n \in Names, UNCHANGED cycle,
           \/ jobs[n] # NoJob /\ jobs' = [jobs EXCEPT ![n].del = TRUE]
           \/ jobs[n] # NoJob /\ jobs' = [jobs EXCEPT ![n].done = TRUE]
           \/ jobs' = [jobs EXCEPT ![n] = NoJob]
           \/ UNCHANGED jobs
    PROVE  JobsMakeSense'
<1>1. jobs \in [Names -> Job \cup {NoJob}]
  BY DEF TypeInv, TypeOK
<1>. SUFFICES ASSUME NEW m \in Names, jobs'[m] # NoJob
              PROVE  jobs'[m].prev < jobs'[m].of /\ jobs'[m].cycle <= cycle[jobs'[m].of]
  BY DEF JobsMakeSense
<1>2. CASE jobs'[m] = jobs[m]
  BY <1>2 DEF JobsMakeSense
<1>3. CASE jobs'[m] # jobs[m]
  <2>1. m = n /\ jobs[m] \in Job /\ jobs[m] # NoJob
    BY <1>1, <1>3
  <2>2. jobs'[m].prev = jobs[m].prev /\ jobs'[m].of = jobs[m].of
        /\ jobs'[m].cycle = jobs[m].cycle
    BY <1>1, <2>1 DEF Job
  <2>. QED  BY <2>1, <2>2 DEF JobsMakeSense
<1>. QED  BY <1>2, <1>3

LEMMA CreatedJobs ==
    ASSUME TypeInv, JobsMakeSense, NEW w \in Workers, wk[w].pc # "idle", Creates(w),
           UNCHANGED cycle
    PROVE  JobsMakeSense'
<1>1. jobs \in [Names -> Job \cup {NoJob}]
  BY DEF TypeInv, TypeOK
<1>2. PICK j \in Job : /\ jobs' = [jobs EXCEPT ![Name(w)] = j]
                       /\ j.of = wk[w].v /\ j.cycle = cycle[wk[w].v] /\ j.prev = wk[w].prev
  BY CreatesType
<1>3. j.prev < j.of /\ j.cycle <= cycle[j.of]
  <2>1. /\ wk[w].prev < wk[w].v /\ wk[w].v \in Versions
        /\ cycle[wk[w].v] \in 0..MaxVerdicts
    BY NameType DEF TypeInv, TypeOK, CallsMakeSense
  <2>. QED  BY <1>2, <2>1
<1>4. ASSUME NEW n \in Names, jobs'[n] # NoJob
      PROVE  jobs'[n].prev < jobs'[n].of /\ jobs'[n].cycle <= cycle[jobs'[n].of]
  <2>1. jobs'[n] = j \/ jobs'[n] = jobs[n]
    BY <1>1, <1>2
  <2>. QED  BY <1>3, <1>4, <2>1 DEF JobsMakeSense
<1>. QED  BY <1>4 DEF JobsMakeSense

LEMMA CallJobs ==
    ASSUME TypeInv, JobsMakeSense, NEW w \in Workers, Call(w)
    PROVE  JobsMakeSense'
<1>1. wk[w].pc # "idle" /\ UNCHANGED cycle
  BY DEF Call, FindPrevious, Create, Delete, Poll, Recreate, Note, At, arrivals
<1>2. Name(w) \in Names
  BY <1>1, NameType
<1>3. CASE UNCHANGED jobs
  BY <1>1, <1>2, <1>3, MarkedJobs
<1>4. CASE Creates(w)
  BY <1>1, <1>4, CreatedJobs
<1>5. CASE Exists(w) /\ jobs' = [jobs EXCEPT ![Name(w)].del = TRUE]
  BY <1>1, <1>2, <1>5, MarkedJobs DEF Exists
<1>. QED  BY <1>3, <1>4, <1>5 DEF Call, FindPrevious, Create, Delete, Poll, Recreate, Note,
                                 RequestFails, Fail

LEMMA VerdictJobs ==
    ASSUME TypeInv, JobsMakeSense, NEW w \in Workers, NEW v \in Versions, Verdict(w, v)
    PROVE  JobsMakeSense'
<1>1. jobs \in [Names -> Job \cup {NoJob}] /\ UNCHANGED jobs
      /\ cycle \in [Versions -> 0..MaxVerdicts]
  BY DEF Verdict, TypeInv, TypeOK
<1>2. cycle' = cycle \/ cycle' = [cycle EXCEPT ![v] = cycle[v] + 1]
  BY DEF Verdict
<1>3. \A u \in Versions : cycle[u] \in Int /\ cycle'[u] \in Int /\ cycle[u] <= cycle'[u]
  BY <1>1, <1>2
<1>. SUFFICES ASSUME NEW n \in Names, jobs[n] # NoJob
              PROVE  jobs[n].prev < jobs[n].of /\ jobs[n].cycle <= cycle'[jobs[n].of]
  BY <1>1 DEF JobsMakeSense
<1>4. jobs[n] \in Job
  BY <1>1
<1>5. jobs[n].of \in Versions /\ jobs[n].cycle \in Int
  BY <1>4 DEF Job
<1>. QED  BY <1>3, <1>5 DEF JobsMakeSense

LEMMA NextType ==
    ASSUME TypeInv, JobsMakeSense, [Next]_vars
    PROVE  TypeInv' /\ JobsMakeSense'
<1>1. ASSUME NEW w \in Workers, Call(w) PROVE TypeInv' /\ JobsMakeSense'
  BY <1>1, CallType, CallJobs
<1>2. ASSUME NEW w \in Workers, NEW v \in Versions, Verdict(w, v)
      PROVE  TypeInv' /\ JobsMakeSense'
  BY <1>2, VerdictType, VerdictJobs
<1>3. ASSUME NEW n \in Names, RunEnds(n) \/ Expires(n) \/ Collected(n)
      PROVE  TypeInv' /\ JobsMakeSense'
  <2>1. UNCHANGED cycle
    BY <1>3 DEF RunEnds, Expires, Collected, ClusterOnly, arrivals
  <2>2. jobs[n].done => jobs[n] # NoJob
    BY DEF NoJob
  <2>3. JobsMakeSense'
    BY <1>3, <2>1, <2>2, MarkedJobs DEF RunEnds, Expires, Collected
  <2>. QED  BY <1>3, <2>3, ClusterType
<1>4. CASE Release \/ Die \/ \E v \in Versions : Retest(v)
  <2>1. UNCHANGED <<jobs, cycle>>
    BY <1>4 DEF Release, Die, Retest, arrivals
  <2>2. JobsMakeSense'
    BY <2>1 DEF JobsMakeSense
  <2>. QED  BY <1>4, <2>2, OthersType
<1>5. CASE UNCHANGED vars
  BY <1>5 DEF vars, TypeInv, TypeOK, CallsMakeSense, CyclesCount, LastOneThere, JobsMakeSense
<1>. QED  BY <1>1, <1>2, <1>3, <1>4, <1>5 DEF Next

LEMMA TypeInvariance == Spec => [](TypeInv /\ JobsMakeSense)
<1>1. Init => TypeInv /\ JobsMakeSense
  BY InitType DEF Init, JobsMakeSense
<1>. QED  BY <1>1, NextType, PTL DEF Spec

\* Type correctness of the forensics model.
THEOREM ForensicsTypes == Spec => []TypeOK
<1>1. TypeInv => TypeOK
  BY DEF TypeInv
<1>. QED  BY <1>1, TypeInvariance, PTL

\* findPreviousVersion and the Jobs built from it never compare a version with
\* one that came after it, whatever order the versions were finalized in.
THEOREM NeverComparesForwards == Spec => []ComparesBackwards
<1>1. JobsMakeSense => ComparesBackwards
  BY DEF JobsMakeSense, ComparesBackwards
<1>. QED  BY <1>1, TypeInvariance, PTL

-----------------------------------------------------------------------------
(* Every cycle has its run, where Job names are distinct.                    *)

\* The Job of a version's name is its own, and no run has ended for a later
\* cycle than the Job's: for its own cycle if it is done.
OwnJobs ==
    \A v \in Versions :
        LET j == jobs[JobName[v]] IN
        j # NoJob => /\ j.of = v
                     /\ ran[v] <= j.cycle
                     /\ j.done => ran[v] = j.cycle

\* A worker that will create the Job of v, or fail the cycle.
Pending(v) ==
    \E w \in Workers :
        wk[w].v = v /\ wk[w].pc \in {"list", "create", "delete", "poll", "recreate"}

Fired(v) ==
    \/ ran[v] = cycle[v]
    \/ LET j == jobs[JobName[v]] IN j.of = v /\ j.cycle = cycle[v] /\ ~j.del

\* Whoever deletes a Job of this cycle is bound to replace it.
RunOnItsWay ==
    \A v \in Versions : phase[v] = "verdict" /\ ~failed[v] => Pending(v) \/ Fired(v)

FiresInv == TypeInv /\ JobsMakeSense /\ OwnJobs /\ RunOnItsWay

LEMMA JobTypes ==
    ASSUME TypeInv, NEW v \in Versions
    PROVE  /\ JobName[v] \in Names
           /\ jobs[JobName[v]] # NoJob => jobs[JobName[v]] \in Job
           /\ ran[v] \in Nat /\ cycle[v] \in Nat /\ ran[v] <= cycle[v]
BY DEF TypeInv, TypeOK, Names, CyclesCount

\* A request that leaves the Jobs alone: its worker still goes on to create the
\* Job, or was past it, or failed the cycle.
LEMMA QuietFires ==
    ASSUME FiresInv, NEW w \in Workers, wk[w].pc # "idle", Moved(w),
           UNCHANGED <<arrivals, jobs, ran>>, failed' \in [Versions -> BOOLEAN],
           \A v \in Versions : failed[v] => failed'[v],
           \/ wk'[w].pc \in {"create", "delete", "poll", "recreate"} /\ wk'[w].v = wk[w].v
           \/ wk[w].pc = "note"
           \/ failed'[wk[w].v]
    PROVE  OwnJobs' /\ RunOnItsWay'
<1>1. OwnJobs'
  BY DEF FiresInv, OwnJobs
<1>2. ASSUME NEW v \in Versions, phase[v] = "verdict", ~failed'[v]
      PROVE  Pending(v)' \/ Fired(v)'
  <2>1. Pending(v) \/ Fired(v)
    BY <1>2 DEF FiresInv, RunOnItsWay
  <2>2. Fired(v)' <=> Fired(v)
    BY DEF Fired, arrivals
  <2>3. ASSUME Pending(v) PROVE Pending(v)'
    <3>1. PICK x \in Workers : /\ wk[x].v = v
                               /\ wk[x].pc \in {"list", "create", "delete", "poll", "recreate"}
      BY <2>3 DEF Pending
    <3>2. CASE x # w
      BY <3>1, <3>2 DEF Moved, Pending
    <3>3. CASE x = w
      BY <1>2, <3>1, <3>3 DEF Pending
    <3>. QED  BY <3>2, <3>3
  <2>. QED  BY <2>1, <2>2, <2>3
<1>3. RunOnItsWay'
  BY <1>2 DEF RunOnItsWay, arrivals
<1>. QED  BY <1>1, <1>3

LEMMA CreatedFires ==
    ASSUME FiresInv, Distinct, NEW w \in Workers, wk[w].pc # "idle", Creates(w),
           UNCHANGED <<arrivals, ran>>
    PROVE  OwnJobs' /\ RunOnItsWay'
<1>1. PICK j \in Job : /\ jobs' = [jobs EXCEPT ![Name(w)] = j]
                       /\ j.of = wk[w].v /\ j.cycle = cycle[wk[w].v]
                       /\ ~j.del /\ ~j.done
  BY CreatesType DEF FiresInv
<1>2. Moved(w) /\ UNCHANGED failed /\ wk[w].v \in Versions /\ jobs \in [Names -> Job \cup {NoJob}]
  BY CreatesType, NameType DEF FiresInv, TypeInv, TypeOK
<1>3. /\ jobs'[JobName[wk[w].v]] = j
      /\ \A v \in Versions : v # wk[w].v => jobs'[JobName[v]] = jobs[JobName[v]]
  BY <1>1, <1>2, JobTypes DEF Distinct, Name, FiresInv
<1>4. OwnJobs'
  <2>. SUFFICES ASSUME NEW v \in Versions, jobs'[JobName[v]] # NoJob
                PROVE  /\ jobs'[JobName[v]].of = v
                       /\ ran[v] <= jobs'[JobName[v]].cycle
                       /\ jobs'[JobName[v]].done => ran[v] = jobs'[JobName[v]].cycle
    BY DEF OwnJobs
  <2>1. CASE v = wk[w].v
    BY <1>1, <1>3, <2>1, JobTypes DEF FiresInv
  <2>2. CASE v # wk[w].v
    BY <1>3, <2>2 DEF FiresInv, OwnJobs
  <2>. QED  BY <2>1, <2>2
<1>5. ASSUME NEW v \in Versions, phase[v] = "verdict", ~failed[v]
      PROVE  Pending(v)' \/ Fired(v)'
  <2>1. CASE v = wk[w].v
    BY <1>1, <1>3, <2>1 DEF Fired, arrivals
  <2>2. CASE v # wk[w].v
    <3>1. Pending(v) \/ Fired(v)
      BY <1>5 DEF FiresInv, RunOnItsWay
    <3>2. Fired(v) => Fired(v)'
      BY <1>3, <2>2 DEF Fired, arrivals
    <3>3. Pending(v) => Pending(v)'
      BY <1>2, <2>2 DEF Pending, Moved
    <3>. QED  BY <3>1, <3>2, <3>3
  <2>. QED  BY <2>1, <2>2
<1>6. RunOnItsWay'
  BY <1>2, <1>5 DEF RunOnItsWay, arrivals
<1>. QED  BY <1>4, <1>6

LEMMA DeletedFires ==
    ASSUME FiresInv, Distinct, NEW w \in Workers, wk[w].pc = "delete", Exists(w),
           jobs' = [jobs EXCEPT ![Name(w)].del = TRUE], Goto(w, "poll"),
           UNCHANGED <<arrivals, ran, failed>>
    PROVE  OwnJobs' /\ RunOnItsWay'
<1>1. /\ Moved(w) /\ wk'[w].pc = "poll" /\ wk'[w].v = wk[w].v
      /\ wk[w].v \in Versions /\ jobs \in [Names -> Job \cup {NoJob}]
  BY GotoMoves, NameType DEF FiresInv, TypeInv, TypeOK, Pcs
<1>2. jobs[Name(w)] \in Job
  BY <1>1, JobTypes DEF Exists, Name, FiresInv
<1>3. /\ \A v \in Versions : v # wk[w].v => jobs'[JobName[v]] = jobs[JobName[v]]
      /\ jobs'[Name(w)].of = jobs[Name(w)].of
      /\ jobs'[Name(w)].cycle = jobs[Name(w)].cycle
      /\ jobs'[Name(w)].done = jobs[Name(w)].done
  BY <1>1, <1>2, JobTypes DEF Distinct, Name, FiresInv, Job
<1>4. OwnJobs'
  <2>. SUFFICES ASSUME NEW v \in Versions, jobs'[JobName[v]] # NoJob
                PROVE  /\ jobs'[JobName[v]].of = v
                       /\ ran[v] <= jobs'[JobName[v]].cycle
                       /\ jobs'[JobName[v]].done => ran[v] = jobs'[JobName[v]].cycle
    BY DEF OwnJobs
  <2>1. CASE v = wk[w].v
    BY <1>3, <2>1 DEF FiresInv, OwnJobs, Exists, Name
  <2>2. CASE v # wk[w].v
    BY <1>3, <2>2 DEF FiresInv, OwnJobs
  <2>. QED  BY <2>1, <2>2
<1>5. ASSUME NEW v \in Versions, phase[v] = "verdict", ~failed[v]
      PROVE  Pending(v)' \/ Fired(v)'
  <2>1. CASE v = wk[w].v
    BY <1>1, <2>1 DEF Pending
  <2>2. CASE v # wk[w].v
    <3>1. Pending(v) \/ Fired(v)
      BY <1>5 DEF FiresInv, RunOnItsWay
    <3>2. Fired(v) => Fired(v)'
      BY <1>3, <2>2 DEF Fired, arrivals
    <3>3. Pending(v) => Pending(v)'
      BY <1>1, <2>2 DEF Pending, Moved
    <3>. QED  BY <3>1, <3>2, <3>3
  <2>. QED  BY <2>1, <2>2
<1>6. RunOnItsWay'
  BY <1>5 DEF RunOnItsWay, arrivals
<1>. QED  BY <1>4, <1>6

LEMMA CallFires ==
    ASSUME FiresInv, Distinct, NEW w \in Workers, Call(w)
    PROVE  OwnJobs' /\ RunOnItsWay'
<1>1. /\ wk[w].pc # "idle" /\ UNCHANGED <<arrivals, ran>>
      /\ TypeInv /\ wk[w].v \in Versions
      /\ failed \in [Versions -> BOOLEAN] /\ wk \in [Workers -> WorkRec]
  BY NameType DEF Call, FindPrevious, Create, Delete, Poll, Recreate, Note, At, FiresInv,
                  TypeInv, TypeOK, WorkRec
<1>2. ASSUME Fail(w) PROVE OwnJobs' /\ RunOnItsWay'
  <2>1. \A v \in Versions : failed[v] => failed'[v]
    BY <1>1, <1>2, FailMoves
  <2>2. failed'[wk[w].v]
    BY <1>1, <1>2, FailMoves
  <2>. QED  BY <1>1, <1>2, <2>1, <2>2, FailMoves, QuietFires
<1>3. ASSUME NEW p \in {"create", "delete", "poll", "recreate"}, Goto(w, p),
             UNCHANGED <<jobs, failed>>
      PROVE  OwnJobs' /\ RunOnItsWay'
  <2>1. Moved(w) /\ wk'[w].pc = p /\ wk'[w].v = wk[w].v
    BY <1>1, <1>3, GotoMoves DEF Pcs
  <2>. QED  BY <1>1, <1>3, <2>1, QuietFires
<1>4. CASE FindPrevious(w)
  <2>1. CASE Goto(w, "create")
    BY <1>3, <1>4, <2>1 DEF FindPrevious
  <2>2. CASE wk' = [wk EXCEPT ![w].pc = "create", ![w].prev = Previous(wk[w].v)]
    <3>1. PICK r : r = [wk[w] EXCEPT !.pc = "create", !.prev = Previous(wk[w].v)]
                   /\ wk' = [wk EXCEPT ![w] = r]
      BY <2>2
    <3>2. Previous(wk[w].v) \in 0..MaxVersions /\ Previous(wk[w].v) < wk[w].v
      BY <1>1, PreviousIsEarlier DEF TypeInv
    <3>3. /\ r \in WorkRec /\ r.v = wk[w].v /\ r.prev = Previous(wk[w].v)
          /\ r.pc = "create"
      BY <1>1, <3>1, <3>2 DEF WorkRec, Pcs
    <3>4. Moved(w) /\ wk'[w].pc = "create" /\ wk'[w].v = wk[w].v
      BY <1>1, <3>1, <3>2, <3>3 DEF Moved
    <3>. QED  BY <1>1, <1>4, <3>4, QuietFires DEF FindPrevious
  <2>. QED  BY <1>4, <2>1, <2>2 DEF FindPrevious
<1>5. CASE Create(w)
  BY <1>1, <1>2, <1>3, <1>5, CreatedFires DEF Create, RequestFails
<1>6. CASE Delete(w)
  <2>1. CASE Goto(w, "poll") /\ Exists(w) /\ UNCHANGED failed
             /\ jobs' = IF Exists(w) THEN [jobs EXCEPT ![Name(w)].del = TRUE] ELSE jobs
    BY <1>1, <1>6, <2>1, DeletedFires DEF Delete, At
  <2>2. CASE Goto(w, "poll") /\ ~Exists(w) /\ UNCHANGED failed
             /\ jobs' = IF Exists(w) THEN [jobs EXCEPT ![Name(w)].del = TRUE] ELSE jobs
    BY <1>3, <2>2
  <2>. QED  BY <1>2, <1>6, <2>1, <2>2 DEF Delete, RequestFails
<1>7. CASE Poll(w)
  <2>1. CASE wk' = [wk EXCEPT ![w].polls = @ + 1] /\ wk[w].polls < MaxPolls
             /\ UNCHANGED <<jobs, failed>>
    <3>1. PICK r : r = [wk[w] EXCEPT !.polls = @ + 1] /\ wk' = [wk EXCEPT ![w] = r]
      BY <2>1
    <3>2. wk[w].polls + 1 \in 0..MaxPolls
      BY <1>1, <2>1 DEF WorkRec
    <3>3. r \in WorkRec /\ r.v = wk[w].v /\ r.prev = wk[w].prev /\ r.pc = "poll"
      BY <1>1, <1>7, <3>1, <3>2 DEF WorkRec, Poll, At
    <3>4. Moved(w) /\ wk'[w].pc = "poll" /\ wk'[w].v = wk[w].v
      BY <1>1, <3>1, <3>3 DEF Moved, TypeInv, CallsMakeSense
    <3>. QED  BY <1>1, <2>1, <3>4, QuietFires
  <2>. QED  BY <1>2, <1>3, <1>7, <2>1 DEF Poll, RequestFails
<1>8. CASE Recreate(w)
  BY <1>1, <1>2, <1>8, CreatedFires DEF Recreate, RequestFails
<1>9. CASE Note(w)
  <2>1. Idle \in WorkRec /\ Idle.pc = "idle"
    BY <1>1 DEF TypeInv, TypeOK, WorkRec, Idle, Pcs
  <2>2. Moved(w)
    BY <1>1, <1>9, <2>1 DEF Note, Moved
  <2>. QED  BY <1>1, <1>9, <2>2, QuietFires DEF Note, At
<1>. QED  BY <1>4, <1>5, <1>6, <1>7, <1>8, <1>9 DEF Call

LEMMA VerdictFires ==
    ASSUME FiresInv, NEW w \in Workers, NEW v \in Versions, Verdict(w, v)
    PROVE  OwnJobs' /\ RunOnItsWay'
<1>1. /\ UNCHANGED <<jobs, ran>> /\ wk[w] = Idle
      /\ wk' = [wk EXCEPT ![w] = [Idle EXCEPT !.pc = "list", !.v = v]]
      /\ phase' = [phase EXCEPT ![v] = "verdict"]
      /\ \/ cycle' = [cycle EXCEPT ![v] = @ + 1] /\ failed' = [failed EXCEPT ![v] = FALSE]
         \/ UNCHANGED <<cycle, failed>>
  BY Zenon DEF Verdict
<1>2. /\ wk \in [Workers -> WorkRec] /\ phase \in [Versions -> {"open", "verdict"}]
      /\ cycle \in [Versions -> 0..MaxVerdicts] /\ failed \in [Versions -> BOOLEAN]
  BY DEF FiresInv, TypeInv, TypeOK, WorkRec
<1>3. OwnJobs'
  BY <1>1 DEF FiresInv, OwnJobs
<1>4. wk'[w].pc = "list" /\ wk'[w].v = v /\ Idle.pc = "idle"
  <2>1. PICK r : r = [Idle EXCEPT !.pc = "list", !.v = v] /\ wk' = [wk EXCEPT ![w] = r]
    BY <1>1, Zenon
  <2>2. Idle \in WorkRec /\ Idle.pc = "idle"
    BY <1>1, <1>2 DEF Idle
  <2>3. r.pc = "list" /\ r.v = v
    BY <2>1, <2>2 DEF WorkRec
  <2>. QED  BY <1>2, <2>1, <2>2, <2>3
<1>5. ASSUME NEW u \in Versions, phase'[u] = "verdict", ~failed'[u]
      PROVE  Pending(u)' \/ Fired(u)'
  <2>1. CASE u = v
    BY <1>4, <2>1 DEF Pending
  <2>2. CASE u # v
    <3>1. phase[u] = "verdict" /\ ~failed[u] /\ cycle'[u] = cycle[u]
      BY <1>1, <1>2, <1>5, <2>2
    <3>2. Pending(u) \/ Fired(u)
      BY <3>1 DEF FiresInv, RunOnItsWay
    <3>3. Fired(u) => Fired(u)'
      BY <1>1, <3>1 DEF Fired
    <3>4. Pending(u) => Pending(u)'
      <4>. SUFFICES ASSUME NEW x \in Workers, wk[x].v = u,
                           wk[x].pc \in {"list", "create", "delete", "poll", "recreate"}
                    PROVE  Pending(u)'
        BY DEF Pending
      <4>1. x # w
        BY <1>1, <1>4
      <4>2. wk'[x] = wk[x]
        BY <1>1, <1>2, <4>1
      <4>. QED  BY <4>2 DEF Pending
    <3>. QED  BY <3>2, <3>3, <3>4
  <2>. QED  BY <2>1, <2>2
<1>6. RunOnItsWay'
  BY <1>5 DEF RunOnItsWay
<1>. QED  BY <1>3, <1>6

LEMMA OthersFire ==
    ASSUME FiresInv, Release \/ Die \/ \E v \in Versions : Retest(v)
    PROVE  OwnJobs' /\ RunOnItsWay'
<1>1. CASE Release
  BY <1>1 DEF Release, FiresInv, OwnJobs, RunOnItsWay, Pending, Fired
<1>2. CASE Die
  <2>1. UNCHANGED <<arrivals, jobs, ran>> /\ failed' = [v \in Versions |-> failed[v] \/ Calling(v)]
    BY <1>2 DEF Die
  <2>2. OwnJobs'
    BY <2>1 DEF FiresInv, OwnJobs
  <2>3. ASSUME NEW v \in Versions, phase[v] = "verdict", ~failed'[v] PROVE Fired(v)'
    <3>1. ~failed[v] /\ ~Calling(v)
      BY <2>1, <2>3
    <3>2. ~Pending(v)
      BY <3>1 DEF Pending, Calling
    <3>3. Fired(v)
      BY <2>3, <3>1, <3>2 DEF FiresInv, RunOnItsWay
    <3>. QED  BY <2>1, <3>3 DEF Fired, arrivals
  <2>. QED  BY <2>1, <2>2, <2>3 DEF RunOnItsWay, arrivals
<1>3. ASSUME NEW v \in Versions, Retest(v) PROVE OwnJobs' /\ RunOnItsWay'
  <2>1. UNCHANGED <<cycle, jobs, ran, wk, failed>> /\ phase' = [phase EXCEPT ![v] = "open"]
        /\ phase \in [Versions -> {"open", "verdict"}]
    BY <1>3 DEF Retest, FiresInv, TypeInv, TypeOK
  <2>2. \A u \in Versions : phase'[u] = "verdict" => phase[u] = "verdict"
    BY <2>1
  <2>. QED  BY <2>1, <2>2 DEF FiresInv, OwnJobs, RunOnItsWay, Pending, Fired
<1>. QED  BY <1>1, <1>2, <1>3

LEMMA ClusterFires ==
    ASSUME FiresInv, Distinct, NEW n \in Names, RunEnds(n) \/ Expires(n) \/ Collected(n)
    PROVE  OwnJobs' /\ RunOnItsWay'
<1>1. /\ UNCHANGED <<arrivals, wk, failed>>
      /\ jobs \in [Names -> Job \cup {NoJob}] /\ ran \in [Versions -> 0..MaxVerdicts]
  BY DEF RunEnds, Expires, Collected, ClusterOnly, FiresInv, TypeInv, TypeOK
<1>2. PICK v \in Versions : n = JobName[v]
  BY DEF Names
<1>3. \A u \in Versions : u # v => JobName[u] # n /\ jobs'[JobName[u]] = jobs[JobName[u]]
  <2>1. \A u \in Versions : u # v => JobName[u] # n
    BY <1>2 DEF Distinct
  <2>. QED  BY <1>1, <2>1, JobTypes DEF RunEnds, Expires, Collected, FiresInv
<1>4. /\ jobs[n] \in Job /\ jobs[n].of = v /\ ran[v] <= jobs[n].cycle
      /\ (jobs[n].done => ran[v] = jobs[n].cycle)
  <2>1. jobs[n] # NoJob
    BY DEF RunEnds, Expires, Collected, NoJob
  <2>. QED  BY <1>1, <1>2, <2>1 DEF FiresInv, OwnJobs
<1>5. \A u \in Versions : u # v => ran'[u] = ran[u]
  <2>1. CASE RunEnds(n)
    <3>1. ran' = [ran EXCEPT ![v] = jobs[n].cycle]
      BY <1>4, <2>1 DEF RunEnds
    <3>. QED  BY <1>1, <3>1
  <2>. QED  BY <2>1 DEF Expires, Collected
<1>6. jobs[n].cycle <= cycle[v] /\ jobs[n].cycle \in Int /\ ran[v] \in Int /\ cycle[v] \in Int
  BY <1>1, <1>4, JobTypes DEF FiresInv, JobsMakeSense, Job, NoJob
<1>7. CASE RunEnds(n)
  <2>1. /\ jobs'[n].of = v /\ jobs'[n].cycle = jobs[n].cycle /\ ran'[v] = jobs[n].cycle
        /\ jobs'[n].del = jobs[n].del
    BY <1>1, <1>4, <1>7 DEF RunEnds, Job
  <2>2. OwnJobs'
    BY <1>2, <1>3, <1>5, <1>6, <2>1 DEF FiresInv, OwnJobs
  <2>3. Fired(v) => Fired(v)'
    BY <1>1, <1>2, <1>4, <1>6, <2>1 DEF Fired, arrivals
  <2>4. \A u \in Versions : Fired(u) => Fired(u)'
    BY <1>1, <1>3, <1>5, <2>3 DEF Fired, arrivals
  <2>. QED  BY <1>1, <2>2, <2>4 DEF FiresInv, RunOnItsWay, Pending, arrivals
<1>8. CASE Expires(n)
  <2>1. /\ jobs'[n].of = v /\ jobs'[n].cycle = jobs[n].cycle /\ ran' = ran
        /\ jobs'[n].done = jobs[n].done /\ ran[v] = jobs[n].cycle
    BY <1>1, <1>4, <1>8 DEF Expires, Job
  <2>2. OwnJobs'
    BY <1>2, <1>3, <1>4, <1>6, <2>1 DEF FiresInv, OwnJobs
  <2>3. Fired(v) => Fired(v)'
    BY <1>1, <1>2, <2>1 DEF Fired, arrivals
  <2>4. \A u \in Versions : Fired(u) => Fired(u)'
    BY <1>1, <1>3, <2>1, <2>3 DEF Fired, arrivals
  <2>. QED  BY <1>1, <2>2, <2>4 DEF FiresInv, RunOnItsWay, Pending, arrivals
<1>9. CASE Collected(n)
  <2>1. jobs'[n] = NoJob /\ ran' = ran /\ jobs[n].del
    BY <1>1, <1>9 DEF Collected
  <2>2. OwnJobs'
    BY <1>2, <1>3, <2>1 DEF FiresInv, OwnJobs
  <2>3. Fired(v) => Fired(v)'
    BY <1>1, <1>2, <2>1 DEF Fired, arrivals
  <2>4. \A u \in Versions : Fired(u) => Fired(u)'
    BY <1>1, <1>3, <2>1, <2>3 DEF Fired, arrivals
  <2>. QED  BY <1>1, <2>2, <2>4 DEF FiresInv, RunOnItsWay, Pending, arrivals
<1>. QED  BY <1>7, <1>8, <1>9

LEMMA NextFires == ASSUME FiresInv, Distinct, [Next]_vars PROVE FiresInv'
<1>1. TypeInv' /\ JobsMakeSense'
  BY NextType DEF FiresInv
<1>2. OwnJobs' /\ RunOnItsWay'
  <2>1. CASE UNCHANGED vars
    BY <2>1 DEF vars, FiresInv, OwnJobs, RunOnItsWay, Pending, Fired
  <2>. QED  BY <2>1, CallFires, VerdictFires, OthersFire, ClusterFires DEF Next
<1>. QED  BY <1>1, <1>2 DEF FiresInv

\* Where Job names are distinct, a cycle whose calls went well has had its run or
\* has its Job, however many goroutines delete and create that Job.
THEOREM EveryCycleFires == ASSUME Distinct PROVE Spec => []ForensicsFires
<1>1. Init => FiresInv
  <2>1. Init => OwnJobs /\ RunOnItsWay
    BY JobTypes, InitType DEF Init, OwnJobs, RunOnItsWay
  <2>. QED  BY <2>1, InitType DEF Init, FiresInv, JobsMakeSense
<1>2. FiresInv => ForensicsFires
  <2>1. ASSUME NEW v \in Versions, ~Calling(v) PROVE ~Pending(v)
    BY <2>1 DEF Pending, Calling
  <2>. QED  BY <2>1 DEF FiresInv, RunOnItsWay, Fired, ForensicsFires
<1>. QED  BY <1>1, <1>2, NextFires, PTL DEF Spec
=============================================================================
