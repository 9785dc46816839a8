------------------------------- MODULE Runner -------------------------------
(***************************************************************************)
(* The life of one test Job: what buildJob made of the configuration, and   *)
(* the bash script that runs in its container (runnerScript in              *)
(* internal/dispatch/dispatch.go).  The script clones the service at the    *)
(* most specific ref, waits for the staging URL, runs the pack, uploads its *)
(* results, and translates them into the exit code that becomes the Job's   *)
(* status and so the Arrival's verdict.  The pack, the cluster and the      *)
(* storage bucket around it do what they like; the Job may be killed at any *)
(* moment.  A retest runs a new Job over the same bucket prefix.            *)
(***************************************************************************)
EXTENDS JobSpec

CONSTANTS
    Config,     \* the chart's: env, refs (templates), resources
    ArgsSet,    \* what an Arrival may bring: arrival, env, resources
    Tests,      \* its packs: name, type, env, resources
    Repos,      \* sets of refs a service's repository may have
    Sizes,      \* the memory a pack may need
    MaxRuns     \* bound of a model: Jobs for the same pack and version

\* The chart always gives a threshold, and a threshold is a number; no ref has
\* an empty name.
ASSUME RunnerAssumption ==
    /\ Config.env \in Seq(EnvVars)
    /\ Sets(Config.env, "HEALTH_SUCCESS_THRESHOLD") # {}
    /\ \A v \in EnvVars : v.name = "HEALTH_SUCCESS_THRESHOLD" => v.value \in Nat
    /\ Config.refs \in Seq(DOMAIN Rendered)
    /\ \A r \in Repos : Blank \notin r
    /\ \A a \in ArgsSet : a.arrival \in ArrivalNames /\ a.env \in Seq(EnvVars)
    /\ \A t \in Tests : t.name \in PackNames /\ t.env \in Seq(EnvVars)
    /\ Sizes \subseteq Nat
    /\ MaxRuns \in Nat \ {0}

VARIABLES
    args, test, \* what the Job is built of,
    job,        \* the Job,
    repo,       \* the refs there are,
    image,      \* whether the image has jq, whether the pack's entry point is
                \* there, and how much memory the pack needs
    pc,         \* the script's next command,
    todo,       \* the refs it has not tried,
    ref,        \* the one it has cloned,
    health,     \* HEALTH, its count of good probes in a row
    testExit,   \* TEST_EXIT
    report,     \* results.json in the pack's directory
    bucket,     \* what is under the result prefix, and which run it is of
    run,        \* the number of the Job
    exit,       \* how the container ended: "" while it runs
    streak,     \* history: how often in a row the staging URL has answered
    suite,      \* history: what the pack's tests really said
    faults      \* history: what went wrong outside the tests

chosen == <<args, test, job, repo, image>>
vars == <<args, test, job, repo, image, pc, todo, ref, health, testExit, report,
          bucket, run, exit, streak, suite, faults>>

-----------------------------------------------------------------------------
Type      == Getenv(job.env, "TEST_PACK_TYPE")
Threshold == Getenv(job.env, "HEALTH_SUCCESS_THRESHOLD")

\* results.json: success true; success false; true, with a part that failed;
\* a file that is no JSON; no file.
Reports == {"success", "failure", "mixed", "garbled", "none"}

Init ==
    /\ args \in ArgsSet
    /\ test \in Tests
    /\ job = BuildJob(Config, args, test)
    /\ repo \in Repos
    /\ image \in [jq : BOOLEAN, complete : BOOLEAN, size : Sizes]
    /\ pc = "clone"
    /\ todo = job.refs
    /\ ref = Blank
    /\ health = 0
    /\ testExit = 0
    /\ report = "none"
    /\ bucket = [results |-> "none", of |-> 0, log |-> 0]
    /\ run = 1
    /\ exit = ""
    /\ streak = 0
    /\ suite = "not run"
    /\ faults = {}

\* set -e, or exit: the script ends at once, whatever is left to upload.
End(code) == pc' = "ended" /\ exit' = code

Continue(next) == pc' = next /\ UNCHANGED exit

Fault(what) == faults' = faults \cup {what}

-----------------------------------------------------------------------------
(* The script, in its order.                                                 *)

\* git clone --branch, one ref after the other.  A clone that fails for
\* another reason looks like a ref that is not there.
CloneRef ==
    /\ pc = "clone" /\ todo # <<>>
    /\ todo' = Tail(todo)
    /\ \/ /\ Head(todo) \in repo
          /\ ref' = Head(todo) /\ Continue("probe") /\ UNCHANGED faults
       \/ /\ Head(todo) \notin repo
          /\ Continue("clone") /\ UNCHANGED <<ref, faults>>
       \/ /\ Head(todo) \in repo
          /\ Fault("clone") /\ Continue("clone") /\ UNCHANGED ref
    /\ UNCHANGED <<chosen, health, testExit, report, bucket, run, streak, suite>>

NoRefCloned ==
    /\ pc = "clone" /\ todo = <<>>
    /\ End("1")
    /\ UNCHANGED <<chosen, todo, ref, health, testExit, report, bucket, run,
                   streak, suite, faults>>

\* Mutant: HEALTH counts all good probes.
ProbeTotal ==
    /\ pc = "probe"
    /\ \/ /\ streak' = streak + 1 /\ health' = health + 1
          /\ Continue(IF health' >= Threshold THEN "enter" ELSE "probe")
       \/ /\ streak' = 0 /\ UNCHANGED health
          /\ Continue("probe")
    /\ UNCHANGED <<chosen, todo, ref, testExit, report, bucket, run, suite, faults>>

\* Mutant: the loop goes on until the time is up.
ProbeOn ==
    /\ pc = "probe"
    /\ \/ streak' = streak + 1 /\ health' = health + 1
       \/ streak' = 0 /\ health' = 0
    /\ Continue("probe")
    /\ UNCHANGED <<chosen, todo, ref, testExit, report, bucket, run, suite, faults>>

\* curl: one more good probe in a row, enough of them, or none.
Probe ==
    /\ pc = "probe"
    /\ \/ /\ streak' = streak + 1 /\ health' = health + 1
          /\ Continue(IF health' >= Threshold THEN "enter" ELSE "probe")
       \/ /\ streak' = 0 /\ health' = 0
          /\ Continue("probe")
    /\ UNCHANGED <<chosen, todo, ref, testExit, report, bucket, run, suite, faults>>

\* HEALTH_TIMEOUT_SECONDS are over before a probe.
TimeUp ==
    /\ pc = "probe"
    /\ IF health >= Threshold THEN Continue("enter") ELSE End("1")
    /\ UNCHANGED <<chosen, todo, ref, health, testExit, report, bucket, run,
                   streak, suite, faults>>

\* cd into the pack, look at its type and entry point.
Enter ==
    /\ pc = "enter"
    /\ \/ /\ Type \in {"end2end", "end2end-ui"} /\ image.complete
          /\ Continue(IF Type = "end2end" THEN "suite" ELSE "install")
       \/ Type \notin {"end2end", "end2end-ui"} /\ End("1")
       \/ ~image.complete /\ End("1")
    /\ UNCHANGED <<chosen, todo, ref, health, testExit, report, bucket, run,
                   streak, suite, faults>>

\* npm ci || npm install
Install ==
    /\ pc = "install"
    /\ \/ Continue("suite") /\ UNCHANGED faults
       \/ Fault("npm") /\ End("1")
    /\ UNCHANGED <<chosen, todo, ref, health, testExit, report, bucket, run,
                   streak, suite>>

\* External: how packs report.  Playwright's exit code is its verdict.  run.sh
\* may exit with 0 whatever the tests said and leave it to results.json, or
\* break off with neither; a results.json it completes is true.
Reported(said, code, file) ==
    IF Type = "end2end-ui"
    THEN /\ code = (IF said = "ok" THEN 0 ELSE 1)
         /\ file \in {"none", IF said = "ok" THEN "success" ELSE "failure"}
    ELSE /\ file \in {"success", "mixed"} => said = "ok"
         /\ file = "failure" \/ code # 0 => said = "bad"

Suite ==
    /\ pc = "suite"
    /\ \E said \in {"ok", "bad"}, code \in {0, 1}, file \in Reports :
          /\ Reported(said, code, file)
          /\ suite' = said /\ testExit' = code /\ report' = file
    /\ Continue("upload")
    /\ UNCHANGED <<chosen, todo, ref, health, bucket, run, streak, faults>>

\* Mutant: an upload that fails ends the script.
UploadOrDie ==
    /\ pc = "upload"
    /\ \/ /\ bucket' = IF report = "none" THEN bucket
                        ELSE [bucket EXCEPT !.results = report, !.of = run]
          /\ Continue("translate") /\ UNCHANGED faults
       \/ Fault("upload") /\ End("1") /\ UNCHANGED bucket
    /\ UNCHANGED <<chosen, todo, ref, health, testExit, report, run, streak, suite>>

\* gcloud auth, gsutil cp results.json and the artifacts: best effort.
UploadResults ==
    /\ pc = "upload"
    /\ \/ /\ bucket' = IF report = "none" THEN bucket
                        ELSE [bucket EXCEPT !.results = report, !.of = run]
          /\ UNCHANGED faults
       \/ Fault("upload") /\ UNCHANGED bucket
    /\ Continue("translate")
    /\ UNCHANGED <<chosen, todo, ref, health, testExit, report, run, streak, suite>>

\* Whether .success is false: as jq reads it, or without jq, as grep finds it
\* anywhere in the file.
ReadsFailure ==
    IF report = "failure" \/ (report = "mixed" /\ ~image.jq) THEN {TRUE}
    ELSE IF report = "garbled" /\ ~image.jq THEN BOOLEAN
    ELSE {FALSE}

\* Mutant: the script before the translation (canary 0.0.7).
NoTranslation ==
    /\ pc = "translate"
    /\ Continue("done")
    /\ UNCHANGED <<chosen, todo, ref, health, testExit, report, bucket, run,
                   streak, suite, faults>>

\* Mutant: the translation ends the script.
TranslateAndExit ==
    /\ pc = "translate"
    /\ \E failure \in ReadsFailure :
          IF Type = "end2end" /\ testExit = 0 /\ failure THEN End("1") ELSE Continue("done")
    /\ UNCHANGED <<chosen, todo, ref, health, testExit, report, bucket, run, streak,
                   suite, faults>>

\* The contract translation, for run.sh only.
Translate ==
    /\ pc = "translate"
    /\ \E failure \in ReadsFailure :
          testExit' = IF Type = "end2end" /\ testExit = 0 /\ failure THEN 1 ELSE testExit
    /\ Continue("done")
    /\ UNCHANGED <<chosen, todo, ref, health, report, bucket, run, streak, suite,
                   faults>>

\* log_json writes the log through tee, under pipefail: a full disk ends the
\* script here.
LogDone ==
    /\ pc = "done"
    /\ \/ Continue("log") /\ UNCHANGED faults
       \/ Fault("disk") /\ End("1")
    /\ UNCHANGED <<chosen, todo, ref, health, testExit, report, bucket, run,
                   streak, suite>>

\* Best effort, then exit $TEST_EXIT.
UploadLog ==
    /\ pc = "log"
    /\ \/ bucket' = [bucket EXCEPT !.log = run] /\ UNCHANGED faults
       \/ Fault("upload") /\ UNCHANGED bucket
    /\ End(IF testExit = 0 THEN "0" ELSE "1")
    /\ UNCHANGED <<chosen, todo, ref, health, testExit, report, run, streak, suite>>

Script ==
    \/ CloneRef \/ NoRefCloned \/ Probe \/ TimeUp \/ Enter \/ Install \/ Suite
    \/ UploadResults \/ Translate \/ LogDone \/ UploadLog

-----------------------------------------------------------------------------
(* Around the script.                                                        *)

\* activeDeadlineSeconds, an eviction.
Killed ==
    /\ pc # "ended"
    /\ End("killed")
    /\ UNCHANGED <<chosen, todo, ref, health, testExit, report, bucket, run,
                   streak, suite, faults>>

\* The tests outgrow the container's memory limit.
OutOfMemory ==
    /\ pc = "suite"
    /\ job.resources.limit # None /\ image.size > job.resources.limit
    /\ End("oom")
    /\ UNCHANGED <<chosen, todo, ref, health, testExit, report, bucket, run,
                   streak, suite, faults>>

\* A retest: the same Job again, in a fresh container.
Rerun ==
    /\ pc = "ended" /\ run < MaxRuns
    /\ run' = run + 1
    /\ pc' = "clone" /\ todo' = job.refs /\ ref' = Blank
    /\ health' = 0 /\ testExit' = 0 /\ report' = "none" /\ exit' = ""
    /\ streak' = 0 /\ suite' = "not run" /\ faults' = {}
    /\ UNCHANGED <<chosen, bucket>>

Next == Script \/ Killed \/ OutOfMemory \/ Rerun

Spec == Init /\ [][Next]_vars

TypeOK ==
    /\ args \in ArgsSet /\ test \in Tests /\ repo \in Repos
    /\ job = BuildJob(Config, args, test)
    /\ image \in [jq : BOOLEAN, complete : BOOLEAN, size : Sizes]
    /\ pc \in {"clone", "probe", "enter", "install", "suite", "upload",
               "translate", "done", "log", "ended"}
    /\ \E i \in 0..Len(job.refs) : todo = SubSeq(job.refs, i + 1, Len(job.refs))
    /\ ref = Blank \/ ref \in repo
    /\ {health, streak} \subseteq 0..Threshold \cup {1}
    /\ testExit \in {0, 1}
    /\ report \in Reports
    /\ bucket \in [results : Reports, of : 0..run, log : 0..run]
    /\ run \in 1..MaxRuns
    /\ exit \in {"", "0", "1", "killed", "oom"} /\ (exit = "" <=> pc # "ended")
    /\ suite \in {"not run", "ok", "bad"}
    /\ faults \subseteq {"clone", "npm", "upload", "disk"}

-----------------------------------------------------------------------------
(* Correctness.                                                              *)

\* "the Job's exit code MUST reflect actual test pass/fail": a Job that
\* succeeds has run tests that passed.  Only a run.sh that exits with 0 and
\* leaves no readable results.json is taken at its word.
PassedMeansPassed ==
    exit = "0" => \/ suite = "ok"
                  \/ suite = "bad" /\ Type = "end2end" /\ report \in {"none", "garbled"}

\* "a log-upload failure never masks the test verdict": tests that passed fail
\* the Job only for a full disk, or where grep stands in for jq and finds the
\* failure of a part.
UploadsNeverMask ==
    suite = "ok" /\ exit = "1" =>
        \/ "disk" \in faults
        \/ ~image.jq /\ report \in {"mixed", "garbled"}

\* A script that has run the tests and comes to its own end leaves the results
\* and the log of this run in the bucket, whatever the verdict.
EvidenceLands ==
    suite # "not run" /\ exit \in {"0", "1"} /\ faults \cap {"upload", "disk"} = {} =>
        /\ bucket.log = run
        /\ report # "none" => bucket.of = run /\ bucket.results = report

\* What the most specific layer says of an environment variable: pack over
\* service over chart.
Wanted(name) ==
    IF Sets(test.env, name) # {} THEN Getenv(test.env, name)
    ELSE IF Sets(args.env, name) # {} THEN Getenv(args.env, name)
    ELSE Getenv(Config.env, name)

\* The tests meet a service that has answered as often in a row as the pack, its
\* service or the chart asks, and still did at the last probe.
HealthyBeforeTests ==
    suite # "not run" => streak >= Wanted("HEALTH_SUCCESS_THRESHOLD")

\* "Try most-specific refspec first": the tests are those of the first ref of
\* the chart's list that the repository has, unless a clone failed.
MostSpecificRef ==
    ref # Blank /\ "clone" \notin faults =>
        \E i \in DOMAIN Config.refs :
            /\ ref = Rendered[Config.refs[i]]
            /\ \A j \in 1..(i - 1) : Rendered[Config.refs[j]] \notin repo

Fits(pack) == Len(Normal(pack)) <= MaxPack

\* A Job is its pack's own.  No other pack whose name differs after folding and
\* fits the pack's share of the name is dispatched to it, and a pack that brings
\* its own resources is killed for memory by its own limit only: no limit of the
\* service or the chart is mixed in.
OwnJob ==
    /\ Len(job.name) <= NameMax
    /\ \A t \in Tests :
          Normal(t.name) # Normal(test.name) /\ Fits(t.name) /\ Fits(test.name)
          => JobNameFor(args.arrival, t.name) # job.name
    /\ exit = "oom" /\ ~Empty(test.resources) =>
          test.resources.limit # None /\ image.size > test.resources.limit

-----------------------------------------------------------------------------
(* What the code says and does not keep.                                     *)

\* "Even on failure the log lands".
LogLands ==
    exit \in {"0", "1"} /\ faults \cap {"upload", "disk"} = {} => bucket.log = run

\* The results under the prefix, which leartech-gate reads, are this run's.
ResultsAreCurrent == exit # "" => bucket.of \in {0, run}
=============================================================================
