------------------------------- MODULE Sandbox -------------------------------
(***************************************************************************)
(* One evaluation from the registration of its package to the result the   *)
(* worker gets: register_task validates the package, a sandbox runner      *)
(* (brunost_judge/sandbox.py) runs the harness, in its own process or in a *)
(* container (grader/evaluate.py), and hands on what it makes of the       *)
(* result.                                                                 *)
(*                                                                         *)
(* The runner's timeout may strike at any step.                            *)
(***************************************************************************)
EXTENDS Harness

VARIABLES box,      \* the sandbox
          final,    \* the result the worker gets, or NULL
          spent     \* ghost: time of the processes of a classic evaluation

vars == <<harnessVars, box, final, spent>>

Box == [at : {"none", "open", "closed", "crashed"},
        alive : BOOLEAN,                       \* the harness, and what it started, can run
        file : {"none", "partial", "whole"},   \* results.json
        rc : {0, 1, NULL},                     \* exit status of docker run
        removed : BOOLEAN]                     \* _cleanup went through

InDocker == pkg.host.sandbox = "docker"
Failed == [status |-> "failed", score |-> 0]

\* The server takes only packages that validate.
Register ==
    /\ stage = "register"
    /\ Goto(IF Valid(pkg) THEN "queued" ELSE "rejected")
    /\ UNCHANGED <<pkg, test, rows, proc, faults, result, baseline, interactiveVars, ml, box, final, spent>>

\* The runner starts; a container may not (no docker, a bundle too large, no
\* image for the runtime).
OpenSandbox ==
    /\ stage = "queued" /\ box.at = "none"
    /\ \/ /\ Goto("load")
          /\ box' = [box EXCEPT !.at = "open", !.alive = TRUE]
          /\ UNCHANGED final
       \/ /\ InDocker
          /\ box' = [box EXCEPT !.at = "closed"]
          /\ final' = Failed
          /\ UNCHANGED stage
    /\ UNCHANGED <<pkg, test, rows, proc, faults, result, baseline, interactiveVars, ml, spent>>

\* The harness runs while its process lives; nobody reads what it does once the
\* runner has reported.
Runs(step) ==
    /\ box.at = "open" /\ box.alive /\ stage # "returned" /\ stage # "escaped"
    /\ step
    /\ spent' = IF IsClassic /\ proc # NULL /\ proc' = NULL THEN spent + proc.time ELSE spent
    /\ UNCHANGED <<box, final>>

\* What is left of the evaluation when its container is gone.
AllGone == proc' = NULL /\ session' = NULL /\ strays' = {}

-----------------------------------------------------------------------------
\* ProcessSandboxRunner: the harness in this process.
Close(outcome) ==
    /\ box' = [box EXCEPT !.at = "closed", !.alive = FALSE]
    /\ final' = outcome

\* validate_runner_result_payload, of the results graders return: only the
\* length of a reason can be wrong with them.
Presentable == ~ result.long

\* The result is validated, and its artifacts are collected; both may fail.
TakeResult ==
    /\ ~ InDocker /\ box.at = "open" /\ stage = "returned"
    /\ \/ Close(Failed)
       \/ Presentable /\ Close([status |-> result.status, score |-> result.score])
    /\ UNCHANGED <<harnessVars, spent>>

\* SIGALRM: the harness is unwound where it stands; the processes it had
\* started are not.
AlarmRings ==
    /\ ~ InDocker /\ pkg.host.timed /\ box.at = "open"
    /\ Close(Failed)
    /\ UNCHANGED <<harnessVars, spent>>

\* sys.exit of author code goes through the runner and ends the worker.
WorkerExits ==
    /\ ~ InDocker /\ box.at = "open" /\ stage = "escaped"
    /\ box' = [box EXCEPT !.at = "crashed", !.alive = FALSE]
    /\ UNCHANGED <<harnessVars, final, spent>>

-----------------------------------------------------------------------------
\* DockerSandboxRunner and the entry point in the container.
WriteResult ==
    /\ InDocker /\ box.at = "open" /\ box.alive /\ stage = "returned" /\ box.file = "none"
    /\ box' = [box EXCEPT !.file = "whole"]
    /\ UNCHANGED <<harnessVars, final, spent>>

ContainerExits ==
    /\ InDocker /\ box.at = "open" /\ box.alive
    /\ \E rc \in {0, 1} :
         /\ box.file = "whole" => rc = 0
         /\ stage = "escaped" \/ box.file = "whole"
         /\ box' = [box EXCEPT !.alive = FALSE, !.rc = rc]
    /\ AllGone
    /\ UNCHANGED <<pkg, stage, test, rows, faults, result, baseline, ml, final, spent>>

\* The container is killed: out of memory, a fault of the host.
ContainerDies ==
    /\ InDocker /\ box.at = "open" /\ box.alive
    /\ \E file \in IF stage = "returned" /\ box.file = "none" THEN {"none", "partial"} ELSE {box.file} :
         box' = [box EXCEPT !.alive = FALSE, !.rc = 1, !.file = file]
    /\ AllGone
    /\ UNCHANGED <<pkg, stage, test, rows, faults, result, baseline, ml, final, spent>>

\* Variant: the client goes and the container stays.
CleanupClient ==
    /\ box' = [box EXCEPT !.at = "closed", !.removed = TRUE]
    /\ UNCHANGED <<harnessVars, spent>>

\* _cleanup removes the container; where docker does not answer it goes on.
Cleanup ==
    \/ /\ box' = [box EXCEPT !.at = "closed", !.alive = FALSE, !.removed = TRUE]
       /\ AllGone
       /\ UNCHANGED <<pkg, stage, test, rows, faults, result, baseline, ml, spent>>
    \/ /\ box' = [box EXCEPT !.at = "closed"]
       /\ UNCHANGED <<harnessVars, spent>>

\* docker run has not returned in time.
RunTimesOut ==
    /\ InDocker /\ box.at = "open" /\ box.alive
    /\ Cleanup
    /\ final' = Failed

\* Variant: the exit status of docker run does not matter.
AnyExit == result.status

\* A completed result of a container that exited with an error is a failure.
ExitStatus == IF box.rc = 0 THEN result.status ELSE "failed"

\* Without a whole results.json the outcome is a failure.
CollectResult ==
    /\ InDocker /\ box.at = "open" /\ box.rc # NULL
    /\ \/ Close(Failed)
       \/ box.file = "whole" /\ Presentable /\ Close([status |-> ExitStatus, score |-> result.score])
    /\ UNCHANGED <<harnessVars, spent>>

-----------------------------------------------------------------------------
Init ==
    /\ pkg \in Packages
    /\ stage = "register" /\ test = 1 /\ rows = <<>> /\ proc = NULL
    /\ faults = {} /\ result = NULL
    /\ baseline = <<>> /\ session = NULL /\ strays = {} /\ ml = NULL
    /\ box = [at |-> "none", alive |-> FALSE, file |-> "none", rc |-> NULL, removed |-> FALSE]
    /\ final = NULL /\ spent = 0

Next ==
    \/ Register \/ OpenSandbox
    \/ Runs(JudgeStep) \/ Runs(PollStep) \/ Runs(ChildStep) \/ Runs(AuthorStep)
    \/ TakeResult \/ AlarmRings \/ WorkerExits
    \/ WriteResult \/ ContainerExits \/ ContainerDies \/ RunTimesOut \/ CollectResult

Spec == Init /\ [][Next]_vars

\* The evaluator and the runner take their steps; children, author code, the
\* timers and the death of a container are left to themselves.
RunnerStep == OpenSandbox \/ TakeResult \/ WorkerExits \/ WriteResult \/ ContainerExits \/ CollectResult

FairSpec ==
    /\ Spec
    /\ WF_vars(Register) /\ WF_vars(RunnerStep)
    /\ WF_vars(Runs(JudgeStep)) /\ WF_vars(Runs(PollStep))

-----------------------------------------------------------------------------
\* The state of an evaluation: never past the last test or question, never more
\* rows than tests, and no score out of range but where the author's own metrics
\* are the score.
Scores == IF IsScorer \/ IsModel THEN Int ELSE 0 .. Unit

GradingTypeOK ==
    /\ "kind" \in DOMAIN pkg
    /\ test \in Nat \ {0} /\ (~ IsQuiz => test <= Tests)
    /\ rows \in Seq(IF IsQuiz THEN QuizRow ELSE Row) /\ Len(rows) <= test
    /\ IsQuiz /\ rows # <<>> => test <= Len(pkg.questions)
    /\ proc \in Process \cup {NULL}
    /\ faults \subseteq {"author", "contestant", "host", "package"}
    /\ result \in Result \cup {NULL} /\ (result # NULL => result.score \in Scores)
    /\ baseline \in Seq(Objectives)
    /\ session \in Session \cup {NULL}
    /\ box \in Box
    /\ final \in [status : {"completed", "failed"}, score : Scores] \cup {NULL}

Completed == stage = "returned" /\ result.status = "completed"

\* Trouble the author's code makes - a reference, checker, baseline, evaluator
\* or scorer that fails in whatever way at whatever test - fails the
\* evaluation: no contestant gets a verdict for it.  Interactors are the
\* exception: what they return wrongly is a runtime error of the candidate.
AuthorFaultsFail ==
    Completed /\ ~ IsInteractive => "author" \notin faults

\* What the validator accepted, the runner can read with a parser of its own,
\* but for the values the validator does not look at, if the manifest is plain.
\* One with a key in capitals, a key on two lines, or a key without a value
\* may validate and fail to load: so the parsers are.
ValidatedPackagesLoad ==
    "package" \in faults /\ Plain(pkg) => UnreadByValidator(pkg)

\* The verdict, the score and the rows of a classic evaluation agree.
ClassicVerdictAgrees ==
    IsClassic /\ Completed /\ result.verdict # "CE" =>
        LET ok == {n \in 1 .. Tests : n <= Len(rows) /\ rows[n].verdict = "OK"} IN
        /\ result.verdict = "AC" <=> ok = 1 .. Tests
        /\ result.score = Unit <=> ok = 1 .. Tests
        /\ result.score = 0 <=> (ok = {} \/ (pkg.scoring = "all_or_nothing" /\ ok # 1 .. Tests))

\* A solution scored against the baseline gets the full score where it is at
\* least as good as the baseline on every instance, and, under every
\* aggregation, only where it is feasible on all of them and on none worse by
\* more than the rounding of all of them together; and no solution gets more
\* than its best instance, rounded.
AsGood(n) ==
    /\ rows[n].verdict = "OK"
    /\ IF pkg.direction = "maximize" THEN rows[n].objective >= baseline[n]
                                     ELSE rows[n].objective <= baseline[n]

NearlyAsGood(n) ==
    LET nearly == 2 * Unit - Tests * Grain IN
    /\ rows[n].verdict = "OK"
    /\ IF pkg.direction = "maximize" THEN rows[n].objective * 2 * Unit >= baseline[n] * nearly
                                     ELSE baseline[n] * 2 * Unit >= rows[n].objective * nearly

RatioAgainstBaseline ==
    IsOptimization /\ Completed /\ result.verdict # "CE" =>
        /\ pkg.scoring = "baseline_ratio" =>
             /\ (\A n \in 1 .. Tests : n <= Len(rows) /\ AsGood(n)) => result.score = Unit
             /\ result.score = Unit => \A n \in 1 .. Tests : n <= Len(rows) /\ NearlyAsGood(n)
        /\ \E n \in DOMAIN rows : result.score <= Rounded(rows[n].score)

\* The processes of a classic evaluation, each up to one poll past its limit,
\* together stay within the time the registration gave it, when the set-up
\* budget pays for those polls and the manifest is plain.
ClassicFitsBudget ==
    IsClassic /\ "timeout" \in DOMAIN pkg /\ pkg.plain =>
        spent + (IF proc # NULL THEN proc.time ELSE 0) <= pkg.timeout

\* A completed result is the grader's own, whole and of a length a result may
\* have, from a container that exited with status 0.
FinalIsTheGraders ==
    final # NULL /\ final.status = "completed" =>
        /\ Completed /\ result.score = final.score /\ ~ result.long
        /\ InDocker => box.file = "whole" /\ box.rc = 0

\* Once the container's runner has reported, nothing of the evaluation runs
\* any more, strays of interactive tests included, unless it timed out and
\* the cleanup failed, and then what the container still does changes nothing.
DockerLeavesNothing ==
    InDocker /\ box.at = "closed" /\ (box.alive \/ strays # {} \/ proc # NULL) =>
        ~ box.removed /\ final = Failed

\* Without the help of any outer timer, the limits inside the graders end every
\* evaluation that runs no author code in the evaluator's own process, whatever
\* submissions, interactors and evaluators do.
Bounded == pkg.kind \in {"interactive", "optimization", "quiz", "model"}
               \/ (IsClassic /\ "files" \in DOMAIN pkg /\ pkg.checker = "absent")

EvaluationEnds == stage = "queued" /\ Bounded ~> box.at = "closed"
=============================================================================
