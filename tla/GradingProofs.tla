---------------------------- MODULE GradingProofs ----------------------------
(***************************************************************************)
(* What holds of every evaluation, for any packages, limits and numbers of *)
(* tests: who is blamed for a fault, what reaches the worker, what a       *)
(* container leaves behind, and what a verdict of _run_process means.      *)
(***************************************************************************)
EXTENDS Sandbox, FiniteSetTheorems, TLAPS

HarnessStep == JudgeStep \/ PollStep \/ ChildStep \/ AuthorStep

\* A step of the specification is a step of the harness or one of the runner.
RunnerNext ==
    \/ Register \/ OpenSandbox \/ TakeResult \/ AlarmRings \/ WorkerExits
    \/ WriteResult \/ ContainerExits \/ ContainerDies \/ RunTimesOut \/ CollectResult

\* Next, seen from the two processes.
LEMMA TwoKindsOfSteps ==
    ASSUME Next PROVE Runs(HarnessStep) \/ RunnerNext
  BY DEF Next, Runs, HarnessStep, RunnerNext

-----------------------------------------------------------------------------
\* No grader changes the kind of its package or the host it runs on.
SamePackage == pkg'.kind = pkg.kind /\ pkg'.host = pkg.host

\* Steps of the classic grader.
LEMMA ClassicKeepsPackage ==
    ASSUME ClassicNext \/ LoadFails PROVE SamePackage
  <1>1. CASE LoadFails \/ LoadPackage
    BY <1>1 DEF LoadFails, LoadPackage, ClassicConfig, Fail, Escape, SamePackage
  <1>2. CASE CompileReference \/ CompileSubmission
    BY <1>2 DEF CompileReference, CompileSubmission, BeginCompile, Fail, SamePackage
  <1>3. CASE ReferenceCompiled \/ SubmissionCompiled
    BY <1>3 DEF ReferenceCompiled, SubmissionCompiled, EndCompile, Fail, SamePackage
  <1>4. CASE RunReference \/ RunTest \/ SetupRaises \/ ScoreTests
    BY <1>4 DEF RunReference, RunTest, SetupRaises, ScoreTests, Fail, SamePackage
  <1>5. CASE ReferenceEnds
    BY <1>5 DEF ReferenceEnds, Fail, SamePackage
  <1>6. CASE TestEnds \/ CompareTokens
    BY <1>6 DEF TestEnds, CompareTokens, JudgeOutput, RecordRow, SamePackage
  <1> QED BY <1>1, <1>2, <1>3, <1>4, <1>5, <1>6 DEF ClassicNext

\* Steps of the optimization grader.
LEMMA OptimizationKeepsPackage ==
    ASSUME OptimizationNext PROVE SamePackage
  <1>1. CASE LoadOptimization
    <2>1. OptimizationConfig(pkg).kind = pkg.kind /\ OptimizationConfig(pkg).host = pkg.host
      BY DEF OptimizationConfig
    <2> QED BY <1>1, <2>1 DEF LoadOptimization, Fail, SamePackage
  <1>2. CASE CompileCandidate \/ CompileBaseline
    BY <1>2 DEF CompileCandidate, CompileBaseline, BeginCompile, Fail, SamePackage
  <1>3. CASE CandidateCompiled \/ BaselineCompiled
    BY <1>3 DEF CandidateCompiled, BaselineCompiled, EndCompile, Fail, SamePackage
  <1>4. CASE RunSolution \/ ScoreInstances
    BY <1>4 DEF RunSolution, ScoreInstances, Fail, SamePackage
  <1>5. CASE BaselineEnds
    BY <1>5 DEF BaselineEnds, Fail, SamePackage
  <1>6. CASE SolutionEnds
    BY <1>6 DEF SolutionEnds, RecordRow, SamePackage
  <1>7. ASSUME NEW e \in Evaluations, EvaluateBaseline(e) PROVE SamePackage
    BY <1>7 DEF EvaluateBaseline, Fail, SamePackage
  <1>8. ASSUME NEW e \in Evaluations, EvaluateOutput(e) PROVE SamePackage
    BY <1>8 DEF EvaluateOutput, RecordRow, Fail, SamePackage
  <1> QED BY <1>1, <1>2, <1>3, <1>4, <1>5, <1>6, <1>7, <1>8 DEF OptimizationNext

\* Steps of an interactive evaluation, of its worker and of the programs that
\* talk to each other.
LEMMA InteractiveKeepsPackage ==
    ASSUME \/ InteractiveNext \/ WorkerNext \/ InteractorNext \/ CandidateNext
           \/ \E t \in strays : StrayEnds(t)
    PROVE  SamePackage
  <1>1. CASE InteractiveNext
    BY <1>1 DEF InteractiveNext, LoadInteractive, InteractiveConfig, StartWorker, WorkerEnds,
                ScoreInteraction, RecordRow, Fail, SamePackage
  <1>2. CASE WorkerNext
    BY <1>2 DEF WorkerNext, SetUpSession, CompilerEnds, StartCandidate, Send, Receive, CloseSession,
                PrintReply, WorkerStep, graderVars, SamePackage
  <1>3. CASE InteractorNext
    BY <1>3 DEF InteractorNext, InteractorTalks, InteractorReturns, InteractorMisbehaves,
                InteractorRaises, InteractorExits, WorkerDies, WorkerComplains, WorkerStep,
                graderVars, SamePackage
  <1>4. CASE CandidateNext \/ \E t \in strays : StrayEnds(t)
    BY <1>4 DEF CandidateNext, CandidateReads, CandidateWrites, CandidateLeaves, CandidateStep,
                WorkerStep, StrayEnds, graderVars, SamePackage
  <1> QED BY <1>1, <1>2, <1>3, <1>4

\* Steps of the quiz and model graders and of the harness.
LEMMA HarnessKeepsPackage ==
    ASSUME HarnessStep PROVE SamePackage
  <1>1. CASE QuizNext
    <2>1. CASE LoadQuiz \/ ScoreQuiz
      BY <2>1 DEF LoadQuiz, QuizConfig, ScoreQuiz, InvalidSubmission, SamePackage
    <2>2. ASSUME NEW a, AnswerQuestion(a) PROVE SamePackage
      BY <2>2 DEF AnswerQuestion, InvalidSubmission, SamePackage
    <2> QED BY <1>1, <2>1, <2>2 DEF QuizNext
  <1>2. CASE ModelNext
    BY <1>2 DEF ModelNext, LoadModel, ModelConfig, StagePhase, PhaseFails, PhaseEnds, Fail,
                graderVars, SamePackage
  <1>3. CASE Poll \/ ChildWrites \/ ChildComplains \/ \E rc \in {0, 1} : ChildExits(rc)
    BY <1>3 DEF Poll, ChildWrites, ChildComplains, ChildExits, SamePackage
  <1>4. CASE RunScorer \/ RunChecker
    BY <1>4 DEF RunScorer, RunChecker, JudgeOutput, RecordRow, Fail, Escape, SamePackage
  <1> QED
    BY <1>1, <1>2, <1>3, <1>4, ClassicKeepsPackage, OptimizationKeepsPackage, InteractiveKeepsPackage
    DEF HarnessStep, JudgeStep, PollStep, ChildStep, AuthorStep
-----------------------------------------------------------------------------
\* A fault of the author's code ends the evaluation in the step that meets it,
\* without a verdict.
Blame ==
    "author" \in faults' =>
        \/ "author" \in faults
        \/ stage' = "escaped"
        \/ stage' = "returned" /\ result'.status = "failed"

\* What Fail does.
LEMMA FailBlames ==
    ASSUME NEW who, Fail(who) PROVE Blame /\ stage' = "returned" /\ result'.status = "failed"
  BY DEF Fail, Return, Blame

\* The classic grader and the author's code in the evaluator.
LEMMA ClassicBlames ==
    ASSUME ClassicNext \/ LoadFails \/ RunScorer \/ RunChecker PROVE Blame
  <1>1. CASE LoadFails \/ LoadPackage
    BY <1>1, FailBlames DEF LoadFails, LoadPackage, Escape, Goto, Blame
  <1>2. CASE CompileReference \/ CompileSubmission
    BY <1>2, FailBlames DEF CompileReference, CompileSubmission, BeginCompile, Blame
  <1>3. CASE ReferenceCompiled \/ SubmissionCompiled
    BY <1>3, FailBlames DEF ReferenceCompiled, SubmissionCompiled, EndCompile, Blame
  <1>4. CASE RunReference \/ RunTest \/ SetupRaises \/ ScoreTests
    BY <1>4, FailBlames DEF RunReference, RunTest, SetupRaises, ScoreTests, Blame
  <1>5. CASE ReferenceEnds
    BY <1>5, FailBlames DEF ReferenceEnds, Blame
  <1>6. CASE TestEnds \/ CompareTokens
    BY <1>6 DEF TestEnds, CompareTokens, JudgeOutput, Blame
  <1>7. CASE RunScorer \/ RunChecker
    BY <1>7, FailBlames DEF RunScorer, RunChecker, JudgeOutput, Escape, Goto, Blame
  <1> QED BY <1>1, <1>2, <1>3, <1>4, <1>5, <1>6, <1>7 DEF ClassicNext

\* The optimization grader.
LEMMA OptimizationBlames ==
    ASSUME OptimizationNext PROVE Blame
  <1>1. CASE LoadOptimization
    BY <1>1, FailBlames DEF LoadOptimization, Blame
  <1>2. CASE CompileCandidate \/ CompileBaseline
    BY <1>2, FailBlames DEF CompileCandidate, CompileBaseline, BeginCompile, Blame
  <1>3. CASE CandidateCompiled \/ BaselineCompiled
    BY <1>3, FailBlames DEF CandidateCompiled, BaselineCompiled, EndCompile, Blame
  <1>4. CASE RunSolution \/ ScoreInstances
    BY <1>4, FailBlames DEF RunSolution, ScoreInstances, Blame
  <1>5. CASE BaselineEnds
    BY <1>5, FailBlames DEF BaselineEnds, Blame
  <1>6. CASE SolutionEnds
    BY <1>6 DEF SolutionEnds, Blame
  <1>7. ASSUME NEW e \in Evaluations, EvaluateBaseline(e) PROVE Blame
    BY <1>7, FailBlames DEF EvaluateBaseline, Blame
  <1>8. ASSUME NEW e \in Evaluations, EvaluateOutput(e) PROVE Blame
    BY <1>8, FailBlames DEF EvaluateOutput, Blame
  <1> QED BY <1>1, <1>2, <1>3, <1>4, <1>5, <1>6, <1>7, <1>8 DEF OptimizationNext

\* The interactive grader and its programs move only in interactive packages,
\* but for a stray that ends.
LEMMA OthersDoNotInteract ==
    ASSUME \/ InteractiveNext \/ WorkerNext \/ InteractorNext \/ CandidateNext
           \/ \E t \in strays : StrayEnds(t)
    PROVE  IsInteractive \/ UNCHANGED faults
  BY DEF InteractiveNext, LoadInteractive, StartWorker, WorkerEnds, ScoreInteraction, WorkerNext,
         SetUpSession, CompilerEnds, Send, Receive, CloseSession, PrintReply, InteractorNext,
         InteractorTalks, InteractorReturns, InteractorMisbehaves, InteractorRaises, InteractorExits,
         WorkerDies, WorkerComplains, CandidateNext, CandidateReads, CandidateWrites, CandidateLeaves,
         CandidateStep, WorkerAt, StrayEnds, graderVars

\* Every step of the harness.
LEMMA HarnessBlames ==
    ASSUME HarnessStep PROVE IsInteractive \/ Blame
  <1>1. CASE QuizNext
    <2>1. CASE LoadQuiz \/ ScoreQuiz
      BY <2>1 DEF LoadQuiz, ScoreQuiz, InvalidSubmission, Blame
    <2>2. ASSUME NEW a, AnswerQuestion(a) PROVE Blame
      BY <2>2 DEF AnswerQuestion, InvalidSubmission, Blame
    <2> QED BY <1>1, <2>1, <2>2 DEF QuizNext
  <1>2. CASE ModelNext
    BY <1>2, FailBlames DEF ModelNext, LoadModel, StagePhase, PhaseFails, PhaseEnds, graderVars, Blame
  <1>3. CASE Poll \/ ChildWrites \/ ChildComplains \/ \E rc \in {0, 1} : ChildExits(rc)
    BY <1>3 DEF Poll, ChildWrites, ChildComplains, ChildExits, Blame
  <1> QED
    BY <1>1, <1>2, <1>3, ClassicBlames, OptimizationBlames, OthersDoNotInteract
    DEF HarnessStep, JudgeStep, PollStep, ChildStep, AuthorStep, Blame

\* Inductive: a blamed author's evaluation has ended, escaped or failed.
BlameInv ==
    ~ IsInteractive /\ "author" \in faults =>
        stage = "escaped" \/ (stage = "returned" /\ result.status = "failed")

\* A step of the runner leaves the graders' verdict alone.
LEMMA RunnerKeepsVerdict ==
    ASSUME RunnerNext
    PROVE  /\ UNCHANGED <<pkg, faults, result>>
           /\ stage \in {"escaped", "returned"} => UNCHANGED stage
  BY DEF RunnerNext, Register, OpenSandbox, TakeResult, AlarmRings, WorkerExits, WriteResult,
         ContainerExits, ContainerDies, RunTimesOut, Cleanup, CollectResult, Goto, harnessVars, graderVars

\* In every evaluation that is not interactive, whatever its package, limits
\* and number of tests: if the author's reference, checker, baseline, evaluator
\* or scorer fails at any point, no completed result comes out of the graders.
THEOREM AuthorsAnswerForTheirCode == Spec => []AuthorFaultsFail
  <1>1. Init => BlameInv
    BY DEF Init, BlameInv
  <1>2. BlameInv /\ [Next]_vars => BlameInv'
    <2> SUFFICES ASSUME BlameInv, [Next]_vars PROVE BlameInv'
      OBVIOUS
    <2>1. CASE Runs(HarnessStep)
      BY <2>1, HarnessBlames, HarnessKeepsPackage DEF Runs, Blame, BlameInv, IsInteractive, SamePackage
    <2>2. CASE RunnerNext
      BY <2>2, RunnerKeepsVerdict DEF BlameInv, IsInteractive
    <2>3. CASE UNCHANGED vars
      BY <2>3 DEF vars, harnessVars, graderVars, BlameInv, IsInteractive
    <2> QED BY <2>1, <2>2, <2>3, TwoKindsOfSteps
  <1>3. BlameInv => AuthorFaultsFail
    BY DEF BlameInv, AuthorFaultsFail, Completed
  <1> QED BY <1>1, <1>2, <1>3, PTL DEF Spec
-----------------------------------------------------------------------------
\* The sandbox.  Inductive: while the box is open the worker has no result yet,
\* so that the one it gets is decided in the step that closes the box; and a
\* box that is not started, has exited or was removed holds no processes.
BoxInv ==
    /\ box \in Box
    /\ box.at \in {"none", "open"} => final = NULL
    /\ box.file = "whole" => stage = "returned"
    /\ box.at = "none" => box.rc = NULL /\ ~ box.removed
    /\ box.at = "none" \/ box.rc # NULL \/ box.removed => ~ box.alive /\ proc = NULL /\ strays = {}

SandboxInv == BoxInv /\ FinalIsTheGraders /\ DockerLeavesNothing

\* The first state: nothing runs and nothing is reported.
LEMMA SandboxInit ==
    ASSUME Init PROVE SandboxInv
  BY DEF Init, SandboxInv, BoxInv, Box, FinalIsTheGraders, DockerLeavesNothing

\* A step of the graders happens in an open box with live processes and leaves
\* the box alone.
LEMMA HarnessInBox ==
    ASSUME SandboxInv, Runs(HarnessStep) PROVE SandboxInv'
  <1>1. box' = box /\ final' = final /\ box.at = "open" /\ box.alive /\ final = NULL
    BY DEF Runs, SandboxInv, BoxInv
  <1>2. stage # "returned"
    BY DEF Runs
  <1> QED
    BY <1>1, <1>2 DEF SandboxInv, BoxInv, FinalIsTheGraders, DockerLeavesNothing

\* A step of the runner: it opens the box, closes it with a result, or sees the
\* container end.
LEMMA RunnerInBox ==
    ASSUME SandboxInv, RunnerNext PROVE SandboxInv'
  <1>1. CASE Register
    <2>1. BoxInv'
      BY <1>1 DEF Register, Goto, interactiveVars, SandboxInv, BoxInv, Box
    <2>2. FinalIsTheGraders'
      BY <1>1 DEF Register, Goto, interactiveVars, SandboxInv, BoxInv, Box, FinalIsTheGraders, Completed, InDocker
    <2>3. DockerLeavesNothing'
      BY <1>1 DEF Register, Goto, interactiveVars, SandboxInv, BoxInv, Box, DockerLeavesNothing, InDocker
    <2> QED BY <2>1, <2>2, <2>3 DEF SandboxInv
  <1>2. CASE OpenSandbox
    <2>1. BoxInv'
      BY <1>2 DEF OpenSandbox, Goto, Failed, interactiveVars, SandboxInv, BoxInv, Box
    <2>2. FinalIsTheGraders'
      BY <1>2 DEF OpenSandbox, Goto, Failed, interactiveVars, SandboxInv, BoxInv, Box, FinalIsTheGraders, Completed, InDocker
    <2>3. DockerLeavesNothing'
      BY <1>2 DEF OpenSandbox, Goto, Failed, interactiveVars, SandboxInv, BoxInv, Box, DockerLeavesNothing, InDocker
    <2> QED BY <2>1, <2>2, <2>3 DEF SandboxInv
  <1>3. CASE TakeResult
    <2>1. BoxInv'
      BY <1>3 DEF TakeResult, Close, Failed, Presentable, harnessVars, graderVars, interactiveVars, SandboxInv, BoxInv, Box
    <2>2. FinalIsTheGraders'
      BY <1>3 DEF TakeResult, Close, Failed, Presentable, harnessVars, graderVars, interactiveVars, SandboxInv, BoxInv, Box, FinalIsTheGraders, Completed, InDocker
    <2>3. DockerLeavesNothing'
      BY <1>3 DEF TakeResult, Close, Failed, Presentable, harnessVars, graderVars, interactiveVars, SandboxInv, BoxInv, Box, DockerLeavesNothing, InDocker
    <2> QED BY <2>1, <2>2, <2>3 DEF SandboxInv
  <1>4. CASE AlarmRings \/ WorkerExits
    <2>1. BoxInv'
      BY <1>4 DEF AlarmRings, WorkerExits, Close, Failed, harnessVars, graderVars, interactiveVars, SandboxInv, BoxInv, Box
    <2>2. FinalIsTheGraders'
      BY <1>4 DEF AlarmRings, WorkerExits, Close, Failed, harnessVars, graderVars, interactiveVars, SandboxInv, BoxInv, Box, FinalIsTheGraders, Completed, InDocker
    <2>3. DockerLeavesNothing'
      BY <1>4 DEF AlarmRings, WorkerExits, Close, Failed, harnessVars, graderVars, interactiveVars, SandboxInv, BoxInv, Box, DockerLeavesNothing, InDocker
    <2> QED BY <2>1, <2>2, <2>3 DEF SandboxInv
  <1>5. CASE WriteResult
    <2>1. BoxInv'
      BY <1>5 DEF WriteResult, harnessVars, graderVars, interactiveVars, SandboxInv, BoxInv, Box
    <2>2. FinalIsTheGraders'
      BY <1>5 DEF WriteResult, harnessVars, graderVars, interactiveVars, SandboxInv, BoxInv, Box, FinalIsTheGraders, Completed, InDocker
    <2>3. DockerLeavesNothing'
      BY <1>5 DEF WriteResult, harnessVars, graderVars, interactiveVars, SandboxInv, BoxInv, Box, DockerLeavesNothing, InDocker
    <2> QED BY <2>1, <2>2, <2>3 DEF SandboxInv
  <1>6. CASE ContainerExits \/ ContainerDies
    <2>1. BoxInv'
      BY <1>6 DEF ContainerExits, ContainerDies, AllGone, SandboxInv, BoxInv, Box
    <2>2. FinalIsTheGraders'
      BY <1>6 DEF ContainerExits, ContainerDies, AllGone, SandboxInv, BoxInv, Box, FinalIsTheGraders, Completed, InDocker
    <2>3. DockerLeavesNothing'
      BY <1>6 DEF ContainerExits, ContainerDies, AllGone, SandboxInv, BoxInv, Box, DockerLeavesNothing, InDocker
    <2> QED BY <2>1, <2>2, <2>3 DEF SandboxInv
  <1>7. CASE RunTimesOut
    <2>1. BoxInv'
      BY <1>7 DEF RunTimesOut, Cleanup, AllGone, Failed, harnessVars, graderVars, interactiveVars, SandboxInv, BoxInv, Box
    <2>2. FinalIsTheGraders'
      BY <1>7 DEF RunTimesOut, Cleanup, AllGone, Failed, harnessVars, graderVars, interactiveVars, SandboxInv, BoxInv, Box, FinalIsTheGraders, Completed, InDocker
    <2>3. DockerLeavesNothing'
      BY <1>7 DEF RunTimesOut, Cleanup, AllGone, Failed, harnessVars, graderVars, interactiveVars, SandboxInv, BoxInv, Box, DockerLeavesNothing, InDocker
    <2> QED BY <2>1, <2>2, <2>3 DEF SandboxInv
  <1>8. CASE CollectResult
    <2>1. BoxInv'
      BY <1>8 DEF CollectResult, Close, ExitStatus, Failed, Presentable, harnessVars, graderVars, interactiveVars, SandboxInv, BoxInv, Box
    <2>2. FinalIsTheGraders'
      <3>1. CASE Close(Failed)
        BY <3>1 DEF Close, Failed, FinalIsTheGraders
      <3>2. CASE /\ box.file = "whole" /\ Presentable
                 /\ Close([status |-> ExitStatus, score |-> result.score])
        <4>1. final'.status = ExitStatus /\ final'.score = result.score
          BY <3>2 DEF Close
        <4>2. ExitStatus = "completed" => result.status = "completed" /\ box.rc = 0
          BY DEF ExitStatus
        <4>3. box'.file = "whole" /\ box'.rc = box.rc /\ stage' = "returned" /\ result' = result
          BY <1>8, <3>2 DEF CollectResult, Close, harnessVars, graderVars, SandboxInv, BoxInv, Box
        <4> QED BY <3>2, <4>1, <4>2, <4>3 DEF Presentable, FinalIsTheGraders, Completed
      <3> QED BY <1>8, <3>1, <3>2 DEF CollectResult
    <2>3. DockerLeavesNothing'
      BY <1>8 DEF CollectResult, Close, ExitStatus, Failed, Presentable, harnessVars, graderVars, interactiveVars, SandboxInv, BoxInv, Box, DockerLeavesNothing, InDocker
    <2> QED BY <2>1, <2>2, <2>3 DEF SandboxInv
  <1> QED
    BY <1>1, <1>2, <1>3, <1>4, <1>5, <1>6, <1>7, <1>8 DEF RunnerNext

\* Both runners, at every step of an evaluation and wherever it is cut short.
LEMMA SandboxInvariant == Spec => []SandboxInv
  <1>1. SandboxInv /\ [Next]_vars => SandboxInv'
    <2> SUFFICES ASSUME SandboxInv, [Next]_vars PROVE SandboxInv'
      OBVIOUS
    <2>1. CASE UNCHANGED vars
      BY <2>1 DEF vars, harnessVars, graderVars, interactiveVars, SandboxInv, BoxInv, FinalIsTheGraders,
                  Completed, DockerLeavesNothing, InDocker
    <2> QED BY <2>1, TwoKindsOfSteps, HarnessInBox, RunnerInBox
  <1> QED BY <1>1, SandboxInit, PTL DEF Spec

\* A completed result the worker gets from either runner is the grader's own,
\* whole, with its score, from a container that exited with status 0.
THEOREM WorkerGetsTheGradersResult == Spec => []FinalIsTheGraders
  BY SandboxInvariant, PTL DEF SandboxInv

\* Once the docker runner has reported, no process of the evaluation is left,
\* unless it timed out and the removal of the container failed: then the report
\* is a failure whatever the container still does.
THEOREM ContainersAreGone == Spec => []DockerLeavesNothing
  BY SandboxInvariant, PTL DEF SandboxInv
-----------------------------------------------------------------------------
\* Verdicts.  A step of an evaluator does one of three things to its process.
Launched ==
    \E limit \in {TimeLimit, CompileLimit}, cap \in {OutputLimit, NULL} : Launch(limit, cap)

Evaluates == proc' = NULL \/ proc' = proc \/ Launched

\* What Fail does to the process.
LEMMA FailReaps ==
    ASSUME NEW who, Fail(who) PROVE proc' = NULL
  BY DEF Fail, Return

\* The classic grader and the author's code in the evaluator.
LEMMA ClassicEvaluates ==
    ASSUME ClassicNext \/ LoadFails \/ RunScorer \/ RunChecker PROVE Evaluates
  <1>1. CASE LoadFails \/ LoadPackage
    BY <1>1, FailReaps DEF LoadFails, LoadPackage, Escape, Evaluates
  <1>2. CASE CompileReference \/ CompileSubmission
    BY <1>2, FailReaps DEF CompileReference, CompileSubmission, BeginCompile, Evaluates, Launched
  <1>3. CASE ReferenceCompiled \/ SubmissionCompiled
    BY <1>3, FailReaps DEF ReferenceCompiled, SubmissionCompiled, EndCompile, Complete, Return, Evaluates
  <1>4. CASE RunReference \/ RunTest \/ SetupRaises \/ ScoreTests
    BY <1>4, FailReaps DEF RunReference, RunTest, SetupRaises, ScoreTests, Complete, Return, Evaluates, Launched
  <1>5. CASE ReferenceEnds
    BY <1>5, FailReaps DEF ReferenceEnds, Evaluates
  <1>6. CASE TestEnds \/ CompareTokens
    BY <1>6 DEF TestEnds, CompareTokens, JudgeOutput, RecordRow, Evaluates
  <1>7. CASE RunScorer \/ RunChecker
    BY <1>7, FailReaps DEF RunScorer, RunChecker, JudgeOutput, RecordRow, Escape, Complete, Return, Evaluates
  <1> QED BY <1>1, <1>2, <1>3, <1>4, <1>5, <1>6, <1>7 DEF ClassicNext

\* The optimization grader.
LEMMA OptimizationEvaluates ==
    ASSUME OptimizationNext PROVE Evaluates
  <1>1. CASE LoadOptimization
    BY <1>1, FailReaps DEF LoadOptimization, Evaluates
  <1>2. CASE CompileCandidate \/ CompileBaseline
    BY <1>2, FailReaps DEF CompileCandidate, CompileBaseline, BeginCompile, Evaluates, Launched
  <1>3. CASE CandidateCompiled \/ BaselineCompiled
    BY <1>3, FailReaps DEF CandidateCompiled, BaselineCompiled, EndCompile, Complete, Return, Evaluates
  <1>4. CASE RunSolution \/ ScoreInstances
    BY <1>4, FailReaps DEF RunSolution, ScoreInstances, Complete, Return, Evaluates, Launched
  <1>5. CASE BaselineEnds
    BY <1>5, FailReaps DEF BaselineEnds, Evaluates
  <1>6. CASE SolutionEnds
    BY <1>6 DEF SolutionEnds, RecordRow, Evaluates
  <1>7. ASSUME NEW e \in Evaluations, EvaluateBaseline(e) PROVE Evaluates
    BY <1>7, FailReaps DEF EvaluateBaseline, Evaluates
  <1>8. ASSUME NEW e \in Evaluations, EvaluateOutput(e) PROVE Evaluates
    BY <1>8, FailReaps DEF EvaluateOutput, RecordRow, Evaluates
  <1> QED BY <1>1, <1>2, <1>3, <1>4, <1>5, <1>6, <1>7, <1>8 DEF OptimizationNext

\* The other graders.
LEMMA OthersEvaluate ==
    ASSUME QuizNext \/ ModelNext \/ InteractiveNext PROVE Evaluates
  <1>1. CASE QuizNext
    <2>1. CASE LoadQuiz \/ ScoreQuiz
      BY <2>1 DEF LoadQuiz, ScoreQuiz, InvalidSubmission, Complete, Return, Evaluates
    <2>2. ASSUME NEW a, AnswerQuestion(a) PROVE Evaluates
      BY <2>2 DEF AnswerQuestion, InvalidSubmission, Return, Evaluates
    <2> QED BY <1>1, <2>1, <2>2 DEF QuizNext
  <1>2. CASE ModelNext
    BY <1>2, FailReaps DEF ModelNext, LoadModel, StagePhase, PhaseFails, PhaseEnds, Complete, Return,
                           graderVars, Evaluates
  <1>3. CASE InteractiveNext
    BY <1>3, FailReaps DEF InteractiveNext, LoadInteractive, StartWorker, WorkerEnds, ScoreInteraction,
                           RecordRow, Complete, Return, Evaluates, Launched
  <1> QED BY <1>1, <1>2, <1>3

-----------------------------------------------------------------------------
\* What the flags of a process stand for.
Flagged(p) ==
    /\ p.st = "killed" => p.rc = 1
    /\ p.st # "killed" => p.flag = "none" /\ p.time <= p.limit + 1
    /\ p.flag = "time" => p.time > p.limit
    /\ p.flag = "stderr" => p.err > StderrLimit
    /\ p.flag = "output" => p.cap # NULL /\ p.out > p.cap

ProcInv == proc # NULL => proc \in Process /\ Flagged(proc)

\* The limits are positive numbers.
LEMMA LimitsAreNumbers ==
    /\ TimeLimit \in Nat /\ CompileLimit \in Nat
    /\ OutputLimit \in Nat /\ StderrLimit \in Nat /\ Unit \in Nat
  BY ProcessAssumption DEF ProcessAssumption

\* A new process has no flag and no time.
LEMMA EvaluatesKeepsProc ==
    ASSUME ProcInv, Evaluates PROVE ProcInv'
  <1>1. CASE proc' = NULL \/ proc' = proc
    BY <1>1 DEF ProcInv, Process, Flagged
  <1>2. ASSUME NEW limit \in {TimeLimit, CompileLimit}, NEW cap \in {OutputLimit, NULL}, Launch(limit, cap)
        PROVE  ProcInv'
    BY <1>2, LimitsAreNumbers DEF Launch, NewProcess, ProcInv, Process, ProcessStates, Flagged
  <1> QED BY <1>1, <1>2 DEF Evaluates, Launched

\* One poll: the flag it sets has its cause at that moment, and a process it
\* lets live is not past its limit.
LEMMA PollKeepsProc ==
    ASSUME ProcInv, Poll PROVE ProcInv'
  <1>1. proc \in Process /\ Flagged(proc) /\ proc.st = "running"
    BY DEF Poll, ProcInv
  <1>2. CASE proc.cap # NULL /\ proc.out > proc.cap
    BY <1>1, <1>2 DEF Poll, Kill, ProcInv, Process, ProcessStates, Flagged
  <1>3. CASE ~ (proc.cap # NULL /\ proc.out > proc.cap) /\ proc.err > StderrLimit
    BY <1>1, <1>3 DEF Poll, Kill, ProcInv, Process, ProcessStates, Flagged
  <1>4. CASE /\ ~ (proc.cap # NULL /\ proc.out > proc.cap) /\ ~ (proc.err > StderrLimit)
             /\ proc.time > proc.limit
    BY <1>1, <1>4 DEF Poll, Kill, ProcInv, Process, ProcessStates, Flagged
  <1>5. CASE /\ ~ (proc.cap # NULL /\ proc.out > proc.cap) /\ ~ (proc.err > StderrLimit)
             /\ ~ (proc.time > proc.limit)
    BY <1>1, <1>5 DEF Poll, ProcInv, Process, ProcessStates, Flagged
  <1> QED BY <1>2, <1>3, <1>4, <1>5

\* The child between two polls.
LEMMA ChildKeepsProc ==
    ASSUME ProcInv, ChildWrites \/ ChildComplains \/ \E rc \in {0, 1} : ChildExits(rc) PROVE ProcInv'
  <1>1. CASE ChildWrites
    BY <1>1 DEF ChildWrites, ProcInv, Process, ProcessStates, Flagged
  <1>2. CASE ChildComplains
    BY <1>2 DEF ChildComplains, ProcInv, Process, ProcessStates, Flagged
  <1>3. ASSUME NEW rc \in {0, 1}, ChildExits(rc) PROVE ProcInv'
    BY <1>3 DEF ChildExits, ProcInv, Process, ProcessStates, Flagged
  <1> QED BY <1>1, <1>2, <1>3

-----------------------------------------------------------------------------
\* The worker of an interactive test: the size of its reply is a number.
WorkSession ==
    [at : {"setup", "compile", "talk", "send", "receive", "close", "print"}, child : Children,
     inbox : Int, unread : Int, ends : Int, buf : Int, bytes : Int, log : Nat, born : Nat,
     reply : Replies \cup {NULL}]

SessionInv == session # NULL => session \in WorkSession

\* What the worker may reply is a reply.
LEMMA RepliesAre ==
    /\ JudgeError \in Replies
    /\ \A v \in {"AC", "WA", "TLE", "OLE", "RE"}, n \in {0, Unit} : Reply("completed", v, n) \in Replies
  BY LimitsAreNumbers DEF JudgeError, Reply, Replies

\* A new session, and one after its dialogue.
LEMMA SessionsStay ==
    /\ NewSession \in WorkSession
    /\ \A s \in WorkSession, r \in Replies \cup {NULL} : Broken(s, r) \in WorkSession
    /\ \A s \in WorkSession, r \in Replies \cup {NULL} : Over(s, "close", s.child, r) \in WorkSession
    /\ \A s \in WorkSession : Recorded(s) \in WorkSession
    /\ \A c \in Children : [NewSession EXCEPT !.child = c] \in WorkSession
  <1>1. NewSession \in WorkSession /\ \A c \in Children : [NewSession EXCEPT !.child = c] \in WorkSession
    BY DEF NewSession, WorkSession, Children
  <1>2. ASSUME NEW s \in WorkSession, NEW r \in Replies \cup {NULL}
        PROVE  Broken(s, r) \in WorkSession /\ Over(s, "close", s.child, r) \in WorkSession
    <2>1. s.child \in Children /\ s.log \in Nat /\ "exit1" \in Children
      BY DEF WorkSession, Children
    <2>2. ASSUME NEW at \in {"close", "print"}, NEW c \in Children, NEW n \in Nat
          PROVE  [NewSession EXCEPT !.at = at, !.child = c, !.log = n, !.reply = r] \in WorkSession
      BY <1>1 DEF WorkSession
    <2>3. ASSUME NEW t \in WorkSession PROVE [t EXCEPT !.log = 0] \in WorkSession
      BY DEF WorkSession
    <2> QED BY <2>1, <2>2, <2>3 DEF Broken, Over
  <1>3. ASSUME NEW s \in WorkSession PROVE Recorded(s) \in WorkSession
    BY DEF Recorded, WorkSession
  <1> QED BY <1>1, <1>2, <1>3

\* Steps of the worker but its last leave its process alone.
LEMMA WorkerKeepsSession ==
    ASSUME SessionInv, ProcInv, WorkerNext PROVE SessionInv' /\ ProcInv'
  <1>1. session \in WorkSession /\ proc \in Process /\ Flagged(proc) /\ proc.st = "running"
    BY DEF WorkerNext, SetUpSession, CompilerEnds, Send, Receive, CloseSession, PrintReply, WorkerAt,
           SessionInv, ProcInv
  <1>2. ASSUME NEW s, WorkerStep(s), s \in WorkSession PROVE SessionInv' /\ ProcInv'
    BY <1>1, <1>2 DEF WorkerStep, graderVars, SessionInv, ProcInv, Flagged
  <1>3. ASSUME StartCandidate(session) PROVE SessionInv' /\ ProcInv'
    <2>1. [session EXCEPT !.at = "talk", !.child = "running", !.born = proc.time] \in WorkSession
      BY <1>1 DEF WorkSession, Children, Process
    <2>2. [session EXCEPT !.at = "print", !.child = "none", !.reply = JudgeError] \in WorkSession
      BY <1>1, RepliesAre DEF WorkSession, Children
    <2> QED BY <1>2, <1>3, <2>1, <2>2 DEF StartCandidate
  <1>4. CASE SetUpSession \/ CompilerEnds
    <2>1. [session EXCEPT !.at = "print", !.reply = JudgeError] \in WorkSession
      BY <1>1, RepliesAre DEF WorkSession
    <2>2. [session EXCEPT !.at = "compile", !.child = "compiler"] \in WorkSession
      BY <1>1 DEF WorkSession, Children
    <2> QED BY <1>2, <1>3, <1>4, <2>1, <2>2 DEF SetUpSession, CompilerEnds
  <1>5. CASE Send
    <2>1. session.inbox + 1 \in Int
      BY <1>1 DEF WorkSession
    <2>2. \A n \in Int : [session EXCEPT !.inbox = n, !.at = "talk"] \in WorkSession
      BY <1>1 DEF WorkSession
    <2>3. [session EXCEPT !.inbox = @ + 1, !.at = "talk"] \in WorkSession
      BY <2>1, <2>2
    <2> QED BY <1>1, <1>2, <1>5, <2>3, RepliesAre, SessionsStay DEF Send
  <1>6. CASE Receive
    <2>1. session.buf - 1 \in Int /\ session.bytes + session.unread \in Int /\ session.ends \in Int /\ 0 \in Int
      BY <1>1 DEF WorkSession
    <2>2. \A n \in Int : [session EXCEPT !.buf = n, !.at = "talk"] \in WorkSession
      BY <1>1 DEF WorkSession
    <2>3. \A n, m, z \in Int : [session EXCEPT !.bytes = n, !.buf = m, !.unread = z, !.ends = z] \in WorkSession
      BY <1>1 DEF WorkSession
    <2>4. [session EXCEPT !.buf = @ - 1, !.at = "talk"] \in WorkSession
      BY <2>1, <2>2
    <2>5. [session EXCEPT !.bytes = session.bytes + session.unread, !.buf = session.ends,
                          !.unread = 0, !.ends = 0] \in WorkSession
      BY <2>1, <2>3
    <2> QED BY <1>1, <1>2, <1>6, <2>4, <2>5, RepliesAre, SessionsStay DEF Receive
  <1>7. CASE CloseSession
    <2>1. PICK child \in IF Alive(session.child) THEN {"exit0", "exit1"} ELSE {session.child} :
            WorkerStep([session EXCEPT
                !.at = "print", !.child = child,
                !.reply = IF @.verdict = "AC" /\ child # "exit0" THEN Reply("completed", "RE", 0) ELSE @])
      BY <1>7 DEF CloseSession
    <2>2. child \in Children
      BY <1>1 DEF Children, WorkSession
    <2>3. \A r \in Replies \cup {NULL} :
            [session EXCEPT !.at = "print", !.child = child, !.reply = r] \in WorkSession
      BY <1>1, <2>2 DEF WorkSession
    <2>4. (IF session.reply.verdict = "AC" /\ child # "exit0" THEN Reply("completed", "RE", 0)
                                                             ELSE session.reply) \in Replies \cup {NULL}
      BY <1>1, RepliesAre DEF WorkSession
    <2>5. [session EXCEPT
             !.at = "print", !.child = child,
             !.reply = IF @.verdict = "AC" /\ child # "exit0" THEN Reply("completed", "RE", 0) ELSE @]
          \in WorkSession
      BY <2>3, <2>4
    <2> QED BY <1>2, <2>1, <2>5
  <1>8. CASE PrintReply
    <2>1. session.log \in Nat /\ FileRoom(proc) \in Nat
      BY <1>1, LimitsAreNumbers DEF WorkSession, FileRoom, Process
    <2>2. PICK rc \in {0, 1}, out \in Nat : proc' = [proc EXCEPT !.st = "exited", !.rc = rc, !.out = out]
      BY <1>8, <2>1 DEF PrintReply
    <2>3. session' = session
      BY <1>8 DEF PrintReply
    <2> QED BY <1>1, <2>2, <2>3 DEF SessionInv, ProcInv, Process, ProcessStates, Flagged
  <1> QED BY <1>4, <1>5, <1>6, <1>7, <1>8 DEF WorkerNext

\* The author's interactor, the candidate and what is left of earlier tests.
LEMMA InteractorKeepsSession ==
    ASSUME SessionInv, ProcInv, InteractorNext PROVE SessionInv' /\ ProcInv'
  <1>1. session \in WorkSession /\ proc \in Process /\ Flagged(proc) /\ proc.st = "running"
    BY DEF InteractorNext, InteractorTalks, InteractorReturns, InteractorMisbehaves, InteractorRaises,
           InteractorExits, WorkerDies, WorkerComplains, WorkerAt, SessionInv, ProcInv
  <1>2. ASSUME NEW what \in {"send", "receive"}, InteractorTalks(what) PROVE SessionInv' /\ ProcInv'
    BY <1>1, <1>2 DEF InteractorTalks, WorkerStep, graderVars, SessionInv, WorkSession, ProcInv, Flagged
  <1>3. ASSUME NEW verdict \in {"AC", "WA"}, NEW score \in {0, Unit}, InteractorReturns(verdict, score)
        PROVE  SessionInv' /\ ProcInv'
    BY <1>1, <1>3, RepliesAre, SessionsStay DEF InteractorReturns, WorkerStep, graderVars, SessionInv, ProcInv, Flagged
  <1>4. CASE (\E verdict \in {"RE", "TLE", "OLE"} : InteractorMisbehaves(verdict)) \/ InteractorRaises
    BY <1>1, <1>4, RepliesAre, SessionsStay DEF InteractorMisbehaves, InteractorRaises, SessionInv, ProcInv, Flagged
  <1>5. ASSUME NEW rc \in {0, 1}, InteractorExits(rc) PROVE SessionInv' /\ ProcInv'
    <2>1. SessionInv'
      BY <1>1, <1>5, SessionsStay DEF InteractorExits, SessionInv
    <2> QED BY <1>1, <1>5, <2>1 DEF InteractorExits, ProcInv, Process, ProcessStates, Flagged
  <1>6. CASE WorkerDies
    <2>1. SessionInv'
      BY <1>1, <1>6, SessionsStay DEF WorkerDies, SessionInv, WorkSession
    <2> QED BY <1>1, <1>6, <2>1 DEF WorkerDies, ProcInv, Process, ProcessStates, Flagged
  <1>7. CASE WorkerComplains
    <2>1. SessionInv'
      BY <1>1, <1>7 DEF WorkerComplains, SessionInv
    <2> QED
      BY <1>1, <1>7, <2>1, LimitsAreNumbers DEF WorkerComplains, ProcInv, Process, ProcessStates, Flagged
  <1> QED BY <1>2, <1>3, <1>4, <1>5, <1>6, <1>7 DEF InteractorNext

\* The candidate's pipes, and the end of a child left behind.
LEMMA CandidateKeepsSession ==
    ASSUME SessionInv, ProcInv, CandidateNext \/ \E t \in strays : StrayEnds(t)
    PROVE  SessionInv' /\ ProcInv'
  <1>1. CASE CandidateReads
    BY <1>1 DEF CandidateReads, CandidateStep, WorkerStep, graderVars, SessionInv, WorkSession, ProcInv, Flagged
  <1>2. ASSUME NEW ends \in {0, 1}, CandidateWrites(ends) PROVE SessionInv' /\ ProcInv'
    <2>1. session \in WorkSession /\ session.unread + 1 \in Int /\ session.ends + ends \in Int
      BY <1>2 DEF CandidateWrites, SessionInv, WorkSession
    <2>2. \A n, m \in Int : [session EXCEPT !.unread = n, !.ends = m] \in WorkSession
      BY <2>1 DEF WorkSession
    <2>3. [session EXCEPT !.unread = @ + 1, !.ends = @ + ends] \in WorkSession
      BY <2>1, <2>2
    <2> QED
      BY <1>2, <2>3 DEF CandidateWrites, CandidateStep, WorkerStep, graderVars, SessionInv, ProcInv, Flagged
  <1>3. ASSUME NEW child \in {"mute", "exit0", "exit1"}, CandidateLeaves(child) PROVE SessionInv' /\ ProcInv'
    BY <1>3 DEF CandidateLeaves, CandidateStep, WorkerStep, graderVars, SessionInv, WorkSession, Children, ProcInv, Flagged
  <1>4. ASSUME NEW t \in strays, StrayEnds(t) PROVE SessionInv' /\ ProcInv'
    BY <1>4 DEF StrayEnds, graderVars, SessionInv, ProcInv, Flagged
  <1> QED BY <1>1, <1>2, <1>3, <1>4 DEF CandidateNext

\* Every step of the graders.
LEMMA HarnessKeepsProc ==
    ASSUME SessionInv, ProcInv, HarnessStep PROVE SessionInv' /\ ProcInv'
  <1>1. CASE /\ LoadFails \/ ClassicNext \/ QuizNext \/ OptimizationNext \/ ModelNext \/ RunScorer \/ RunChecker
             /\ UNCHANGED interactiveVars
    <2>1. ProcInv'
      BY <1>1, ClassicEvaluates, OptimizationEvaluates, OthersEvaluate, EvaluatesKeepsProc
    <2> QED BY <1>1, <2>1 DEF interactiveVars, SessionInv
  <1>2. CASE InteractiveNext
    <2>1. ProcInv'
      BY <1>2, OthersEvaluate, EvaluatesKeepsProc
    <2>2. session' = session \/ session' = NULL \/ session' = NewSession
      BY <1>2 DEF InteractiveNext, LoadInteractive, StartWorker, WorkerEnds, ScoreInteraction, interactiveVars
    <2> QED BY <2>1, <2>2, SessionsStay DEF SessionInv
  <1>3. CASE WorkerNext
    BY <1>3, WorkerKeepsSession
  <1>4. CASE PollStep
    BY <1>4, PollKeepsProc DEF PollStep, interactiveVars, SessionInv
  <1>5. CASE ChildStep
    BY <1>5, ChildKeepsProc, InteractorKeepsSession, CandidateKeepsSession
       DEF ChildStep, interactiveVars, SessionInv
  <1> QED BY <1>1, <1>2, <1>3, <1>4, <1>5 DEF HarnessStep, JudgeStep, AuthorStep

\* A runner takes the process away with its container, or leaves it as it is.
LEMMA RunnerKeepsProc ==
    ASSUME SessionInv, ProcInv, RunnerNext PROVE SessionInv' /\ ProcInv'
  <1>1. (proc' = proc /\ session' = session) \/ (proc' = NULL /\ session' = NULL)
    <2>1. CASE Register \/ OpenSandbox
      BY <2>1 DEF Register, OpenSandbox, interactiveVars
    <2>2. CASE TakeResult \/ AlarmRings \/ WorkerExits \/ WriteResult \/ CollectResult
      BY <2>2 DEF TakeResult, AlarmRings, WorkerExits, WriteResult, CollectResult,
                  harnessVars, graderVars, interactiveVars
    <2>3. CASE ContainerExits \/ ContainerDies \/ RunTimesOut
      BY <2>3 DEF ContainerExits, ContainerDies, RunTimesOut, Cleanup, AllGone,
                  harnessVars, graderVars, interactiveVars
    <2> QED BY <2>1, <2>2, <2>3 DEF RunnerNext
  <1> QED BY <1>1 DEF SessionInv, ProcInv, Flagged

\* What the flags stand for is what the verdict says.
LEMMA FlagsEarnVerdicts ==
    ASSUME ProcInv PROVE VerdictsAreEarned
  <1> SUFFICES ASSUME Ended PROVE VerdictsAreEarned
    BY DEF VerdictsAreEarned
  <1>1. proc \in Process /\ Flagged(proc) /\ proc.st # "running"
    BY DEF ProcInv, Ended
  <1>2. StderrLimit \in Nat /\ OutputLimit \in Nat /\ proc.cap \in {OutputLimit, NULL}
    BY <1>1, LimitsAreNumbers DEF Process
  <1> QED BY <1>1, <1>2 DEF VerdictsAreEarned, Verdict, Process, ProcessStates, Flagged

\* A verdict of _run_process means what it says, whatever the child did between
\* two polls: OK is an exit with status 0 within the limits, TLE and OLE have
\* their cause.
THEOREM VerdictsHaveACause == Spec => []VerdictsAreEarned
  <1>1. Init => SessionInv /\ ProcInv
    BY DEF Init, SessionInv, ProcInv
  <1>2. SessionInv /\ ProcInv /\ [Next]_vars => (SessionInv /\ ProcInv)'
    <2> SUFFICES ASSUME SessionInv, ProcInv, [Next]_vars PROVE SessionInv' /\ ProcInv'
      OBVIOUS
    <2>1. CASE UNCHANGED vars
      BY <2>1 DEF vars, harnessVars, graderVars, interactiveVars, SessionInv, ProcInv, Flagged
    <2>2. ASSUME Runs(HarnessStep) PROVE SessionInv' /\ ProcInv'
      BY <2>2, HarnessKeepsProc DEF Runs
    <2> QED BY <2>1, <2>2, TwoKindsOfSteps, RunnerKeepsProc
  <1>3. ProcInv => VerdictsAreEarned
    BY FlagsEarnVerdicts
  <1> QED BY <1>1, <1>2, <1>3, PTL DEF Spec

-----------------------------------------------------------------------------
(***************************************************************************)
(* Interactive tests.  The worker's process and its session are two pieces *)
(* of state that change at different steps: a worker that was killed left  *)
(* its session where it stood, and one that ended with status 0 came to    *)
(* its reply, with a candidate that no longer lives.                       *)
(***************************************************************************)
DialogueInv ==
    session # NULL =>
        /\ IsInteractive /\ stage = "test" /\ proc # NULL
        /\ session.at = "setup" /\ proc.st = "running" => session.child = "none"
        /\ session.at = "print" => ~ Alive(session.child)
        /\ AcceptedCandidatesEnded
        /\ proc.st = "exited" /\ proc.rc = 0 => session.at = "print"

\* The rows and the strays of an interactive evaluation: a row per test that is
\* over, and a child left behind only by a test that is over, with a row TLE
\* unless the evaluation ended with it.
StrayInv ==
    /\ ~ IsInteractive => strays = {} /\ session = NULL
    /\ IsInteractive =>
         /\ rows \in Seq(Row) /\ test \in 1 .. Tests
         /\ stage \in {"register", "queued", "load", "test"} => Len(rows) = test - 1
         /\ stage # "returned" => strays \subseteq 1 .. Len(rows)
         /\ strays \subseteq 1 .. Tests
         /\ \A t \in strays \cap DOMAIN rows : rows[t].verdict = "TLE"

TestInv == SessionInv /\ ProcInv /\ DialogueInv /\ StrayInv

\* What may become of a session while its worker runs.
GoodSession(s) ==
    /\ s.at = "setup" => s.child = "none"
    /\ s.at = "print" =>
         ~ Alive(s.child) /\ (s.reply # NULL /\ s.reply.verdict = "AC" => s.child = "exit0")

\* A broken dialogue has no living candidate, and its reply accepts nothing.
LEMMA BrokenIsOver ==
    ASSUME NEW s \in WorkSession, NEW r \in Replies \cup {NULL}, r # NULL => r.verdict # "AC"
    PROVE  GoodSession(Broken(s, r)) /\ Broken(s, r).at = "print"
  BY DEF Broken, Over, NewSession, Alive, WorkSession, GoodSession

\* A step that changes the session alone.
LEMMA SessionStepKeeps ==
    ASSUME DialogueInv, StrayInv, session # NULL, proc.st = "running", NEW s, WorkerStep(s), GoodSession(s)
    PROVE  DialogueInv' /\ StrayInv'
  <1>1. /\ UNCHANGED <<pkg, stage, test, rows, proc, strays>> /\ session' = s
        /\ IsInteractive /\ stage = "test" /\ proc # NULL
    BY DEF WorkerStep, graderVars, DialogueInv
  <1>2. DialogueInv'
    BY <1>1 DEF DialogueInv, GoodSession, AcceptedCandidatesEnded, IsInteractive
  <1> QED BY <1>1, <1>2 DEF StrayInv, IsInteractive

\* A step of the worker's programs that leaves the rows alone.
LEMMA RowsStay ==
    ASSUME StrayInv, IsInteractive, UNCHANGED <<pkg, stage, test, rows, strays>>
    PROVE  StrayInv'
  BY DEF StrayInv, IsInteractive

\* The worker: it sets up, sends, receives, closes and prints.
LEMMA WorkerKeepsTest ==
    ASSUME TestInv, WorkerNext PROVE DialogueInv' /\ StrayInv'
  <1>0. /\ session \in WorkSession /\ session # NULL /\ proc \in Process /\ proc.st = "running"
        /\ DialogueInv /\ StrayInv /\ IsInteractive
    BY DEF WorkerNext, SetUpSession, CompilerEnds, Send, Receive, CloseSession, PrintReply, WorkerAt,
           SessionInv, ProcInv, TestInv
  <1>1. \A v \in {"RE", "TLE", "OLE"} :
          Reply("completed", v, 0) \in Replies /\ Reply("completed", v, 0).verdict # "AC"
    BY RepliesAre DEF Reply
  <1>2. JudgeError \in Replies /\ (JudgeError # NULL => JudgeError.verdict # "AC")
    BY RepliesAre, NullAssumption DEF Verdicts, JudgeError, Reply
  <1>3. ASSUME StartCandidate(session) PROVE DialogueInv' /\ StrayInv'
    <2>1. GoodSession([session EXCEPT !.at = "talk", !.child = "running", !.born = proc.time])
      BY <1>0 DEF GoodSession, WorkSession
    <2>2. GoodSession([session EXCEPT !.at = "print", !.child = "none", !.reply = JudgeError])
      BY <1>0, <1>2 DEF GoodSession, WorkSession, Alive
    <2> QED BY <1>0, <1>3, <2>1, <2>2, SessionStepKeeps DEF StartCandidate
  <1>4. CASE SetUpSession
    <2>1. session.at = "setup" /\ session.child = "none"
      BY <1>0, <1>4 DEF SetUpSession, WorkerAt, DialogueInv
    <2>2. GoodSession([session EXCEPT !.at = "print", !.reply = JudgeError])
      BY <1>0, <1>2, <2>1 DEF GoodSession, WorkSession, Alive
    <2>3. GoodSession([session EXCEPT !.at = "compile", !.child = "compiler"])
      BY <1>0 DEF GoodSession, WorkSession
    <2> QED BY <1>0, <1>3, <1>4, <2>2, <2>3, SessionStepKeeps DEF SetUpSession
  <1>5. CASE CompilerEnds
    BY <1>3, <1>5 DEF CompilerEnds
  <1>6. CASE Send
    <2>1. GoodSession(Recorded([session EXCEPT !.inbox = @ + 1, !.at = "talk"]))
      BY <1>0 DEF GoodSession, Recorded, WorkSession
    <2>2. GoodSession(Broken(session, Reply("completed", "RE", 0)))
      BY <1>0, <1>1, BrokenIsOver
    <2> QED BY <1>0, <1>6, <2>1, <2>2, SessionStepKeeps DEF Send
  <1>7. CASE Receive
    <2>1. GoodSession(Recorded([session EXCEPT !.buf = @ - 1, !.at = "talk"]))
      BY <1>0 DEF GoodSession, Recorded, WorkSession
    <2>2. \A v \in {"RE", "TLE", "OLE"} : GoodSession(Broken(session, Reply("completed", v, 0)))
      BY <1>0, <1>1, BrokenIsOver
    <2>3. GoodSession([session EXCEPT !.bytes = session.bytes + session.unread, !.buf = session.ends,
                                      !.unread = 0, !.ends = 0])
      BY <1>0, <1>7 DEF Receive, WorkerAt, GoodSession, WorkSession
    <2> QED BY <1>0, <1>7, <2>1, <2>2, <2>3, SessionStepKeeps DEF Receive
  <1>8. CASE CloseSession
    <2>1. PICK child \in IF Alive(session.child) THEN {"exit0", "exit1"} ELSE {session.child} :
            WorkerStep([session EXCEPT
                !.at = "print", !.child = child,
                !.reply = IF @.verdict = "AC" /\ child # "exit0" THEN Reply("completed", "RE", 0) ELSE @])
      BY <1>8 DEF CloseSession
    <2>2. ~ Alive(child)
      BY DEF Alive
    <2>3. GoodSession([session EXCEPT
                !.at = "print", !.child = child,
                !.reply = IF @.verdict = "AC" /\ child # "exit0" THEN Reply("completed", "RE", 0) ELSE @])
      BY <1>0, <1>1, <2>2 DEF GoodSession, WorkSession
    <2> QED BY <1>0, <2>1, <2>3, SessionStepKeeps
  <1>9. CASE PrintReply
    <2>1. /\ session.at = "print" /\ UNCHANGED <<pkg, stage, test, rows, strays, session>>
          /\ proc' # NULL /\ proc'.st = "exited"
      <3>1. session.log \in Nat /\ FileRoom(proc) \in Nat
        BY <1>0, LimitsAreNumbers DEF WorkSession, FileRoom, Process
      <3>2. PICK rc \in {0, 1}, out \in Nat : proc' = [proc EXCEPT !.st = "exited", !.rc = rc, !.out = out]
        BY <1>9, <3>1 DEF PrintReply
      <3>3. proc' \in Process /\ proc'.st = "exited"
        BY <1>0, <3>2 DEF Process, ProcessStates
      <3> QED BY <1>9, <3>3, NullAssumption DEF PrintReply, WorkerAt
    <2>2. DialogueInv'
      BY <1>0, <2>1 DEF DialogueInv, AcceptedCandidatesEnded, IsInteractive
    <2> QED BY <1>0, <2>1, <2>2, RowsStay
  <1> QED BY <1>4, <1>5, <1>6, <1>7, <1>8, <1>9 DEF WorkerNext

\* The author's interactor, and what may happen to the worker's process.
LEMMA InteractorKeepsTest ==
    ASSUME TestInv, InteractorNext PROVE DialogueInv' /\ StrayInv'
  <1>0. /\ session \in WorkSession /\ session # NULL /\ proc \in Process /\ proc.st = "running"
        /\ DialogueInv /\ StrayInv /\ IsInteractive /\ proc # NULL /\ stage = "test"
    BY DEF InteractorNext, InteractorTalks, InteractorReturns, InteractorMisbehaves, InteractorRaises,
           InteractorExits, WorkerDies, WorkerComplains, WorkerAt, SessionInv, ProcInv, TestInv, DialogueInv
  <1>1. /\ \A verdict \in {"RE", "TLE", "OLE"} :
             Reply("completed", verdict, 0) \in Replies /\ Reply("completed", verdict, 0).verdict # "AC"
        /\ JudgeError \in Replies /\ JudgeError.verdict # "AC"
    BY RepliesAre, NullAssumption DEF Verdicts, JudgeError, Reply
  <1>2. ASSUME NEW what \in {"send", "receive"}, InteractorTalks(what) PROVE DialogueInv' /\ StrayInv'
    <2>1. GoodSession([session EXCEPT !.at = what])
      BY <1>0 DEF GoodSession, WorkSession
    <2> QED BY <1>0, <1>2, <2>1, SessionStepKeeps DEF InteractorTalks
  <1>3. ASSUME NEW verdict \in {"AC", "WA"}, NEW score \in {0, Unit}, InteractorReturns(verdict, score)
        PROVE  DialogueInv' /\ StrayInv'
    <2>1. GoodSession(Over(session, "close", session.child, Reply("completed", verdict, score)))
      BY <1>0 DEF GoodSession, Over, NewSession
    <2> QED BY <1>0, <1>3, <2>1, SessionStepKeeps DEF InteractorReturns
  <1>4. CASE (\E verdict \in {"RE", "TLE", "OLE"} : InteractorMisbehaves(verdict)) \/ InteractorRaises
    <2>1. GoodSession(session') /\ session'.at = "print"
      BY <1>0, <1>1, <1>4, BrokenIsOver DEF InteractorMisbehaves, InteractorRaises
    <2>2. UNCHANGED <<pkg, stage, test, rows, strays, proc>>
      BY <1>4 DEF InteractorMisbehaves, InteractorRaises
    <2>3. DialogueInv'
      BY <1>0, <2>1, <2>2 DEF DialogueInv, GoodSession, AcceptedCandidatesEnded, IsInteractive
    <2> QED BY <1>0, <2>2, <2>3, RowsStay
  <1>5. ASSUME NEW rc \in {0, 1}, InteractorExits(rc) PROVE DialogueInv' /\ StrayInv'
    <2>1. GoodSession(session') /\ session'.at = "print"
      BY <1>0, <1>5, BrokenIsOver DEF InteractorExits
    <2>2. UNCHANGED <<pkg, stage, test, rows, strays>> /\ proc' \in Process /\ proc'.st = "exited"
      BY <1>0, <1>5 DEF InteractorExits, Process, ProcessStates
    <2>3. DialogueInv'
      BY <1>0, <2>1, <2>2, NullAssumption DEF DialogueInv, GoodSession, AcceptedCandidatesEnded, IsInteractive
    <2> QED BY <1>0, <2>2, <2>3, RowsStay
  <1>6. CASE WorkerDies
    <2>1. session'.at = "setup"
      BY <1>6 DEF WorkerDies, NewSession
    <2>2. /\ UNCHANGED <<pkg, stage, test, rows, strays>>
          /\ proc' \in Process /\ proc'.st = "exited" /\ proc'.rc = 1
      BY <1>0, <1>6 DEF WorkerDies, Process, ProcessStates
    <2>3. DialogueInv'
      BY <1>0, <2>1, <2>2, NullAssumption DEF DialogueInv, AcceptedCandidatesEnded, IsInteractive
    <2> QED BY <1>0, <2>2, <2>3, RowsStay
  <1>7. CASE WorkerComplains
    <2>1. /\ UNCHANGED <<pkg, stage, test, rows, strays, session>>
          /\ proc' \in Process /\ proc'.st = "running"
      BY <1>0, <1>7, LimitsAreNumbers DEF WorkerComplains, Process, ProcessStates
    <2>2. DialogueInv'
      BY <1>0, <2>1, NullAssumption DEF DialogueInv, AcceptedCandidatesEnded, IsInteractive
    <2> QED BY <1>0, <2>1, <2>2, RowsStay
  <1> QED BY <1>2, <1>3, <1>4, <1>5, <1>6, <1>7 DEF InteractorNext

\* The candidate, and a child left behind that ends at last.
LEMMA CandidateKeepsTest ==
    ASSUME TestInv, CandidateNext \/ \E t \in strays : StrayEnds(t)
    PROVE  DialogueInv' /\ StrayInv'
  <1>0. DialogueInv /\ StrayInv /\ SessionInv
    BY DEF TestInv
  <1>1. ASSUME NEW s, CandidateStep(s), s.at = session.at PROVE DialogueInv' /\ StrayInv'
    <2>1. GoodSession(s) /\ session # NULL /\ proc.st = "running"
      BY <1>1 DEF CandidateStep, GoodSession
    <2> QED BY <1>0, <1>1, <2>1, SessionStepKeeps DEF CandidateStep
  <1>2. CASE CandidateNext
    <2>1. session \in WorkSession
      BY <1>0, <1>2 DEF CandidateNext, CandidateReads, CandidateWrites, CandidateLeaves, SessionInv
    <2>2. CASE CandidateReads
      <3>1. [session EXCEPT !.inbox = @ - 1].at = session.at
        BY <2>1 DEF WorkSession
      <3> QED BY <1>1, <2>2, <3>1 DEF CandidateReads
    <2>3. ASSUME NEW ends \in {0, 1}, CandidateWrites(ends) PROVE DialogueInv' /\ StrayInv'
      <3>1. [session EXCEPT !.unread = @ + 1, !.ends = @ + ends].at = session.at
        BY <2>1 DEF WorkSession
      <3> QED BY <1>1, <2>3, <3>1 DEF CandidateWrites
    <2>4. ASSUME NEW child \in {"mute", "exit0", "exit1"}, CandidateLeaves(child)
          PROVE  DialogueInv' /\ StrayInv'
      <3>1. [session EXCEPT !.child = child].at = session.at
        BY <2>1 DEF WorkSession
      <3> QED BY <1>1, <2>4, <3>1 DEF CandidateLeaves
    <2> QED BY <1>2, <2>2, <2>3, <2>4 DEF CandidateNext
  <1>3. ASSUME NEW t \in strays, StrayEnds(t) PROVE DialogueInv' /\ StrayInv'
    <2>1. UNCHANGED <<pkg, stage, test, rows, proc, session>> /\ strays' \subseteq strays
      BY <1>3 DEF StrayEnds, graderVars
    <2>2. DialogueInv'
      BY <1>0, <2>1 DEF DialogueInv, AcceptedCandidatesEnded, IsInteractive
    <2>3. StrayInv'
      BY <1>0, <2>1 DEF StrayInv, IsInteractive
    <2> QED BY <2>2, <2>3
  <1> QED BY <1>2, <1>3

\* The end of a test: a child is left behind only where the row is TLE or the
\* evaluation fails.
LEMMA WorkerEndsKeepsTest ==
    ASSUME TestInv, WorkerEnds PROVE StrayInv'
  <1>0. /\ DialogueInv /\ StrayInv /\ IsInteractive /\ stage = "test" /\ Ended /\ VerdictsAreEarned
        /\ strays' = strays \cup Left
    BY FlagsEarnVerdicts DEF TestInv, WorkerEnds
  <1>1. /\ rows \in Seq(Row) /\ test \in 1 .. Tests /\ Len(rows) = test - 1 /\ Tests \in Nat
        /\ strays \subseteq 1 .. Len(rows) /\ \A t \in strays \cap DOMAIN rows : rows[t].verdict = "TLE"
    BY <1>0, ProcessAssumption DEF StrayInv
  <1>2. Left \subseteq {test}
    BY DEF Left
  <1>3. ASSUME NEW row \in Row, RecordRow(row, "test", "score"), row.verdict = "TLE" \/ Left = {}
        PROVE  StrayInv'
    <2>1. /\ rows' = Append(rows, row) /\ pkg' = pkg
          /\ IF test < Tests THEN test' = test + 1 /\ stage' = "test" ELSE test' = test /\ stage' = "score"
      BY <1>3 DEF RecordRow
    <2>2. rows' \in Seq(Row) /\ Len(rows') = test /\ test' \in 1 .. Tests
      BY <1>1, <2>1
    <2>3. \A t \in 1 .. test : rows'[t] = IF t = test THEN row ELSE rows[t]
      BY <1>1, <2>1
    <2>4. strays' \subseteq 1 .. test
      BY <1>0, <1>1, <1>2
    <2>5. ASSUME NEW t \in strays' PROVE rows'[t].verdict = "TLE"
      <3>1. CASE t = test /\ t \notin strays
        <4>1. Left # {}
          BY <1>0, <3>1, <2>5
        <4> QED BY <1>1, <1>3, <2>3, <3>1, <4>1
      <3>2. CASE t \in strays
        <4>1. t \in DOMAIN rows /\ t \in 1 .. test /\ t # test
          BY <1>1, <3>2
        <4> QED BY <1>1, <2>3, <3>2, <4>1
      <3> QED BY <1>0, <1>2, <2>5, <3>1, <3>2
    <2>6. IsInteractive'
      BY <1>0, <2>1 DEF IsInteractive
    <2>7. strays' \subseteq 1 .. Tests /\ strays' \subseteq 1 .. Len(rows')
      BY <1>1, <2>2, <2>4
    <2>8. stage' \in {"register", "queued", "load", "test"} => Len(rows') = test' - 1
      <3>1. CASE test < Tests
        BY <1>1, <2>1, <2>2, <3>1
      <3>2. CASE ~ (test < Tests)
        BY <2>1, <3>2
      <3> QED BY <3>1, <3>2
    <2> QED BY <2>2, <2>5, <2>6, <2>7, <2>8 DEF StrayInv
  <1>4. ASSUME NEW who, Fail(who) PROVE StrayInv'
    <2>1. UNCHANGED <<pkg, test, rows>> /\ stage' = "returned"
      BY <1>4 DEF Fail, Return
    <2>2. DOMAIN rows = 1 .. Len(rows) /\ test \notin 1 .. Len(rows)
      BY <1>1
    <2>3. strays' \subseteq 1 .. Tests
      BY <1>0, <1>1, <1>2
    <2> QED BY <1>0, <1>1, <1>2, <2>1, <2>2, <2>3 DEF StrayInv, IsInteractive
  <1>5. ASSUME Verdict(proc) = "OK", Replied("completed"),
               RecordRow(MakeRow(session.reply.verdict, session.reply.score), "test", "score")
        PROVE  StrayInv'
    <2>1. session # NULL /\ session.reply \in Replies /\ session.reply.status = "completed"
      BY <1>5 DEF Replied, TestInv, SessionInv, WorkSession
    <2>2. MakeRow(session.reply.verdict, session.reply.score) \in Row
      BY <2>1, LimitsAreNumbers DEF Replies, MakeRow, Row, Verdicts
    <2>3. proc.st = "exited" /\ proc.rc = 0
      BY <1>0, <1>5 DEF VerdictsAreEarned
    <2>4. Left = {}
      BY <1>0, <2>1, <2>3 DEF DialogueInv, Left
    <2> QED BY <1>3, <1>5, <2>2, <2>4
  <1>6. MakeRow("TLE", 0) \in Row /\ MakeRow("TLE", 0).verdict = "TLE"
    BY LimitsAreNumbers DEF MakeRow, Row, Verdicts
  <1> QED BY <1>3, <1>4, <1>5, <1>6 DEF WorkerEnds

\* The evaluator of an interactive package.
LEMMA InteractiveKeepsTest ==
    ASSUME TestInv, InteractiveNext PROVE DialogueInv' /\ StrayInv'
  <1>0. DialogueInv /\ StrayInv
    BY DEF TestInv
  <1>1. CASE LoadInteractive
    <2>1. /\ IsInteractive /\ stage = "load" /\ stage' = "test" /\ pkg'.kind = pkg.kind
          /\ UNCHANGED <<test, rows, proc, session, strays>>
      BY <1>1, InteractiveKeepsPackage DEF InteractiveNext, LoadInteractive, Goto, interactiveVars, SamePackage
    <2>2. session = NULL
      BY <1>0, <2>1 DEF DialogueInv
    <2> QED BY <1>0, <2>1, <2>2 DEF DialogueInv, StrayInv, IsInteractive
  <1>2. CASE StartWorker
    <2>1. IsInteractive /\ stage = "test" /\ proc = NULL /\ UNCHANGED <<pkg, test, rows, strays>>
      BY <1>2 DEF StartWorker, Fail
    <2>2. session = NULL
      BY <1>0, <2>1 DEF DialogueInv
    <2>3. CASE Fail({"host"}) /\ UNCHANGED session
      <3>1. stage' = "returned" /\ session' = NULL
        BY <2>2, <2>3 DEF Fail, Return
      <3> QED BY <1>0, <2>1, <3>1 DEF DialogueInv, StrayInv, IsInteractive
    <2>4. CASE /\ Launch(TimeLimit, OutputLimit)
               /\ session' = IF proc'.st = "running" THEN NewSession ELSE NULL
               /\ UNCHANGED <<pkg, stage, test, rows, faults, result>>
      <3>1. proc' \in Process /\ proc'.st \in {"running", "unstarted"}
        BY <2>4, LimitsAreNumbers DEF Launch, NewProcess, Process, ProcessStates
      <3>2. session' = NULL \/ (session' = NewSession /\ proc'.st = "running")
        BY <2>4
      <3>3. NewSession.at = "setup" /\ NewSession.child = "none"
        BY DEF NewSession
      <3>4. DialogueInv'
        BY <2>1, <2>4, <3>1, <3>2, <3>3, NullAssumption DEF DialogueInv, AcceptedCandidatesEnded, IsInteractive
      <3> QED BY <1>0, <2>1, <2>4, <3>4, RowsStay
    <2> QED BY <1>2, <2>3, <2>4 DEF StartWorker
  <1>3. CASE WorkerEnds
    <2>1. session' = NULL
      BY <1>3 DEF WorkerEnds
    <2> QED BY <1>3, <2>1, WorkerEndsKeepsTest DEF DialogueInv
  <1>4. CASE ScoreInteraction
    <2>1. /\ IsInteractive /\ stage = "score" /\ stage' = "returned"
          /\ UNCHANGED <<pkg, test, rows, session, strays>>
      BY <1>4 DEF ScoreInteraction, Complete, Return, interactiveVars
    <2>2. session = NULL
      BY <1>0, <2>1 DEF DialogueInv
    <2> QED BY <1>0, <2>1, <2>2 DEF DialogueInv, StrayInv, IsInteractive
  <1> QED BY <1>1, <1>2, <1>3, <1>4 DEF InteractiveNext

\* A grader, its programs and the author's code in it move only in packages of
\* their kind.
LEMMA OneGraderPerKind ==
    /\ ClassicNext \/ RunChecker => IsClassic
    /\ QuizNext => IsQuiz
    /\ OptimizationNext => IsOptimization
    /\ ModelNext => IsModel
    /\ RunScorer => IsScorer
    /\ InteractiveNext \/ WorkerNext \/ InteractorNext \/ CandidateNext => IsInteractive
  <1>1. ClassicNext \/ RunChecker => IsClassic
    BY DEF ClassicNext, LoadPackage, CompileReference, ReferenceCompiled, RunReference, ReferenceEnds,
           CompileSubmission, SubmissionCompiled, RunTest, TestEnds, CompareTokens, SetupRaises,
           ScoreTests, RunChecker
  <1>2. QuizNext => IsQuiz
    BY DEF QuizNext, LoadQuiz, ScoreQuiz, AnswerQuestion
  <1>3. OptimizationNext => IsOptimization
    BY DEF OptimizationNext, LoadOptimization, CompileCandidate, CompileBaseline, CandidateCompiled,
           BaselineCompiled, RunSolution, ScoreInstances, BaselineEnds, SolutionEnds, EvaluateBaseline,
           EvaluateOutput
  <1>4. (ModelNext => IsModel) /\ (RunScorer => IsScorer)
    BY DEF ModelNext, LoadModel, PhaseFails, StagePhase, PhaseEnds, RunScorer
  <1>5. InteractiveNext \/ WorkerNext => IsInteractive
    BY DEF InteractiveNext, LoadInteractive, StartWorker, WorkerEnds, ScoreInteraction, WorkerNext,
           SetUpSession, CompilerEnds, Send, Receive, CloseSession, PrintReply, WorkerAt
  <1>6. InteractorNext \/ CandidateNext => IsInteractive
    BY DEF InteractorNext, InteractorTalks, InteractorReturns, InteractorMisbehaves, InteractorRaises,
           InteractorExits, WorkerDies, WorkerComplains, CandidateNext, CandidateReads, CandidateWrites,
           CandidateLeaves, CandidateStep, WorkerAt
  <1> QED BY <1>1, <1>2, <1>3, <1>4, <1>5, <1>6

\* Every step of the graders.
LEMMA HarnessKeepsTest ==
    ASSUME TestInv, HarnessStep PROVE DialogueInv' /\ StrayInv'
  <1>0. DialogueInv /\ StrayInv /\ ProcInv
    BY DEF TestInv
  <1>1. CASE ~ IsInteractive /\ UNCHANGED interactiveVars
    BY <1>0, <1>1, HarnessKeepsPackage DEF DialogueInv, StrayInv, IsInteractive, SamePackage, interactiveVars
  <1>2. CASE LoadFails /\ UNCHANGED interactiveVars
    <2>1. stage = "load" /\ stage' = "returned" /\ UNCHANGED <<pkg, test, rows, session, strays>>
      BY <1>2 DEF LoadFails, Fail, Return, interactiveVars
    <2> QED BY <1>0, <2>1 DEF DialogueInv, StrayInv, IsInteractive
  <1>3. CASE PollStep
    <2>1. UNCHANGED <<pkg, stage, test, rows, session, strays>> /\ proc # NULL /\ proc.st = "running"
      BY <1>3 DEF PollStep, Poll, interactiveVars
    <2>2. proc' # NULL /\ proc'.st # "exited"
      <3>1. proc \in Process
        BY <1>0, <2>1 DEF ProcInv
      <3>2. ASSUME NEW why \in {"output", "stderr", "time"}
            PROVE  Kill(proc, why) \in Process /\ Kill(proc, why).st = "killed"
        BY <3>1 DEF Kill, Process, ProcessStates
      <3>3. /\ [proc EXCEPT !.time = proc.time + 1] \in Process
            /\ [proc EXCEPT !.time = proc.time + 1].st = "running"
        BY <2>1, <3>1 DEF Process, ProcessStates
      <3>4. \/ proc' = Kill(proc, "output") \/ proc' = Kill(proc, "stderr")
            \/ proc' = Kill(proc, "time") \/ proc' = [proc EXCEPT !.time = proc.time + 1]
        BY <1>3 DEF PollStep, Poll
      <3>5. proc' \in Process /\ proc'.st # "exited"
        BY <3>2, <3>3, <3>4
      <3> QED BY <3>5, NullAssumption
    <2>3. DialogueInv'
      BY <1>0, <2>1, <2>2 DEF DialogueInv, AcceptedCandidatesEnded, IsInteractive
    <2> QED BY <1>0, <2>1, <2>3 DEF StrayInv, IsInteractive
  <1> QED
    BY <1>1, <1>2, <1>3, OneGraderPerKind, InteractiveKeepsTest, WorkerKeepsTest, InteractorKeepsTest,
       CandidateKeepsTest
    DEF HarnessStep, JudgeStep, ChildStep, AuthorStep, interactiveVars,
        IsClassic, IsQuiz, IsOptimization, IsModel, IsScorer, IsInteractive

\* The runners, which may take everything away.
LEMMA RunnerKeepsTest ==
    ASSUME TestInv, RunnerNext PROVE DialogueInv' /\ StrayInv'
  <1>0. DialogueInv /\ StrayInv
    BY DEF TestInv
  <1>1. CASE Register \/ OpenSandbox
    <2>1. /\ UNCHANGED <<pkg, test, rows, proc, session, strays>> /\ stage \in {"register", "queued"}
          /\ stage' \in {"queued", "rejected", "load"}
      BY <1>1 DEF Register, OpenSandbox, Goto, interactiveVars
    <2>2. session = NULL
      BY <1>0, <2>1 DEF DialogueInv
    <2> QED BY <1>0, <2>1, <2>2 DEF DialogueInv, StrayInv, IsInteractive
  <1>2. CASE UNCHANGED <<pkg, stage, test, rows, proc, session, strays>>
    BY <1>0, <1>2 DEF DialogueInv, AcceptedCandidatesEnded, StrayInv, IsInteractive
  <1>3. CASE AllGone /\ UNCHANGED <<pkg, stage, test, rows>>
    BY <1>0, <1>3 DEF AllGone, DialogueInv, StrayInv, IsInteractive
  <1>4. CASE TakeResult \/ AlarmRings \/ WorkerExits \/ WriteResult \/ CollectResult
    BY <1>2, <1>4 DEF TakeResult, AlarmRings, WorkerExits, WriteResult, CollectResult,
                      harnessVars, graderVars, interactiveVars
  <1>5. CASE ContainerExits \/ ContainerDies \/ RunTimesOut
    BY <1>2, <1>3, <1>5 DEF ContainerExits, ContainerDies, RunTimesOut, Cleanup,
                            harnessVars, graderVars, interactiveVars
  <1> QED BY <1>1, <1>4, <1>5 DEF RunnerNext

\* The invariant of interactive tests.
LEMMA TestInvariant == Spec => []TestInv
  <1>1. Init => TestInv
    <2> SUFFICES ASSUME Init PROVE TestInv
      OBVIOUS
    <2>1. 1 \in 1 .. Tests /\ rows \in Seq(Row) /\ Len(rows) = 0
      BY ProcessAssumption DEF Init
    <2> QED BY <2>1 DEF Init, TestInv, SessionInv, ProcInv, DialogueInv, StrayInv
  <1>2. TestInv /\ [Next]_vars => TestInv'
    <2> SUFFICES ASSUME TestInv, [Next]_vars PROVE TestInv'
      OBVIOUS
    <2>1. CASE UNCHANGED vars
      BY <2>1 DEF vars, harnessVars, graderVars, interactiveVars, TestInv, SessionInv, ProcInv, Flagged,
                  DialogueInv, AcceptedCandidatesEnded, StrayInv, IsInteractive
    <2>2. ASSUME Runs(HarnessStep) PROVE TestInv'
      BY <2>2, HarnessKeepsProc, HarnessKeepsTest DEF Runs, TestInv
    <2>3. ASSUME RunnerNext PROVE TestInv'
      BY <2>3, RunnerKeepsProc, RunnerKeepsTest DEF TestInv
    <2> QED BY <2>1, <2>2, <2>3, TwoKindsOfSteps
  <1> QED BY <1>1, <1>2, PTL DEF Spec

\* AC of an interactive test means that the candidate ended by itself with
\* status 0, whatever the interactor returned and in whatever order interactor,
\* candidate and polls took their turns.
THEOREM AcceptanceNeedsAnExit == Spec => []AcceptedCandidatesEnded
  <1>1. TestInv => AcceptedCandidatesEnded
    BY DEF TestInv, DialogueInv, AcceptedCandidatesEnded
  <1> QED BY <1>1, TestInvariant, PTL

\* Candidates outlive their worker only in tests that timed out or ended the
\* evaluation.
THEOREM StraysComeFromTimeouts == Spec => []StraysAreTimeouts
  <1>1. TestInv => StraysAreTimeouts
    BY DEF TestInv, DialogueInv, StrayInv, StraysAreTimeouts
  <1> QED BY <1>1, TestInvariant, PTL

-----------------------------------------------------------------------------
(***************************************************************************)
(* Packages.  Until it is loaded, the package of an evaluation is the one  *)
(* that was registered; only a package the grader cannot read is blamed.   *)
(***************************************************************************)
Early == {"register", "queued", "load"}

PackageInv ==
    /\ stage \in Early => pkg \in Packages
    /\ stage \in {"queued", "load"} => Valid(pkg)
    /\ "package" \in faults => stage = "returned" /\ (Plain(pkg) => UnreadByValidator(pkg))

\* What a step of the graders may do to the package and to the blame.
Reads ==
    /\ "package" \in faults' => "package" \in faults \/ LoadFails
    /\ stage' \in Early => UNCHANGED <<pkg, stage>>

\* A question that validates loads, unless its choices are there and null.
LEMMA ValidQuestionLoads ==
    ASSUME NEW q, ValidQuestion(q), ~ q.nullChoices PROVE QuestionLoads(q)
  <1>1. CASE q.type = "single_choice"
    BY <1>1 DEF ValidQuestion, QuestionLoads, ChoiceTypes
  <1>2. CASE q.type = "multiple_choice"
    BY <1>2 DEF ValidQuestion, QuestionLoads, ChoiceTypes
  <1>3. CASE q.type = "free_text"
    BY <1>3 DEF ValidQuestion, QuestionLoads, ChoiceTypes
  <1> QED BY <1>1, <1>2, <1>3 DEF ValidQuestion, ChoiceTypes

\* Of one line, the first is the last.
LEMMA OneLine ==
    ASSUME NEW i \in Int PROVE First({i}) = i /\ Last({i}) = i
  <1>1. \E x \in {i} : \A j \in {i} : x <= j
    OBVIOUS
  <1>2. \E x \in {i} : \A j \in {i} : j <= x
    OBVIOUS
  <1>3. First({i}) \in {i}
    BY <1>1 DEF First
  <1>4. Last({i}) \in {i}
    BY <1>2 DEF Last
  <1> QED BY <1>3, <1>4

\* Every parser finds the same in a plain manifest, a default where it finds
\* nothing included.
LEMMA PlainReads ==
    ASSUME NEW m \in Packages, Plain(m), NEW key, NEW default
    PROVE  /\ ManifestField(m, key) = Get(m, key, NULL)
           /\ HarnessField(m, key) = Get(m, key, NULL)
           /\ Or(ManifestField(m, key), default) = Get(m, key, default)
           /\ Or(HarnessField(m, key), default) = Get(m, key, default)
           /\ Or(Get(m, key, NULL), default) = Get(m, key, default)
           /\ Get(m, key, default) = IF Get(m, key, NULL) = NULL THEN default ELSE Get(m, key, NULL)
  <1> DEFINE lines == m.lines
             is == {i \in DOMAIN lines : lines[i].key = key}
  <1>1. /\ Len(lines) \in Nat /\ DOMAIN lines = 1 .. Len(lines)
        /\ \A i \in DOMAIN lines : lines[i].value # NULL
    BY KindAssumption DEF KindAssumption
  <1>2. \A i \in DOMAIN lines : lines[i].exact /\ lines[i].value # Blank /\ lines[i].value # ""
    BY DEF Plain
  <1>3. \A i \in DOMAIN lines : ~ Swallowed(lines, i)
    <2> SUFFICES ASSUME NEW i \in DOMAIN lines, NEW k \in 1 .. i - 1,
                        \A j \in k .. i - 1 : lines[j].value = Blank
                 PROVE  FALSE
      BY DEF Swallowed
    <2>1. i \in Nat /\ k \in Nat /\ k \in DOMAIN lines /\ k \in k .. i - 1
      BY <1>1
    <2> QED BY <1>2, <2>1
  <1>4. /\ is = {i \in DOMAIN lines : lines[i].key = key /\ ~ Swallowed(lines, i)}
        /\ is = {i \in DOMAIN lines : lines[i].key = key /\ lines[i].exact}
    BY <1>2, <1>3
  <1>5. CASE is = {}
    BY <1>4, <1>5 DEF ManifestField, HarnessField, Get, Or
  <1>6. CASE is # {}
    <2>1. PICK i \in DOMAIN lines : lines[i].key = key
      BY <1>6
    <2>2. is = {i}
      BY <2>1 DEF Plain
    <2>3. First(is) = i /\ Last(is) = i
      BY <1>1, <2>2, OneLine
    <2>4. ManifestField(m, key) = lines[i].value
      BY <1>2, <1>4, <1>6, <2>3 DEF ManifestField
    <2>5. HarnessField(m, key) = lines[i].value
      BY <1>2, <1>6, <2>3 DEF HarnessField
    <2>6. \A d : Get(m, key, d) = lines[i].value
      BY <1>2, <1>4, <1>6, <2>3 DEF Get
    <2> QED BY <1>1, <1>2, <2>4, <2>5, <2>6 DEF Or
  <1> QED BY <1>5, <1>6

\* The kind is one of the values they all find.
LEMMA PlainKind ==
    ASSUME NEW m \in Packages, Plain(m) PROVE Get(m, "kind", "") = m.kind
  <1>1. PICK i \in DOMAIN m.lines : m.lines[i] = Line("kind", m.kind)
    BY KindAssumption DEF KindAssumption
  <1>2. i \in Int /\ m.lines[i].key = "kind" /\ m.lines[i].exact /\ m.lines[i].value = m.kind
    BY <1>1, KindAssumption DEF KindAssumption, Line
  <1>3. m.kind # Blank /\ {j \in DOMAIN m.lines : m.lines[j].key = "kind" /\ m.lines[j].exact} = {i}
    BY <1>1, <1>2 DEF Plain
  <1> QED BY <1>2, <1>3, OneLine DEF Get

\* The two readings of a plain manifest: what validate_task accepts, the _config
\* of its grader accepts too, but for the values the validator never looks at.
LEMMA ValidLoads ==
    ASSUME NEW m \in Packages, Plain(m), Valid(m), ~ Loads(m) PROVE UnreadByValidator(m)
  <1>0. /\ Get(m, "kind", "") = m.kind /\ m.kind \in Kinds
        /\ ManifestField(m, "version") = Get(m, "version", NULL)
        /\ ManifestField(m, "runner") = Get(m, "runner", NULL)
        /\ Or(ManifestField(m, "language"), "") = ClassicLanguage(m)
        /\ \A default : Get(m, "runner", default) =
                          IF Get(m, "runner", NULL) = NULL THEN default ELSE Get(m, "runner", NULL)
    BY PlainReads, PlainKind, PackagesAssumption DEF PackagesAssumption, ClassicLanguage
  <1>l. /\ ManifestField(m, "limits") = Get(m, "limits", NULL)
        /\ Get(m, "limits", "ok") = IF Get(m, "limits", NULL) = NULL THEN "ok" ELSE Get(m, "limits", NULL)
    BY PlainReads
  <1>b. /\ ManifestField(m, "baseline_enabled") = "true" <=> Get(m, "baseline_enabled", "false") = "true"
        /\ HarnessField(m, "baseline_enabled") = Get(m, "baseline_enabled", NULL)
        /\ Or(HarnessField(m, "baseline_enabled"), "false") = Get(m, "baseline_enabled", "false")
        /\ Or(ManifestField(m, "baseline_entrypoint"), "private/baseline.py")
             = Get(m, "baseline_entrypoint", "private/baseline.py")
        /\ Or(HarnessField(m, "baseline_entrypoint"), "private/baseline.py")
             = Get(m, "baseline_entrypoint", "private/baseline.py")
        /\ Or(Get(m, "baseline_entrypoint", NULL), "private/baseline.py")
             = Get(m, "baseline_entrypoint", "private/baseline.py")
    BY PlainReads, NullAssumption
  <1>1. CASE m.kind = "coding"
    <2>0. /\ Or(ManifestField(m, "answer_source"), "answer_key") = AnswerSource(m)
          /\ Or(ManifestField(m, "scoring_mode"), "all_or_nothing") = Get(m, "scoring_mode", "all_or_nothing")
          /\ Or(ManifestField(m, "reference_language"), ClassicLanguage(m))
               = Get(m, "reference_language", ClassicLanguage(m))
          /\ Or(ManifestField(m, "reference_entrypoint"), "private/reference.py")
               = Or(Get(m, "reference_entrypoint", NULL), "private/reference.py")
      BY PlainReads DEF AnswerSource
    <2>1. ValidClassic(m) /\ Get(m, "version", NULL) = "1" /\ ~ ClassicLoads(m)
      BY <1>0, <1>1 DEF Valid, ValidFrame, Loads
    <2>2. \A t \in DOMAIN m.files : AnswerSource(m) = "answer_key" => m.files[t] # {}
      <3>1. \A t \in DOMAIN m.files : AnswerSource(m) = "answer_key" => Cardinality(m.files[t]) = 1
        BY <2>0, <2>1 DEF ValidClassic, ValidAnswers
      <3> QED BY <3>1, FS_EmptySet
    <2>3. /\ ClassicLanguage(m) \in Known /\ AnswerSource(m) \in {"answer_key", "reference"}
          /\ Get(m, "scoring_mode", "all_or_nothing") \in {"all_or_nothing", "percentage"}
          /\ DOMAIN m.files # {}
      BY <1>0, <2>0, <2>1 DEF ValidClassic, ValidAnswers
    <2>4. Get(m, "runner", "right") = "right" /\ Get(m, "limits", "ok") = "ok"
      BY <1>0, <1>l, <2>1 DEF ValidClassic
    <2>5. AnswerSource(m) = "reference" =>
            /\ Get(m, "reference_language", ClassicLanguage(m)) \in Known
            /\ Or(Get(m, "reference_entrypoint", NULL), "private/reference.py") \in m.assets
      BY <1>0, <2>0, <2>1 DEF ValidClassic
    <2>6. Get(m, "reference_language", ClassicLanguage(m)) \notin Known
      BY <1>0, <1>1, <2>1, <2>2, <2>3, <2>4, <2>5 DEF ClassicLoads, ClassicConfigLoads
    <2> QED BY <1>1, <2>5, <2>6 DEF UnreadByValidator
  <1>2. CASE m.kind = "interactive"
    <2>0. Or(ManifestField(m, "interactor"), "interactor.py") = Get(m, "interactor", "interactor.py")
      BY PlainReads
    <2>1. ValidInteractive(m) /\ Get(m, "version", NULL) = "1" /\ ~ InteractiveLoads(m)
      BY <1>0, <1>2 DEF Valid, ValidFrame, Loads
    <2>2. /\ ClassicLanguage(m) \in Known /\ Get(m, "interactor", "interactor.py") \in m.assets
          /\ DOMAIN m.files # {}
      BY <1>0, <2>0, <2>1 DEF ValidInteractive
    <2>3. Get(m, "runner", "right") = "right" /\ Get(m, "limits", "ok") \in {"ok", "huge"}
      BY <1>0, <1>l, <2>1 DEF ValidInteractive
    <2> QED BY <1>0, <1>2, <2>1, <2>2, <2>3 DEF InteractiveLoads, ClassicConfigLoads, UnreadByValidator
  <1>3. CASE m.kind = "optimization"
    <2>0. /\ Or(ManifestField(m, "objective_direction"), "") = Get(m, "objective_direction", "")
          /\ Or(ManifestField(m, "score_mode"), "") = Get(m, "score_mode", "")
          /\ ManifestField(m, "score_mode") = "baseline_ratio" <=> Get(m, "score_mode", "") = "baseline_ratio"
          /\ Or(ManifestField(m, "aggregation"), "") = Get(m, "aggregation", "")
          /\ Or(ManifestField(m, "evaluator_entrypoint"), "private/evaluator.py")
               = Or(Get(m, "evaluator_entrypoint", NULL), "private/evaluator.py")
      BY PlainReads, NullAssumption
    <2>1. ValidOptimization(m) /\ Get(m, "version", NULL) = "1" /\ ~ OptimizationConfigLoads(m)
      BY <1>0, <1>3 DEF Valid, ValidFrame, Loads
    <2>2. /\ Get(m, "runner", "") = "right" /\ ClassicLanguage(m) \in Known /\ DOMAIN m.files # {}
          /\ Get(m, "objective_direction", "") \in {"maximize", "minimize"}
          /\ Get(m, "score_mode", "") \in {"checker_score", "baseline_ratio"}
          /\ Get(m, "aggregation", "") \in {"mean", "minimum", "geometric_mean"}
          /\ Or(Get(m, "evaluator_entrypoint", NULL), "private/evaluator.py") \in m.assets
      BY <1>0, <2>0, <2>1, NullAssumption DEF ValidOptimization
    <2>3. Get(m, "limits", "ok") = "ok"
      BY <1>l, <2>1 DEF ValidOptimization
    <2>4. /\ Get(m, "score_mode", "") = "baseline_ratio" => BaselineEnabled(m)
          /\ BaselineEnabled(m) => Or(Get(m, "baseline_entrypoint", NULL), "private/baseline.py") \in m.assets
      BY <1>b, <2>0, <2>1 DEF ValidOptimization, BaselineEnabled
    <2> QED BY <1>0, <1>3, <2>1, <2>2, <2>3, <2>4 DEF OptimizationConfigLoads
  <1>4. CASE m.kind = "quiz"
    <2>0. /\ Or(ManifestField(m, "scoring_mode"), "weighted") = Get(m, "scoring_mode", "weighted")
          /\ Or(ManifestField(m, "free_text_normalization"), "casefold_trim")
               = Get(m, "free_text_normalization", "casefold_trim")
          /\ Or(ManifestField(m, "answer_key"), AnswerKey) = Get(m, "answer_key", AnswerKey)
      BY PlainReads
    <2>1. ValidQuiz(m) /\ Get(m, "version", NULL) = "1" /\ ~ QuizConfigLoads(m)
      BY <1>0, <1>4 DEF Valid, ValidFrame, Loads
    <2>2. CASE \E n \in DOMAIN m.questions : m.questions[n].nullChoices
      BY <1>4, <2>2 DEF UnreadByValidator
    <2>3. CASE \A n \in DOMAIN m.questions : ~ m.questions[n].nullChoices
      <3>1. \A n \in DOMAIN m.questions : QuestionLoads(m.questions[n])
        BY <2>1, <2>3, ValidQuestionLoads DEF ValidQuiz
      <3>2. /\ Get(m, "runner", "") = "right" /\ Get(m, "answer_key", AnswerKey) = AnswerKey
            /\ Get(m, "scoring_mode", "weighted") \in {"weighted", "all_or_nothing"}
            /\ Get(m, "free_text_normalization", "casefold_trim") \in Normalizations
        BY <1>0, <2>0, <2>1, NullAssumption DEF ValidQuiz
      <3>3. Get(m, "submission_file", "inside") # "inside"
        BY <1>0, <1>4, <2>1, <3>1, <3>2 DEF ValidQuiz, QuizConfigLoads
      <3> QED BY <1>4, <3>3 DEF UnreadByValidator
    <2> QED BY <2>2, <2>3
  <1>5. CASE m.kind = "model"
    <2>1. ValidModel(m) /\ ~ ModelLoads(m)
      BY <1>5 DEF Valid, Loads
    <2>2. EnabledByHarness(m) => EnabledByValidator(m)
      BY <1>b DEF EnabledByHarness, EnabledByValidator
    <2> QED BY <1>b, <2>1, <2>2 DEF ValidModel, ModelLoads
  <1>6. CASE m.kind = "ioai"
    <2>1. ValidScorer(m) /\ ~ ScorerLoads(m)
      BY <1>6 DEF Valid, Loads
    <2> QED BY <2>1, FS_EmptySet DEF ValidScorer, ScorerLoads
  <1> QED BY <1>0, <1>1, <1>2, <1>3, <1>4, <1>5, <1>6 DEF Kinds

\* What Fail does to the blame.
LEMMA FailReads ==
    ASSUME NEW who, "package" \notin who, Fail(who) PROVE Reads
  BY DEF Fail, Return, Reads, Early

\* The classic grader and the author's code in the evaluator.
LEMMA ClassicReads ==
    ASSUME ClassicNext \/ LoadFails \/ RunScorer \/ RunChecker PROVE Reads
  <1>1. CASE LoadFails
    BY <1>1 DEF LoadFails, Fail, Return, Reads, Early
  <1>2. CASE LoadPackage
    BY <1>2, FailReads DEF LoadPackage, Escape, Goto, Reads, Early
  <1>3. CASE CompileReference \/ CompileSubmission
    BY <1>3, FailReads DEF CompileReference, CompileSubmission, BeginCompile, Goto, Reads, Early
  <1>4. CASE ReferenceCompiled \/ SubmissionCompiled
    BY <1>4, FailReads DEF ReferenceCompiled, SubmissionCompiled, EndCompile, Goto, Complete, Return, Reads, Early
  <1>5. CASE RunReference \/ RunTest \/ SetupRaises \/ ScoreTests
    BY <1>5, FailReads DEF RunReference, RunTest, SetupRaises, ScoreTests, Complete, Return, Reads, Early
  <1>6. CASE ReferenceEnds
    BY <1>6, FailReads DEF ReferenceEnds, Goto, Reads, Early
  <1>7. CASE TestEnds \/ CompareTokens
    BY <1>7 DEF TestEnds, CompareTokens, JudgeOutput, RecordRow, Goto, Reads, Early
  <1>8. CASE RunScorer \/ RunChecker
    BY <1>8, FailReads DEF RunScorer, RunChecker, JudgeOutput, RecordRow, Escape, Goto, Complete, Return, Reads, Early
  <1> QED BY <1>1, <1>2, <1>3, <1>4, <1>5, <1>6, <1>7, <1>8 DEF ClassicNext

\* The optimization grader.
LEMMA OptimizationReads ==
    ASSUME OptimizationNext PROVE Reads
  <1>1. CASE LoadOptimization
    BY <1>1, FailReads DEF LoadOptimization, Goto, Reads, Early
  <1>2. CASE CompileCandidate \/ CompileBaseline
    BY <1>2, FailReads DEF CompileCandidate, CompileBaseline, BeginCompile, Goto, Reads, Early
  <1>3. CASE CandidateCompiled \/ BaselineCompiled
    BY <1>3, FailReads DEF CandidateCompiled, BaselineCompiled, EndCompile, Goto, Complete, Return, Reads, Early
  <1>4. CASE RunSolution \/ ScoreInstances
    BY <1>4, FailReads DEF RunSolution, ScoreInstances, Complete, Return, Reads, Early
  <1>5. CASE BaselineEnds
    BY <1>5, FailReads DEF BaselineEnds, Goto, Reads, Early
  <1>6. CASE SolutionEnds
    BY <1>6 DEF SolutionEnds, RecordRow, Goto, Reads, Early
  <1>7. ASSUME NEW e \in Evaluations, EvaluateBaseline(e) PROVE Reads
    BY <1>7, FailReads DEF EvaluateBaseline, Goto, Reads, Early
  <1>8. ASSUME NEW e \in Evaluations, EvaluateOutput(e) PROVE Reads
    BY <1>8, FailReads DEF EvaluateOutput, RecordRow, Reads, Early
  <1> QED BY <1>1, <1>2, <1>3, <1>4, <1>5, <1>6, <1>7, <1>8 DEF OptimizationNext

\* The interactive grader, its worker and their programs.
LEMMA InteractiveReads ==
    ASSUME \/ InteractiveNext \/ WorkerNext \/ InteractorNext \/ CandidateNext
           \/ \E t \in strays : StrayEnds(t)
    PROVE  Reads
  <1>1. CASE LoadInteractive \/ StartWorker \/ ScoreInteraction
    BY <1>1, FailReads DEF LoadInteractive, StartWorker, ScoreInteraction, Goto, Complete, Return, Reads, Early
  <1>2. CASE WorkerEnds
    BY <1>2, FailReads DEF WorkerEnds, RecordRow, Reads, Early
  <1>3. CASE UNCHANGED <<pkg, stage, faults>>
    BY <1>3 DEF Reads
  <1>4. CASE WorkerNext
    BY <1>3, <1>4 DEF WorkerNext, SetUpSession, CompilerEnds, StartCandidate, Send, Receive, CloseSession,
                      PrintReply, WorkerStep, graderVars
  <1>5. CASE InteractorNext
    <2>1. ASSUME NEW what, InteractorTalks(what) PROVE Reads
      BY <1>3, <2>1 DEF InteractorTalks, WorkerStep, graderVars
    <2>2. ASSUME NEW verdict, NEW score, InteractorReturns(verdict, score) PROVE Reads
      BY <1>3, <2>2 DEF InteractorReturns, WorkerStep, graderVars
    <2>3. CASE \/ \E verdict \in {"RE", "TLE", "OLE"} : InteractorMisbehaves(verdict)
               \/ InteractorRaises \/ WorkerDies \/ WorkerComplains
      BY <1>3, <2>3 DEF InteractorMisbehaves, InteractorRaises, WorkerDies, WorkerComplains, Reads
    <2>4. ASSUME NEW rc, InteractorExits(rc) PROVE Reads
      BY <1>3, <2>4 DEF InteractorExits, Reads
    <2> QED BY <1>5, <2>1, <2>2, <2>3, <2>4 DEF InteractorNext
  <1>6. CASE CandidateNext \/ \E t \in strays : StrayEnds(t)
    BY <1>3, <1>6 DEF CandidateNext, CandidateReads, CandidateWrites, CandidateLeaves, CandidateStep,
                      WorkerStep, StrayEnds, graderVars
  <1> QED BY <1>1, <1>2, <1>4, <1>5, <1>6 DEF InteractiveNext

\* Every step of the harness.
LEMMA HarnessReads ==
    ASSUME HarnessStep PROVE Reads
  <1>1. CASE QuizNext
    <2>1. CASE LoadQuiz \/ ScoreQuiz
      BY <2>1 DEF LoadQuiz, ScoreQuiz, InvalidSubmission, Goto, Complete, Return, Reads, Early
    <2>2. ASSUME NEW a, AnswerQuestion(a) PROVE Reads
      BY <2>2 DEF AnswerQuestion, InvalidSubmission, Goto, Return, Reads, Early
    <2> QED BY <1>1, <2>1, <2>2 DEF QuizNext
  <1>2. CASE ModelNext
    <2>1. CASE LoadModel \/ PhaseFails
      BY <2>1, FailReads DEF LoadModel, PhaseFails, PhaseOwner, Goto, Reads, Early
    <2>2. ASSUME NEW took, StagePhase(took) PROVE Reads
      BY <2>2, FailReads DEF StagePhase, graderVars, Reads
    <2>3. ASSUME NEW d, NEW score, PhaseEnds(d, score) PROVE Reads
      BY <2>3 DEF PhaseEnds, Complete, Return, graderVars, Reads, Early
    <2> QED BY <1>2, <2>1, <2>2, <2>3 DEF ModelNext
  <1>3. CASE Poll \/ ChildWrites \/ ChildComplains \/ \E rc \in {0, 1} : ChildExits(rc)
    BY <1>3 DEF Poll, ChildWrites, ChildComplains, ChildExits, Reads
  <1> QED
    BY <1>1, <1>2, <1>3, ClassicReads, OptimizationReads, InteractiveReads
    DEF HarnessStep, JudgeStep, PollStep, ChildStep, AuthorStep

\* The runners register and open; they blame nobody.
LEMMA RunnerReads ==
    ASSUME PackageInv, RunnerNext PROVE PackageInv'
  <1>1. CASE Register
    BY <1>1 DEF Register, Goto, PackageInv, Early
  <1>2. CASE OpenSandbox
    BY <1>2 DEF OpenSandbox, Goto, PackageInv, Early
  <1>3. CASE UNCHANGED <<pkg, stage, faults>>
    BY <1>3 DEF PackageInv
  <1> QED
    BY <1>1, <1>2, <1>3
    DEF RunnerNext, TakeResult, AlarmRings, WorkerExits, WriteResult, ContainerExits, ContainerDies,
        RunTimesOut, Cleanup, CollectResult, harnessVars, graderVars

\* The invariant of packages.
LEMMA PackageInvariant == Spec => []PackageInv
  <1>1. Init => PackageInv
    BY DEF Init, PackageInv, Early
  <1>2. PackageInv /\ [Next]_vars => PackageInv'
    <2> SUFFICES ASSUME PackageInv, [Next]_vars PROVE PackageInv'
      OBVIOUS
    <2>1. CASE UNCHANGED vars
      BY <2>1 DEF vars, harnessVars, graderVars, PackageInv
    <2>2. ASSUME Runs(HarnessStep) PROVE PackageInv'
      <3>1. Reads /\ "package" \notin faults
        BY <2>2, HarnessReads DEF Runs, PackageInv
      <3>2. CASE LoadFails
        <4>1. stage = "load" /\ stage' = "returned" /\ pkg' = pkg /\ ~ Loads(pkg)
          BY <3>2 DEF LoadFails, Fail, Return
        <4>2. Plain(pkg) => UnreadByValidator(pkg)
          BY <4>1, ValidLoads DEF PackageInv, Early
        <4> QED BY <4>1, <4>2 DEF PackageInv, Early
      <3>3. CASE ~ LoadFails
        BY <3>1, <3>3 DEF Reads, PackageInv, Early
      <3> QED BY <3>2, <3>3
    <2> QED BY <2>1, <2>2, TwoKindsOfSteps, RunnerReads
  <1> QED BY <1>1, <1>2, PTL DEF Spec

\* An evaluation that fails because a package with a plain manifest cannot be
\* read has one of the values validate_task never looks at: every other such
\* package that was registered is read by its grader, with another parser.
THEOREM RegisteredPackagesAreRead == Spec => []ValidatedPackagesLoad
  <1>1. PackageInv => ValidatedPackagesLoad
    BY DEF PackageInv, ValidatedPackagesLoad
  <1> QED BY <1>1, PackageInvariant, PTL

-----------------------------------------------------------------------------
(***************************************************************************)
(* Model evaluations.  The budget of a registered package covers all its   *)
(* phases, so what is left of it at the start of a phase covers the limits *)
(* of the phases to come, as long as the time spent is at most what the    *)
(* phases before were allowed and what was staged.                         *)
(***************************************************************************)
ModelState ==
    [solution : {"baseline", "participant"}, phase : Phases, split : {1, 2}, spent : Nat, staged : Nat,
     timeout : Nat \cup {NULL}]

\* A loaded configuration whose declared time covers its phases, if its manifest
\* was plain.
Funded(p) ==
    /\ p.limits \in Limits /\ p.splits \in {1, 2} /\ p.baseline \in BOOLEAN /\ p.declared \in Nat
    /\ p.plain => p.declared >= Solutions(p.baseline) * PhaseTime(p.limits, p.splits) + PhaseSlack

\* The limits of the phases before the one s is at.
Before(p, s) ==
    (IF s.solution = "participant" /\ p.baseline THEN PhaseTime(p.limits, p.splits) ELSE 0)
    + CASE s.phase = "train" -> 0
        [] s.phase = "predict" -> p.limits.train + (s.split - 1) * p.limits.predict
        [] s.phase = "evaluate" ->
             p.limits.train + p.splits * p.limits.predict + (s.split - 1) * p.limits.evaluate

\* Where an evaluation can be.
InOrder(p, s) ==
    /\ s \in ModelState /\ s.split <= p.splits
    /\ s.phase = "train" => s.split = 1
    /\ s.solution = "baseline" => p.baseline

PhaseInv ==
    IsModel /\ stage = "phase" =>
        /\ Funded(pkg) /\ InOrder(pkg, ml)
        /\ ml.spent <= ml.staged + Before(pkg, ml)
        /\ ml.timeout # NULL => ml.timeout <= pkg.limits[ml.phase]
        /\ PhasesGetTheirLimit

\* The limits before a phase, its own and the rest together make the total.
LEMMA PhasesAddUp ==
    ASSUME NEW p, NEW s, Funded(p), InOrder(p, s)
    PROVE  /\ Before(p, s) \in Nat /\ p.limits[s.phase] \in Nat
           /\ Solutions(p.baseline) * PhaseTime(p.limits, p.splits) \in Nat
           /\ Before(p, s) + p.limits[s.phase] <= Solutions(p.baseline) * PhaseTime(p.limits, p.splits)
  <1>1. /\ p.limits.train \in Nat /\ p.limits.predict \in Nat /\ p.limits.evaluate \in Nat
        /\ p.baseline \in BOOLEAN /\ p.splits \in {1, 2}
    BY DEF Funded, Limits
  <1>2. s.phase \in {"train", "predict", "evaluate"} /\ s.split \in {1, 2} /\ s.split <= p.splits
        /\ s.solution \in {"baseline", "participant"}
    BY DEF InOrder, ModelState, Phases
  <1>3. CASE p.splits = 1
    <2>1. s.split = 1
      BY <1>2, <1>3
    <2>2. PhaseTime(p.limits, p.splits) = p.limits.train + p.limits.predict + p.limits.evaluate
      BY <1>1, <1>3 DEF PhaseTime
    <2> QED BY <1>1, <1>2, <1>3, <2>1, <2>2 DEF Before, Solutions, InOrder
  <1>4. CASE p.splits = 2
    <2>1. PhaseTime(p.limits, p.splits) =
            p.limits.train + p.limits.predict + p.limits.predict + p.limits.evaluate + p.limits.evaluate
      BY <1>1, <1>4 DEF PhaseTime
    <2>2. CASE s.split = 1
      <3>1. CASE p.baseline
        <4>1. CASE s.phase = "train"
          BY <1>1, <1>2, <1>4, <2>1, <2>2, <3>1, <4>1 DEF Before, Solutions
        <4>2. CASE s.phase = "predict"
          BY <1>1, <1>2, <1>4, <2>1, <2>2, <3>1, <4>2 DEF Before, Solutions
        <4>3. CASE s.phase = "evaluate"
          BY <1>1, <1>2, <1>4, <2>1, <2>2, <3>1, <4>3 DEF Before, Solutions
        <4> QED BY <1>2, <4>1, <4>2, <4>3
      <3>2. CASE ~ p.baseline
        BY <1>1, <1>2, <1>4, <2>1, <2>2, <3>2 DEF Before, Solutions
      <3> QED BY <3>1, <3>2
    <2>3. CASE s.split = 2
      BY <1>1, <1>2, <1>4, <2>1, <2>3 DEF Before, Solutions, InOrder
    <2> QED BY <1>2, <2>2, <2>3
  <1> QED BY <1>1, <1>3, <1>4

\* The budget is what was calculated.
LEMMA BudgetIsCalculated ==
    ASSUME Funded(pkg)
    PROVE  /\ ModelBudget \in Nat
           /\ pkg.plain =>
                ModelBudget = Solutions(pkg.baseline) * PhaseTime(pkg.limits, pkg.splits) + PhaseSlack
  <1>1. PhaseTime(pkg.limits, pkg.splits) \in Nat
    BY DEF Funded, Limits, PhaseTime
  <1> QED BY <1>1, PackagesAssumption DEF Funded, ModelBudget, Solutions, PackagesAssumption

\* A registered package is funded once it is loaded.
LEMMA ValidIsFunded ==
    ASSUME NEW m \in Packages, m.kind = "model", Valid(m), m.host.profile = "post" => m.post # NULL
    PROVE  Funded(ModelConfig(m))
  <1> DEFINE enabled == EnabledByValidator(m)
             c == ModelConfig(m)
  <1>1. /\ m.limits \in Limits /\ m.post \in Limits \cup {NULL} /\ m.declared \in Nat
        /\ m.host.profile \in {"live", "post"} /\ PhaseSlack \in Nat
    BY PackagesAssumption DEF PackagesAssumption
  <1>2. /\ m.declared >= Solutions(enabled) * PhaseTime(m.limits, IF m.public THEN 2 ELSE 1) + PhaseSlack
        /\ m.post # NULL => m.declared >= Solutions(enabled) * PhaseTime(m.post, 1) + PhaseSlack
    BY DEF Valid, ValidModel
  <1>3. /\ c.limits = (IF m.host.profile = "live" THEN m.limits ELSE m.post)
        /\ c.splits = (IF m.host.profile = "live" /\ m.public THEN 2 ELSE 1)
        /\ c.baseline = EnabledByHarness(m) /\ c.declared = m.declared /\ c.plain = Plain(m)
    BY DEF ModelConfig
  <1>4. c.limits \in Limits /\ c.splits \in {1, 2} /\ c.baseline \in BOOLEAN
    BY <1>1, <1>3 DEF EnabledByHarness
  <1>5. m.declared >= Solutions(enabled) * PhaseTime(c.limits, c.splits) + PhaseSlack
    BY <1>1, <1>2, <1>3
  <1>6. PhaseTime(c.limits, c.splits) \in Nat
    BY <1>4 DEF Limits, PhaseTime
  <1>7. /\ {Solutions(c.baseline), Solutions(enabled)} \subseteq {1, 2}
        /\ Plain(m) => Solutions(c.baseline) <= Solutions(enabled)
    <2>1. Solutions(enabled) \in {1, 2} /\ Solutions(c.baseline) \in {1, 2}
      BY DEF Solutions
    <2>2. ASSUME Plain(m) PROVE Solutions(c.baseline) <= Solutions(enabled)
      <3>1. /\ Or(HarnessField(m, "baseline_enabled"), "false") = Get(m, "baseline_enabled", "false")
            /\ ManifestField(m, "baseline_enabled") = "true" <=> Get(m, "baseline_enabled", "false") = "true"
        BY <2>2, PlainReads, NullAssumption
      <3>2. EnabledByHarness(m) => enabled
        BY <3>1 DEF EnabledByHarness, EnabledByValidator
      <3>3. ~ EnabledByHarness(m) => Solutions(c.baseline) = 1
        BY <1>3, <1>4 DEF Solutions
      <3>4. enabled => Solutions(enabled) = 2
        BY DEF Solutions
      <3> QED BY <2>1, <3>2, <3>3, <3>4
    <2> QED BY <2>1, <2>2
  <1>8. Plain(m) =>
          Solutions(c.baseline) * PhaseTime(c.limits, c.splits) <= Solutions(enabled) * PhaseTime(c.limits, c.splits)
    BY <1>6, <1>7
  <1>9. {Solutions(c.baseline) * PhaseTime(c.limits, c.splits),
         Solutions(enabled) * PhaseTime(c.limits, c.splits)} \subseteq Nat
    BY <1>6, <1>7
  <1> HIDE DEF enabled, c
  <1>10. Plain(m) => m.declared >= Solutions(c.baseline) * PhaseTime(c.limits, c.splits) + PhaseSlack
    BY <1>1, <1>5, <1>8, <1>9
  <1> QED BY <1>1, <1>3, <1>4, <1>10 DEF Funded, c

\* The first phase of either solution.
LEMMA StartInOrder ==
    ASSUME NEW p, Funded(p), NEW solution \in {"baseline", "participant"}, solution = "baseline" => p.baseline
    PROVE  InOrder(p, StartOf(solution))
  BY DEF Funded, InOrder, StartOf, ModelState, Phases

\* LoadModel starts within the budget.
LEMMA LoadKeepsPhases ==
    ASSUME PackageInv, LoadModel PROVE PhaseInv'
  <1>1. CASE stage' = "returned"
    BY <1>1 DEF PhaseInv
  <1>2. CASE /\ pkg.host.profile = "post" => pkg.post # NULL
             /\ pkg' = ModelConfig(pkg)
             /\ ml' = StartOf(IF pkg'.baseline THEN "baseline" ELSE "participant")
    <2>1. Funded(pkg')
      BY <1>2, ValidIsFunded DEF LoadModel, IsModel, PackageInv, Early
    <2>2. InOrder(pkg', ml')
      <3>1. pkg'.baseline \in BOOLEAN
        BY <2>1 DEF Funded
      <3>2. CASE pkg'.baseline
        BY <1>2, <2>1, <3>2, StartInOrder
      <3>3. CASE ~ pkg'.baseline
        BY <1>2, <2>1, <3>3, StartInOrder
      <3> QED BY <3>1, <3>2, <3>3
    <2>3. ml'.spent = 0 /\ ml'.staged = 0 /\ ml'.timeout = NULL
      BY <1>2 DEF StartOf
    <2>4. Before(pkg', ml') \in Nat
      BY <2>1, <2>2, PhasesAddUp
    <2>5. ml'.spent <= ml'.staged + Before(pkg', ml')
      BY <2>3, <2>4
    <2> QED BY <2>1, <2>2, <2>3, <2>5 DEF PhaseInv, PhasesGetTheirLimit
  <1> QED BY <1>1, <1>2 DEF LoadModel, Fail, Return

\* The time limit of a phase comes out of what is left.
LEMMA StageKeepsPhases ==
    ASSUME PhaseInv, NEW took \in {0, 1}, StagePhase(took) PROVE PhaseInv'
  <1> DEFINE left == ModelBudget - (ml.spent + took)
             limit == pkg.limits[ml.phase]
  <1>1. CASE stage' = "returned"
    BY <1>1 DEF PhaseInv
  <1>2. CASE /\ ~ (left <= 0) /\ UNCHANGED graderVars
             /\ ml' = [ml EXCEPT !.spent = ml.spent + took, !.staged = @ + took,
                                 !.timeout = IF limit < left THEN limit ELSE left]
    <2>1. /\ IsModel /\ stage = "phase" /\ Funded(pkg) /\ InOrder(pkg, ml)
          /\ ml.spent <= ml.staged + Before(pkg, ml)
      BY DEF StagePhase, PhaseInv
    <2>2. pkg' = pkg /\ stage' = stage
      BY <1>2 DEF graderVars
    <2>3. ml \in ModelState /\ ml.spent \in Nat /\ ml.staged \in Nat
      BY <2>1 DEF InOrder, ModelState
    <2>4. /\ Before(pkg, ml) \in Nat /\ limit \in Nat
          /\ Solutions(pkg.baseline) * PhaseTime(pkg.limits, pkg.splits) \in Nat
          /\ Before(pkg, ml) + limit <= Solutions(pkg.baseline) * PhaseTime(pkg.limits, pkg.splits)
      BY <2>1, PhasesAddUp
    <2>5. /\ pkg.plain =>
               ModelBudget = Solutions(pkg.baseline) * PhaseTime(pkg.limits, pkg.splits) + PhaseSlack
          /\ PhaseSlack \in Nat
      BY <2>1, BudgetIsCalculated, PackagesAssumption DEF PackagesAssumption
    <2>6. /\ ml'.spent = ml.spent + took /\ ml'.staged = ml.staged + took
          /\ ml'.timeout = (IF limit < left THEN limit ELSE left)
          /\ ml'.phase = ml.phase /\ ml'.split = ml.split /\ ml'.solution = ml.solution
      BY <1>2, <2>3 DEF ModelState
    <2>7. ModelBudget \in Nat
      BY <2>1, BudgetIsCalculated
    <2>8. ml'.timeout \in Nat
      BY <1>2, <2>3, <2>4, <2>6, <2>7
    <2>9. InOrder(pkg, ml')
      <3>1. ml' \in ModelState
        <4>1. ASSUME NEW a \in Nat, NEW b \in Nat, NEW c \in Nat
              PROVE  [ml EXCEPT !.spent = a, !.staged = b, !.timeout = c] \in ModelState
          BY <2>3 DEF ModelState
        <4>2. ml' = [ml EXCEPT !.spent = ml'.spent, !.staged = ml'.staged, !.timeout = ml'.timeout]
          BY <1>2, <2>6
        <4>3. ml'.spent \in Nat /\ ml'.staged \in Nat
          BY <2>3, <2>6
        <4>4. [ml EXCEPT !.spent = ml'.spent, !.staged = ml'.staged, !.timeout = ml'.timeout] \in ModelState
          BY <2>8, <4>1, <4>3
        <4> QED BY <4>2, <4>4
      <3> QED BY <2>1, <2>6, <3>1 DEF InOrder
    <2>10. Before(pkg, ml') = Before(pkg, ml)
      BY <2>6 DEF Before
    <2>11. ml'.spent <= ml'.staged + Before(pkg, ml')
      BY <2>1, <2>3, <2>4, <2>6, <2>10
    <2> HIDE DEF left, limit
    <2>12. ml'.timeout <= limit
      BY <2>3, <2>4, <2>6, <2>7 DEF left
    <2>13. ml'.spent + ml'.timeout <= ModelBudget
      BY <2>3, <2>4, <2>6, <2>7 DEF left
    <2>14. pkg.plain /\ ml'.staged <= PhaseSlack => ml'.timeout = limit
      BY <2>3, <2>4, <2>5, <2>6, <2>7, <2>10, <2>11 DEF left
    <2>15. ModelBudget' = ModelBudget
      BY <2>2 DEF ModelBudget
    <2>16. limit = pkg'.limits[ml'.phase]
      BY <2>2, <2>6 DEF limit
    <2> QED
      BY <2>1, <2>2, <2>9, <2>11, <2>12, <2>13, <2>14, <2>15, <2>16 DEF PhaseInv, PhasesGetTheirLimit
  <1> QED BY <1>1, <1>2 DEF StagePhase, Fail, Return

\* The next phase has the limit of the last one more behind it.
LEMMA NextInOrder ==
    ASSUME Funded(pkg), InOrder(pkg, ml), ml.timeout \in Nat, ml.timeout <= pkg.limits[ml.phase], ~ LastPhase,
           ml.spent <= ml.staged + Before(pkg, ml), NEW d \in 0 .. ml.timeout
    PROVE  LET next == NextPhase(d) IN
           /\ InOrder(pkg, next) /\ next.timeout = NULL
           /\ next.spent <= next.staged + Before(pkg, next)
  <1> DEFINE next == NextPhase(d)
             L == pkg.limits
  <1>1. L.train \in Nat /\ L.predict \in Nat /\ L.evaluate \in Nat /\ pkg.splits \in {1, 2} /\ pkg.baseline \in BOOLEAN
    BY DEF Funded, Limits
  <1>2. /\ ml \in ModelState /\ ml.phase \in Phases /\ ml.split \in {1, 2} /\ ml.split <= pkg.splits
        /\ ml.spent \in Nat /\ ml.staged \in Nat /\ Before(pkg, ml) \in Nat /\ L[ml.phase] \in Nat
    BY PhasesAddUp DEF InOrder, ModelState
  <1>3. ml.spent + d \in Nat /\ ml.spent + d <= ml.staged + (Before(pkg, ml) + L[ml.phase])
    BY <1>2
  <1> DEFINE done == [ml EXCEPT !.spent = @ + d, !.timeout = NULL]
  <1>d. /\ done \in ModelState /\ done.spent = ml.spent + d /\ done.staged = ml.staged /\ done.timeout = NULL
        /\ done.phase = ml.phase /\ done.split = ml.split /\ done.solution = ml.solution
    BY <1>2, <1>3 DEF ModelState
  <1>n. /\ ml.phase = "train" => next = [done EXCEPT !.phase = "predict"]
        /\ ml.phase # "train" /\ ml.split < pkg.splits => next = [done EXCEPT !.split = @ + 1]
        /\ ml.phase = "predict" /\ ~ (ml.split < pkg.splits) => next = [done EXCEPT !.phase = "evaluate", !.split = 1]
        /\ ml.phase = "evaluate" /\ ~ (ml.split < pkg.splits) =>
             next = [StartOf("participant") EXCEPT !.spent = done.spent, !.staged = done.staged]
    BY DEF NextPhase
  <1> HIDE DEF done, next
  <1>4. CASE ml.phase = "train"
    <2>1. /\ next \in ModelState /\ next.timeout = NULL /\ next.spent = ml.spent + d /\ next.staged = ml.staged
          /\ next.phase = "predict" /\ next.split = ml.split /\ next.solution = ml.solution
      BY <1>4, <1>d, <1>n DEF ModelState, Phases
    <2>2. InOrder(pkg, next)
      BY <2>1 DEF InOrder
    <2>3. Before(pkg, next) = Before(pkg, ml) + L[ml.phase]
      BY <1>1, <1>2, <1>4, <2>1 DEF Before, PhaseTime, InOrder
    <2> QED BY <1>3, <2>1, <2>2, <2>3 DEF next
  <1>5. CASE ml.phase # "train" /\ ml.split < pkg.splits
    <2>0. pkg.splits = 2 /\ ml.split = 1
      BY <1>1, <1>2, <1>5
    <2>1. /\ next \in ModelState /\ next.timeout = NULL /\ next.spent = ml.spent + d /\ next.staged = ml.staged
          /\ next.phase = ml.phase /\ next.split = 2 /\ next.solution = ml.solution
      <3>1. next = [done EXCEPT !.split = 2]
        BY <1>5, <1>d, <1>n, <2>0
      <3> QED BY <1>d, <3>1 DEF ModelState
    <2>2. InOrder(pkg, next)
      BY <1>5, <2>0, <2>1 DEF InOrder
    <2>3. Before(pkg, next) = Before(pkg, ml) + L[ml.phase]
      BY <1>1, <1>2, <1>5, <2>0, <2>1 DEF Before, PhaseTime, Phases
    <2> QED BY <1>3, <2>1, <2>2, <2>3 DEF next
  <1>6. CASE ml.phase = "predict" /\ ~ (ml.split < pkg.splits)
    <2>0. ml.split = pkg.splits
      BY <1>1, <1>2, <1>6
    <2>1. /\ next \in ModelState /\ next.timeout = NULL /\ next.spent = ml.spent + d /\ next.staged = ml.staged
          /\ next.phase = "evaluate" /\ next.split = 1 /\ next.solution = ml.solution
      BY <1>6, <1>d, <1>n DEF ModelState, Phases
    <2>2. InOrder(pkg, next)
      BY <1>1, <2>1 DEF InOrder
    <2>3. Before(pkg, next) = Before(pkg, ml) + L[ml.phase]
      BY <1>1, <1>2, <1>6, <2>0, <2>1 DEF Before, PhaseTime
    <2> QED BY <1>3, <2>1, <2>2, <2>3 DEF next
  <1>7. CASE ml.phase = "evaluate" /\ ~ (ml.split < pkg.splits)
    <2>0. ml.split = pkg.splits /\ ml.solution = "baseline" /\ pkg.baseline
      BY <1>1, <1>2, <1>7 DEF LastPhase, InOrder, ModelState
    <2>1. /\ next \in ModelState /\ next.timeout = NULL /\ next.spent = ml.spent + d /\ next.staged = ml.staged
          /\ next.phase = "train" /\ next.split = 1 /\ next.solution = "participant"
      <3>1. done.spent \in Nat /\ done.staged \in Nat
        BY <1>d DEF ModelState
      <3> QED BY <1>7, <1>d, <1>n, <3>1 DEF ModelState, Phases, StartOf
    <2>2. InOrder(pkg, next)
      BY <1>1, <2>1 DEF InOrder
    <2>3. Before(pkg, next) = Before(pkg, ml) + L[ml.phase]
      BY <1>1, <1>2, <1>7, <2>0, <2>1 DEF Before, PhaseTime
    <2> QED BY <1>3, <2>1, <2>2, <2>3 DEF next
  <1> QED BY <1>2, <1>4, <1>5, <1>6, <1>7 DEF Phases

\* The end of a phase.
LEMMA EndKeepsPhases ==
    ASSUME PhaseInv, NEW d \in 0 .. ml.timeout, NEW score, PhaseEnds(d, score) PROVE PhaseInv'
  <1>1. CASE stage' = "returned"
    BY <1>1 DEF PhaseInv
  <1>2. CASE ~ LastPhase /\ ml' = NextPhase(d) /\ UNCHANGED graderVars
    <2>1. /\ IsModel /\ stage = "phase" /\ Funded(pkg) /\ InOrder(pkg, ml) /\ ml.timeout # NULL
          /\ ml.spent <= ml.staged + Before(pkg, ml) /\ ml.timeout <= pkg.limits[ml.phase]
      BY DEF PhaseEnds, PhaseInv
    <2>2. ml.timeout \in Nat
      BY <2>1 DEF InOrder, ModelState
    <2>3. InOrder(pkg, ml') /\ ml'.timeout = NULL /\ ml'.spent <= ml'.staged + Before(pkg, ml')
      BY <1>2, <2>1, <2>2, NextInOrder
    <2>4. pkg' = pkg /\ stage' = stage
      BY <1>2 DEF graderVars
    <2> QED BY <2>1, <2>3, <2>4 DEF PhaseInv, PhasesGetTheirLimit
  <1> QED BY <1>1, <1>2 DEF PhaseEnds, Complete, Return

\* Steps that leave the package, the stage and the phases alone.
LEMMA PhasesStay ==
    ASSUME PhaseInv, UNCHANGED <<pkg, stage, ml>> PROVE PhaseInv'
  BY DEF PhaseInv, PhasesGetTheirLimit, ModelBudget, IsModel

\* The programs of an interactive test and the children of the graders.
LEMMA ChildrenKeepPhases ==
    ASSUME PhaseInv, PollStep \/ ChildStep \/ (WorkerNext /\ UNCHANGED ml) PROVE PhaseInv'
  <1>1. CASE PollStep
    BY <1>1, PhasesStay DEF PollStep, Poll
  <1>2. CASE /\ ~ IsInteractive /\ UNCHANGED <<baseline, interactiveVars, ml>>
             /\ ChildWrites \/ ChildComplains \/ \E rc \in {0, 1} : ChildExits(rc)
    BY <1>2, PhasesStay DEF ChildWrites, ChildComplains, ChildExits
  <1>3. CASE WorkerNext /\ UNCHANGED ml
    BY <1>3, PhasesStay DEF WorkerNext, SetUpSession, CompilerEnds, StartCandidate, Send, Receive, CloseSession,
                            PrintReply, WorkerStep, graderVars
  <1>4. CASE InteractorNext /\ UNCHANGED ml
    <2>1. ASSUME NEW what, InteractorTalks(what) PROVE PhaseInv'
      BY <1>4, <2>1, PhasesStay DEF InteractorTalks, WorkerStep, graderVars
    <2>2. ASSUME NEW verdict, NEW score, InteractorReturns(verdict, score) PROVE PhaseInv'
      BY <1>4, <2>2, PhasesStay DEF InteractorReturns, WorkerStep, graderVars
    <2>3. CASE \/ \E verdict \in {"RE", "TLE", "OLE"} : InteractorMisbehaves(verdict)
               \/ InteractorRaises \/ WorkerDies \/ WorkerComplains
      BY <1>4, <2>3, PhasesStay DEF InteractorMisbehaves, InteractorRaises, WorkerDies, WorkerComplains
    <2>4. ASSUME NEW rc, InteractorExits(rc) PROVE PhaseInv'
      BY <1>4, <2>4, PhasesStay DEF InteractorExits
    <2> QED BY <1>4, <2>1, <2>2, <2>3, <2>4 DEF InteractorNext
  <1>5. CASE (CandidateNext \/ \E t \in strays : StrayEnds(t)) /\ UNCHANGED ml
    BY <1>5, PhasesStay DEF CandidateNext, CandidateReads, CandidateWrites, CandidateLeaves, CandidateStep,
                            WorkerStep, StrayEnds, graderVars
  <1> QED BY <1>1, <1>2, <1>3, <1>4, <1>5 DEF ChildStep

\* Every step of the harness.
LEMMA HarnessKeepsPhases ==
    ASSUME PackageInv, PhaseInv, HarnessStep PROVE PhaseInv'
  <1>1. CASE ModelNext
    <2>1. CASE LoadModel
      BY <2>1, LoadKeepsPhases
    <2>2. CASE PhaseFails
      BY <2>2 DEF PhaseFails, Fail, Return, PhaseInv
    <2>3. ASSUME NEW took \in {0, 1}, StagePhase(took) PROVE PhaseInv'
      BY <2>3, StageKeepsPhases
    <2>4. ASSUME NEW d \in IF IsModel /\ stage = "phase" /\ ml.timeout # NULL THEN 0 .. ml.timeout ELSE {},
                 NEW score \in Numbers, PhaseEnds(d, score)
          PROVE  PhaseInv'
      <3>1. d \in 0 .. ml.timeout
        BY <2>4 DEF PhaseEnds
      <3> QED BY <2>4, <3>1, EndKeepsPhases
    <2> QED BY <1>1, <2>1, <2>2, <2>3, <2>4 DEF ModelNext
  <1>2. CASE LoadFails
    BY <1>2 DEF LoadFails, Fail, Return, PhaseInv
  <1>3. CASE ~ IsModel
    BY <1>3, HarnessKeepsPackage DEF SamePackage, IsModel, PhaseInv
  <1>4. CASE PollStep \/ ChildStep \/ (WorkerNext /\ UNCHANGED ml)
    BY <1>4, ChildrenKeepPhases
  <1> QED
    BY <1>1, <1>2, <1>3, <1>4, OneGraderPerKind
    DEF HarnessStep, JudgeStep, AuthorStep, IsClassic, IsQuiz, IsOptimization, IsModel, IsScorer, IsInteractive

\* The runners do not touch the phases, and none of their steps leads to one.
LEMMA RunnerKeepsPhases ==
    ASSUME PhaseInv, RunnerNext PROVE PhaseInv'
  <1>1. CASE Register \/ OpenSandbox
    <2>1. stage' # "phase"
      BY <1>1 DEF Register, OpenSandbox, Goto
    <2> QED BY <2>1 DEF PhaseInv
  <1>2. CASE UNCHANGED <<pkg, stage, ml>>
    BY <1>2, PhasesStay
  <1> QED
    BY <1>1, <1>2
    DEF RunnerNext, TakeResult, AlarmRings, WorkerExits, WriteResult, ContainerExits, ContainerDies,
        RunTimesOut, Cleanup, CollectResult, harnessVars, graderVars

\* In every registered model package with a plain manifest every phase of both
\* solutions is given its whole limit, however long the phases before it took, as long as the copying
\* between them fits in the slack, and none is given time past the budget.
THEOREM BudgetsCoverThePhases == Spec => []PhasesGetTheirLimit
  <1>1. Init => PhaseInv
    BY DEF Init, PhaseInv
  <1>2. PackageInv /\ PhaseInv /\ [Next]_vars => PhaseInv'
    <2> SUFFICES ASSUME PackageInv, PhaseInv, [Next]_vars PROVE PhaseInv'
      OBVIOUS
    <2>1. CASE UNCHANGED vars
      BY <2>1, PhasesStay DEF vars, harnessVars, graderVars
    <2>2. ASSUME Runs(HarnessStep) PROVE PhaseInv'
      BY <2>2, HarnessKeepsPhases DEF Runs
    <2> QED BY <2>1, <2>2, TwoKindsOfSteps, RunnerKeepsPhases
  <1>3. PhaseInv => PhasesGetTheirLimit
    BY DEF PhaseInv, PhasesGetTheirLimit
  <1> QED BY <1>1, <1>2, <1>3, PackageInvariant, PTL DEF Spec

-----------------------------------------------------------------------------
(***************************************************************************)
(* The wall time of classic evaluations.  A process is polled at most once *)
(* past its limit, so the time spent when the evaluator is at some stage   *)
(* is bounded by what the processes before it may take.                    *)
(***************************************************************************)
ClassicStages ==
    {"reference_compile", "reference", "compile", "test", "check", "score", "returned", "escaped"}

CompileCost == CompileLimit + 1
TestCost == TimeLimit + 1
ReferenceCost(p) == IF p.reference THEN CompileCost + Tests * TestCost ELSE 0

\* What the processes before stage s and test t may have taken together.
Paid(p, s, t) ==
    CASE s = "reference_compile" -> 0
      [] s = "reference" -> CompileCost + (t - 1) * TestCost
      [] s = "compile" -> ReferenceCost(p)
      [] s = "test" -> ReferenceCost(p) + CompileCost + (t - 1) * TestCost
      [] s = "check" -> ReferenceCost(p) + CompileCost + t * TestCost
      [] s \in {"score", "returned", "escaped"} -> ReferenceCost(p) + CompileCost + Tests * TestCost

Compiling(s) == s \in {"reference_compile", "compile"}
Cost(s) == IF Compiling(s) THEN CompileCost ELSE TestCost

\* A configuration whose timeout covers all of it if its manifest was plain, and
\* where it can be.
Timed(p) ==
    /\ p.reference \in BOOLEAN /\ p.timeout \in Nat
    /\ p.plain => ReferenceCost(p) + CompileCost + Tests * TestCost <= p.timeout

Placed(p, s, t) ==
    /\ s \in ClassicStages /\ t \in 1 .. Tests
    /\ s \in {"reference_compile", "reference"} => p.reference
    /\ Compiling(s) => t = 1

\* The process of stage s.
Costs(s, q) ==
    q # NULL =>
        /\ s \in {"reference_compile", "reference", "compile", "test"}
        /\ q.time \in Nat /\ q.time <= Cost(s)
        /\ q.limit = IF Compiling(s) THEN CompileLimit ELSE TimeLimit

SpendInv ==
    IsClassic =>
        \/ /\ pkg \in Packages /\ spent = 0 /\ proc = NULL /\ test = 1
           /\ stage \in Early \cup {"rejected", "returned", "escaped"}
        \/ /\ Timed(pkg) /\ Placed(pkg, stage, test)
           /\ spent \in Nat /\ spent <= Paid(pkg, stage, test)
           /\ Costs(stage, proc)

\* The costs are numbers.
LEMMA CostsAreNumbers ==
    /\ CompileCost \in Nat /\ TestCost \in Nat /\ Tests \in Nat \ {0} /\ Tests * TestCost \in Nat
    /\ CompileLimit \in Nat /\ TimeLimit \in Nat
  <1>1. CompileCost \in Nat /\ TestCost \in Nat /\ Tests \in Nat \ {0} /\ CompileLimit \in Nat /\ TimeLimit \in Nat
    BY ProcessAssumption DEF ProcessAssumption, CompileCost, TestCost
  <1> QED BY <1>1

\* Up to test t it costs at most as much as all tests.
LEMMA TestsCost ==
    ASSUME NEW t \in 1 .. Tests
    PROVE  /\ t * TestCost \in Nat /\ (t - 1) * TestCost \in Nat
           /\ (t - 1) * TestCost + TestCost = t * TestCost
           /\ t * TestCost <= Tests * TestCost
           /\ t < Tests => (t + 1) - 1 = t
  <1>1. TestCost \in Nat /\ Tests \in Nat
    BY CostsAreNumbers
  <1>2. ASSUME NEW a \in Nat, NEW b \in Nat, NEW c \in Nat, a <= b PROVE a * c <= b * c /\ a * c \in Nat
    <2>1. (b - a) * c >= 0
      BY <1>2
    <2> QED BY <1>2, <2>1
  <1> QED BY <1>1, <1>2

\* What is paid is a number within the whole.
LEMMA PaidIsBounded ==
    ASSUME NEW p, NEW s, NEW t, Timed(p), Placed(p, s, t)
    PROVE  /\ Paid(p, s, t) \in Nat /\ ReferenceCost(p) \in Nat
           /\ Paid(p, s, t) <= ReferenceCost(p) + CompileCost + Tests * TestCost
           /\ s \in {"reference_compile", "reference", "compile", "test"} =>
                Paid(p, s, t) + Cost(s) <= ReferenceCost(p) + CompileCost + Tests * TestCost
  <1>1. ReferenceCost(p) \in Nat
    BY CostsAreNumbers DEF Timed, ReferenceCost
  <1>2. /\ t * TestCost \in Nat /\ (t - 1) * TestCost \in Nat
        /\ (t - 1) * TestCost + TestCost = t * TestCost /\ t * TestCost <= Tests * TestCost
    BY TestsCost DEF Placed
  <1>3. CASE s = "reference_compile"
    BY <1>1, <1>3, CostsAreNumbers DEF Paid, Cost, Compiling
  <1>4. CASE s = "reference"
    <2>1. ReferenceCost(p) = CompileCost + Tests * TestCost
      BY <1>4 DEF Placed, ReferenceCost
    <2> QED BY <1>1, <1>2, <1>4, <2>1, CostsAreNumbers DEF Paid, Cost, Compiling
  <1>5. CASE s = "compile"
    BY <1>1, <1>5, CostsAreNumbers DEF Paid, Cost, Compiling
  <1>6. CASE s = "test"
    BY <1>1, <1>2, <1>6, CostsAreNumbers DEF Paid, Cost, Compiling
  <1>7. CASE s = "check"
    BY <1>1, <1>2, <1>7, CostsAreNumbers DEF Paid
  <1>8. CASE s \in {"score", "returned", "escaped"}
    BY <1>1, <1>8, CostsAreNumbers DEF Paid
  <1> QED BY <1>3, <1>4, <1>5, <1>6, <1>7, <1>8 DEF Placed, ClassicStages

\* The wall time of a registered package covers it all.
LEMMA ValidIsTimed ==
    ASSUME NEW m \in Packages, m.kind = "coding", Valid(m)
    PROVE  Timed(ClassicConfig(m))
  <1> DEFINE c == ClassicConfig(m)
  <1>1. DOMAIN m.files = 1 .. Tests
    BY PackagesAssumption DEF PackagesAssumption, Valid, ValidClassic, ValidAnswers
  <1>2. Cardinality(DOMAIN m.files) = Tests
    BY <1>1, CostsAreNumbers, FS_Interval
  <1>3. /\ c.timeout = SetupBudget + Readings(m) * (CompileLimit + Tests * TimeLimit)
        /\ c.reference = (AnswerSource(m) = "reference") /\ c.plain = Plain(m)
    BY <1>2 DEF ClassicConfig, ExecutionTimeout, WallTime
  <1>4. /\ Tests * TimeLimit \in Nat /\ Tests * TestCost = Tests * TimeLimit + Tests
        /\ SetupBudget \in Nat /\ SetupBudget >= Tests + 1 + Tests + 1
    BY CostsAreNumbers, BudgetAssumption DEF BudgetAssumption, TestCost
  <1>p. Plain(m) => Or(ManifestField(m, "answer_source"), "answer_key") = AnswerSource(m)
    BY PlainReads DEF AnswerSource
  <1>n. CASE ~ Plain(m)
    <2>1. Readings(m) \in {1, 2}
      BY DEF Readings
    <2>2. c.timeout \in Nat
      BY <1>3, <1>4, <2>1, CostsAreNumbers
    <2> QED BY <1>3, <1>n, <2>2 DEF Timed
  <1>5. CASE Plain(m) /\ AnswerSource(m) = "reference"
    <2>1. Readings(m) = 2 /\ c.reference = TRUE
      BY <1>3, <1>5, <1>p DEF Readings
    <2>2. ReferenceCost(c) = CompileCost + Tests * TestCost
      BY <2>1 DEF ReferenceCost
    <2>3. c.timeout = SetupBudget + (CompileLimit + Tests * TimeLimit) + (CompileLimit + Tests * TimeLimit)
      BY <1>3, <1>4, <2>1, CostsAreNumbers
    <2> HIDE DEF c
    <2>4. c.timeout \in Nat
      BY <1>4, <2>3, CostsAreNumbers
    <2>5. (CompileCost + Tests * TestCost) + CompileCost + Tests * TestCost <= c.timeout
      BY <1>4, <2>3, CostsAreNumbers DEF CompileCost
    <2>6. Timed(c)
      BY <2>1, <2>2, <2>4, <2>5 DEF Timed
    <2> QED BY <2>6 DEF c
  <1>6. CASE Plain(m) /\ AnswerSource(m) # "reference"
    <2>1. Readings(m) = 1 /\ c.reference = FALSE
      BY <1>3, <1>6, <1>p DEF Readings
    <2>2. ReferenceCost(c) = 0
      BY <2>1 DEF ReferenceCost
    <2>3. c.timeout = SetupBudget + (CompileLimit + Tests * TimeLimit)
      BY <1>3, <1>4, <2>1, CostsAreNumbers
    <2> HIDE DEF c
    <2>4. c.timeout \in Nat
      BY <1>4, <2>3, CostsAreNumbers
    <2>5. 0 + CompileCost + Tests * TestCost <= c.timeout
      BY <1>4, <2>3, CostsAreNumbers DEF CompileCost
    <2>6. Timed(c)
      BY <2>1, <2>2, <2>4, <2>5 DEF Timed
    <2> QED BY <2>6 DEF c
  <1> QED BY <1>n, <1>5, <1>6

\* An evaluation under way.
Underway ==
    /\ Timed(pkg) /\ Placed(pkg, stage, test)
    /\ spent \in Nat /\ spent <= Paid(pkg, stage, test)
    /\ Costs(stage, proc)

\* Runs adds the time of a process that is over.
Accounts == spent' = IF IsClassic /\ proc # NULL /\ proc' = NULL THEN spent + proc.time ELSE spent

\* A process starts.
LEMMA LaunchSpends ==
    ASSUME Underway, IsClassic, Accounts, proc = NULL, UNCHANGED <<pkg, stage, test>>,
           NEW limit, NEW cap, Launch(limit, cap),
           stage \in {"reference_compile", "reference", "compile", "test"},
           limit = IF Compiling(stage) THEN CompileLimit ELSE TimeLimit
    PROVE  SpendInv'
  <1>1. spent' = spent
    BY DEF Accounts
  <1>2. proc' # NULL => proc'.time = 0 /\ proc'.limit = limit
    BY DEF Launch, NewProcess
  <1>3. Cost(stage) \in Nat
    BY CostsAreNumbers DEF Cost
  <1>4. Costs(stage, proc')
    BY <1>2, <1>3 DEF Costs
  <1> QED BY <1>1, <1>4 DEF Underway, SpendInv

\* The evaluator goes on without a process: what it has spent is within what is
\* paid at the next stage.
LEMMA GoingOnSpends ==
    ASSUME Underway, IsClassic, Accounts, proc' = NULL, pkg' = pkg, Placed(pkg, stage', test'),
           Paid(pkg, stage, test) + (IF proc = NULL THEN 0 ELSE Cost(stage)) <= Paid(pkg, stage', test')
    PROVE  SpendInv'
  <1>1. Paid(pkg, stage, test) \in Nat /\ Paid(pkg, stage', test') \in Nat
    BY PaidIsBounded DEF Underway
  <1>2. Cost(stage) \in Nat
    BY CostsAreNumbers DEF Cost
  <1>3. spent' \in Nat /\ spent' <= Paid(pkg, stage', test')
    BY <1>1, <1>2 DEF Accounts, Underway, Costs
  <1> QED BY <1>3 DEF Underway, SpendInv, Costs

\* The evaluation ends.
LEMMA ReturningSpends ==
    ASSUME Underway, IsClassic, Accounts, proc' = NULL, pkg' = pkg, test' = test,
           stage' \in {"returned", "escaped"}
    PROVE  SpendInv'
  <1>1. Placed(pkg, stage', test')
    BY DEF Underway, Placed, ClassicStages, Compiling
  <1>2. Paid(pkg, stage', test') = ReferenceCost(pkg) + CompileCost + Tests * TestCost
    BY DEF Paid
  <1>3. Paid(pkg, stage, test) + (IF proc = NULL THEN 0 ELSE Cost(stage)) <= Paid(pkg, stage', test')
    <2>1. CASE proc = NULL
      BY <1>2, <2>1, PaidIsBounded DEF Underway
    <2>2. CASE proc # NULL
      BY <1>2, <2>2, PaidIsBounded DEF Underway, Costs
    <2> QED BY <2>1, <2>2
  <1> QED BY <1>1, <1>3, GoingOnSpends

\* What Fail leaves.
LEMMA FailSpends ==
    ASSUME Underway, IsClassic, Accounts, NEW who, Fail(who) PROVE SpendInv'
  BY ReturningSpends DEF Fail, Return

\* Loading.
LEMMA LoadSpends ==
    ASSUME PackageInv, SpendInv, Accounts, IsClassic, LoadFails \/ LoadPackage PROVE SpendInv'
  <1>1. /\ stage = "load" /\ pkg \in Packages /\ pkg.kind = "coding" /\ Valid(pkg)
        /\ spent = 0 /\ proc = NULL /\ test = 1 /\ spent' = 0
    BY DEF LoadFails, LoadPackage, SpendInv, PackageInv, Early, Placed, ClassicStages, IsClassic, Accounts
  <1>2. CASE stage' \in {"returned", "escaped"} /\ UNCHANGED <<pkg, test>> /\ proc' = NULL
    BY <1>1, <1>2 DEF SpendInv
  <1>3. CASE /\ pkg' = ClassicConfig(pkg) /\ UNCHANGED <<test, proc>>
             /\ stage' = IF pkg'.reference THEN "reference_compile" ELSE "compile"
    <2>1. Timed(pkg')
      BY <1>1, <1>3, ValidIsTimed
    <2>2. Placed(pkg', stage', test')
      BY <1>1, <1>3, CostsAreNumbers DEF Placed, ClassicStages, Compiling
    <2>3. Paid(pkg', stage', test') \in Nat
      BY <2>1, <2>2, PaidIsBounded
    <2> QED BY <1>1, <1>3, <2>1, <2>2, <2>3 DEF SpendInv, Costs
  <1> QED BY <1>1, <1>2, <1>3 DEF LoadFails, LoadPackage, Fail, Return, Escape, Goto

\* An evaluation past its load is under way.
LEMMA PastLoad ==
    ASSUME SpendInv, IsClassic, stage \in ClassicStages \ {"returned", "escaped"} PROVE Underway
  BY DEF SpendInv, Underway, ClassicStages, Early

\* Compilation.
LEMMA CompileSpends ==
    ASSUME SpendInv, Accounts, CompileReference \/ CompileSubmission \/ ReferenceCompiled \/ SubmissionCompiled
    PROVE  SpendInv'
  <1>1. Underway /\ IsClassic /\ Compiling(stage)
    BY PastLoad DEF CompileReference, CompileSubmission, ReferenceCompiled, SubmissionCompiled, Compiling,
                    ClassicStages
  <1>2. test = 1 /\ Paid(pkg, stage, test) \in Nat /\ ReferenceCost(pkg) \in Nat
    BY <1>1, PaidIsBounded DEF Underway, Placed
  <1>3. ASSUME NEW next, next = (IF stage = "compile" THEN "test" ELSE "reference"),
               stage' = next, proc' = NULL, UNCHANGED <<pkg, test>>
        PROVE  SpendInv'
    <2>1. Placed(pkg, stage', test')
      BY <1>1, <1>3 DEF Underway, Placed, ClassicStages, Compiling
    <2>2. Paid(pkg, stage', test') = Paid(pkg, stage, test) + CompileCost
      <3>1. (test - 1) * TestCost = 0
        BY <1>2, CostsAreNumbers
      <3> QED BY <1>1, <1>2, <1>3, <3>1, CostsAreNumbers DEF Paid, Compiling
    <2>3. Cost(stage) = CompileCost
      BY <1>1 DEF Cost
    <2>4. Paid(pkg, stage, test) + (IF proc = NULL THEN 0 ELSE Cost(stage)) <= Paid(pkg, stage', test')
      BY <1>2, <2>2, <2>3, CostsAreNumbers
    <2> QED BY <1>1, <1>3, <2>1, <2>4, GoingOnSpends
  <1>4. CASE CompileReference
    <2>1. CASE Launch(CompileLimit, NULL) /\ UNCHANGED <<pkg, stage, test>>
      BY <1>1, <1>4, <2>1, LaunchSpends DEF CompileReference, Compiling
    <2>2. CASE Fail({"host"})
      BY <1>1, <2>2, FailSpends
    <2>3. CASE stage' = "reference" /\ UNCHANGED <<pkg, test, proc>>
      BY <1>3, <1>4, <2>3 DEF CompileReference
    <2> QED BY <1>4, <2>1, <2>2, <2>3 DEF CompileReference, BeginCompile, Goto
  <1>5. CASE CompileSubmission
    <2>1. CASE Launch(CompileLimit, NULL) /\ UNCHANGED <<pkg, stage, test>>
      BY <1>1, <1>5, <2>1, LaunchSpends DEF CompileSubmission, Compiling
    <2>2. CASE Fail({"host"})
      BY <1>1, <2>2, FailSpends
    <2>3. CASE stage' = "test" /\ UNCHANGED <<pkg, test, proc>>
      BY <1>3, <1>5, <2>3 DEF CompileSubmission
    <2> QED BY <1>5, <2>1, <2>2, <2>3 DEF CompileSubmission, BeginCompile, Goto
  <1>6. CASE ReferenceCompiled
    <2>1. CASE \E who : Fail(who)
      BY <1>1, <2>1, FailSpends
    <2>2. CASE stage' = "reference" /\ proc' = NULL /\ UNCHANGED <<pkg, test>>
      BY <1>3, <1>6, <2>2 DEF ReferenceCompiled
    <2> QED BY <1>6, <2>1, <2>2 DEF ReferenceCompiled, EndCompile, Goto
  <1>7. CASE SubmissionCompiled
    <2>1. CASE \E who : Fail(who)
      BY <1>1, <2>1, FailSpends
    <2>2. CASE stage' = "test" /\ proc' = NULL /\ UNCHANGED <<pkg, test>>
      BY <1>3, <1>7, <2>2 DEF SubmissionCompiled
    <2>3. CASE Complete(0, "CE") /\ UNCHANGED <<pkg, test>>
      BY <1>1, <2>3, ReturningSpends DEF Complete, Return
    <2> QED BY <1>7, <2>1, <2>2, <2>3 DEF SubmissionCompiled, EndCompile, Goto
  <1> QED BY <1>4, <1>5, <1>6, <1>7

\* The row of a test, or of its check.
LEMMA RowSpends ==
    ASSUME SpendInv, Accounts, IsClassic, stage \in {"test", "check"}, stage = "check" => proc = NULL,
           NEW row, RecordRow(row, "test", "score")
    PROVE  SpendInv'
  <1>1. Underway /\ proc' = NULL /\ pkg' = pkg /\ test \in 1 .. Tests
    BY PastLoad DEF ClassicStages, RecordRow, Underway, Placed
  <1>2. /\ Paid(pkg, stage, test) \in Nat /\ ReferenceCost(pkg) \in Nat
        /\ test * TestCost \in Nat /\ (test - 1) * TestCost \in Nat
        /\ (test - 1) * TestCost + TestCost = test * TestCost
    BY <1>1, PaidIsBounded, TestsCost DEF Underway
  <1>3. Cost(stage) = TestCost
    BY DEF Cost, Compiling
  <1>4. Paid(pkg, stage, test) + (IF proc = NULL THEN 0 ELSE Cost(stage))
          <= ReferenceCost(pkg) + CompileCost + test * TestCost
    <2>1. CASE stage = "test"
      BY <1>2, <1>3, <2>1, CostsAreNumbers DEF Paid
    <2>2. CASE stage = "check"
      BY <1>2, <2>2, CostsAreNumbers DEF Paid
    <2> QED BY <2>1, <2>2
  <1>5. CASE test < Tests
    <2>1. test' = test + 1 /\ stage' = "test" /\ (test + 1) - 1 = test
      BY <1>1, <1>5, CostsAreNumbers DEF RecordRow
    <2>2. Paid(pkg, stage', test') = ReferenceCost(pkg) + CompileCost + test * TestCost
      BY <2>1 DEF Paid
    <2>3. Placed(pkg, stage', test')
      BY <1>1, <1>5, <2>1, CostsAreNumbers DEF Placed, ClassicStages, Compiling
    <2> QED BY <1>1, <1>4, <2>2, <2>3, GoingOnSpends
  <1>6. CASE ~ (test < Tests)
    <2>1. test' = test /\ stage' = "score" /\ test = Tests
      BY <1>1, <1>6, CostsAreNumbers DEF RecordRow
    <2>2. Paid(pkg, stage', test') = ReferenceCost(pkg) + CompileCost + test * TestCost
      BY <2>1 DEF Paid
    <2>3. Placed(pkg, stage', test')
      BY <1>1, <2>1 DEF Placed, ClassicStages, Compiling
    <2> QED BY <1>1, <1>4, <2>2, <2>3, GoingOnSpends
  <1> QED BY <1>5, <1>6

\* The reference's answers.
LEMMA ReferenceSpends ==
    ASSUME SpendInv, Accounts, ReferenceEnds PROVE SpendInv'
  <1>1. Underway /\ IsClassic /\ stage = "reference" /\ proc # NULL /\ test \in 1 .. Tests /\ pkg.reference
    BY PastLoad DEF ReferenceEnds, Ended, ClassicStages, Underway, Placed
  <1>2. CASE \E who : Fail(who)
    BY <1>1, <1>2, FailSpends
  <1>3. CASE /\ proc' = NULL /\ pkg' = pkg
             /\ IF test < Tests THEN test' = test + 1 /\ UNCHANGED stage ELSE test' = 1 /\ stage' = "compile"
    <2>1. /\ (test - 1) * TestCost \in Nat /\ test * TestCost \in Nat
          /\ (test - 1) * TestCost + TestCost = test * TestCost
      BY <1>1, TestsCost
    <2>2. Paid(pkg, stage, test) + Cost(stage) = CompileCost + test * TestCost
      BY <1>1, <2>1, CostsAreNumbers DEF Paid, Cost, Compiling
    <2>3. CASE test < Tests
      <3>1. test' = test + 1 /\ stage' = "reference" /\ (test + 1) - 1 = test
        BY <1>1, <1>3, <2>3, CostsAreNumbers
      <3>2. Paid(pkg, stage', test') = CompileCost + test * TestCost
        BY <3>1 DEF Paid
      <3>3. Placed(pkg, stage', test')
        BY <1>1, <2>3, <3>1, CostsAreNumbers DEF Placed, ClassicStages, Compiling
      <3>4. Paid(pkg, stage, test) + (IF proc = NULL THEN 0 ELSE Cost(stage)) <= Paid(pkg, stage', test')
        BY <1>1, <2>1, <2>2, <3>2, CostsAreNumbers
      <3> QED BY <1>1, <1>3, <3>3, <3>4, GoingOnSpends
    <2>4. CASE ~ (test < Tests)
      <3>1. test' = 1 /\ stage' = "compile" /\ test = Tests
        BY <1>1, <1>3, <2>4, CostsAreNumbers
      <3>2. Paid(pkg, stage', test') = CompileCost + test * TestCost
        BY <1>1, <3>1 DEF Paid, ReferenceCost
      <3>3. Placed(pkg, stage', test')
        BY <3>1, CostsAreNumbers DEF Placed, ClassicStages, Compiling
      <3>4. Paid(pkg, stage, test) + (IF proc = NULL THEN 0 ELSE Cost(stage)) <= Paid(pkg, stage', test')
        BY <1>1, <2>1, <2>2, <3>2, CostsAreNumbers
      <3> QED BY <1>1, <1>3, <3>3, <3>4, GoingOnSpends
    <2> QED BY <2>3, <2>4
  <1> QED BY <1>2, <1>3 DEF ReferenceEnds, Goto

\* The other steps of the classic grader, and its checker.
LEMMA TestSpends ==
    ASSUME SpendInv, Accounts,
           RunReference \/ RunTest \/ TestEnds \/ CompareTokens \/ RunChecker \/ SetupRaises \/ ScoreTests
    PROVE  SpendInv'
  <1>1. Underway /\ IsClassic /\ stage \in {"reference", "test", "check", "score"}
    BY PastLoad DEF RunReference, RunTest, TestEnds, CompareTokens, RunChecker, SetupRaises, ScoreTests,
                    ClassicStages
  <1>2. stage \in {"check", "score"} => proc = NULL
    BY <1>1 DEF Underway, Costs
  <1>3. CASE RunReference \/ RunTest
    BY <1>1, <1>3, LaunchSpends DEF RunReference, RunTest, Compiling
  <1>4. CASE SetupRaises
    BY <1>1, <1>4, FailSpends DEF SetupRaises
  <1>5. CASE ScoreTests
    BY <1>1, <1>5, ReturningSpends DEF ScoreTests, Complete, Return
  <1>6. CASE TestEnds
    <2>1. CASE stage' = "check" /\ proc' = NULL /\ UNCHANGED <<pkg, test>>
      <3>1. stage = "test" /\ proc # NULL /\ test \in 1 .. Tests /\ ReferenceCost(pkg) \in Nat
        BY <1>1, <1>6, PaidIsBounded DEF TestEnds, Ended, Underway, Placed
      <3>2. /\ (test - 1) * TestCost \in Nat /\ (test - 1) * TestCost + TestCost = test * TestCost
            /\ test * TestCost \in Nat
        BY <3>1, TestsCost
      <3>3. Paid(pkg, stage, test) = ReferenceCost(pkg) + CompileCost + (test - 1) * TestCost
        BY <3>1 DEF Paid
      <3>4. Paid(pkg, stage', test') = ReferenceCost(pkg) + CompileCost + test * TestCost /\ Cost(stage) = TestCost
        BY <2>1, <3>1 DEF Paid, Cost, Compiling
      <3>5. Paid(pkg, stage, test) + Cost(stage) <= Paid(pkg, stage', test')
        BY <3>1, <3>2, <3>3, <3>4, CostsAreNumbers
      <3>6. Placed(pkg, stage', test')
        BY <2>1, <3>1 DEF Placed, ClassicStages, Compiling
      <3> QED BY <1>1, <2>1, <3>1, <3>5, <3>6, GoingOnSpends
    <2>2. CASE \E row : RecordRow(row, "test", "score")
      BY <1>1, <1>6, <2>2, RowSpends DEF TestEnds
    <2> QED BY <1>6, <2>1, <2>2 DEF TestEnds, Goto
  <1>7. CASE (CompareTokens \/ RunChecker) /\ \E row : RecordRow(row, "test", "score")
    BY <1>1, <1>2, <1>7, RowSpends DEF CompareTokens, RunChecker
  <1>8. CASE RunChecker /\ (\E who : Fail(who)) 
    BY <1>1, <1>8, FailSpends
  <1>9. CASE RunChecker /\ Escape
    BY <1>1, <1>2, <1>9, ReturningSpends DEF RunChecker, Escape, Goto
  <1> QED
    BY <1>3, <1>4, <1>5, <1>6, <1>7, <1>8, <1>9 DEF CompareTokens, RunChecker, JudgeOutput

\* A poll adds time only up to the limit, and children add none.
LEMMA PollSpends ==
    ASSUME SpendInv, ProcInv, Accounts,
           Poll \/ ChildWrites \/ ChildComplains \/ \E rc \in {0, 1} : ChildExits(rc)
    PROVE  SpendInv'
  <1>1. proc # NULL /\ proc \in Process /\ proc.st = "running" /\ UNCHANGED <<pkg, stage, test>>
    BY DEF Poll, ChildWrites, ChildComplains, ChildExits, ProcInv
  <1>2. /\ proc' \in Process /\ proc'.limit = proc.limit
        /\ proc'.time = proc.time \/ (proc'.time = proc.time + 1 /\ ~ (proc.time > proc.limit))
    <2>1. CASE Poll
      <3>1. ASSUME NEW why \in {"output", "stderr", "time"}
            PROVE  /\ Kill(proc, why) \in Process
                   /\ Kill(proc, why).time = proc.time /\ Kill(proc, why).limit = proc.limit
        BY <1>1 DEF Kill, Process, ProcessStates
      <3>2. /\ [proc EXCEPT !.time = @ + 1] \in Process
            /\ [proc EXCEPT !.time = @ + 1].time = proc.time + 1
            /\ [proc EXCEPT !.time = @ + 1].limit = proc.limit
        BY <1>1 DEF Process
      <3>3. \/ proc' = Kill(proc, "output") \/ proc' = Kill(proc, "stderr") \/ proc' = Kill(proc, "time")
            \/ proc' = [proc EXCEPT !.time = @ + 1] /\ ~ (proc.time > proc.limit)
        BY <2>1 DEF Poll
      <3> QED BY <3>1, <3>2, <3>3
    <2>2. CASE ChildWrites
      BY <1>1, <2>2 DEF ChildWrites, Process
    <2>3. CASE ChildComplains
      BY <1>1, <2>3 DEF ChildComplains, Process
    <2>4. ASSUME NEW rc \in {0, 1}, ChildExits(rc)
          PROVE  proc' \in Process /\ proc'.limit = proc.limit /\ proc'.time = proc.time
      BY <1>1, <2>4 DEF ChildExits, Process, ProcessStates
    <2> QED BY <2>1, <2>2, <2>3, <2>4
  <1>3. proc' # NULL /\ spent' = spent
    BY <1>2, NullAssumption DEF Accounts
  <1>4. ASSUME Costs(stage, proc) PROVE Costs(stage', proc')
    <2>1. proc.time \in Nat /\ proc.limit \in Nat /\ Cost(stage) = proc.limit + 1
      BY <1>1, <1>4 DEF Costs, Cost, CompileCost, TestCost, Process
    <2>2. proc'.time \in Nat /\ proc'.time <= Cost(stage)
      BY <1>2, <1>4, <2>1, <1>1 DEF Costs
    <2> QED BY <1>1, <1>2, <1>4, <2>2 DEF Costs
  <1> QED BY <1>1, <1>3, <1>4 DEF SpendInv, IsClassic

\* Steps that spend nothing.
LEMMA SpendingStays ==
    ASSUME SpendInv, UNCHANGED <<pkg, stage, test, spent>>, proc' = proc \/ proc' = NULL PROVE SpendInv'
  BY DEF SpendInv, Costs, IsClassic

\* Every step of the harness.
LEMMA HarnessSpends ==
    ASSUME PackageInv, ProcInv, SpendInv, Runs(HarnessStep) PROVE SpendInv'
  <1>1. HarnessStep /\ Accounts
    BY DEF Runs, Accounts
  <1>2. CASE ~ IsClassic
    BY <1>1, <1>2, HarnessKeepsPackage DEF SamePackage, IsClassic, SpendInv
  <1>3. CASE IsClassic /\ (ClassicNext \/ LoadFails \/ RunChecker)
    BY <1>1, <1>3, LoadSpends, CompileSpends, ReferenceSpends, TestSpends DEF ClassicNext
  <1>4. CASE Poll \/ ChildWrites \/ ChildComplains \/ \E rc \in {0, 1} : ChildExits(rc)
    BY <1>1, <1>4, PollSpends
  <1>5. CASE \E t \in strays : StrayEnds(t)
    <2>1. UNCHANGED <<pkg, stage, test, proc>>
      BY <1>5 DEF StrayEnds, graderVars
    <2>2. spent' = spent
      BY <1>1, <2>1 DEF Accounts
    <2> QED BY <2>1, <2>2, SpendingStays
  <1> QED
    BY <1>1, <1>2, <1>3, <1>4, <1>5, OneGraderPerKind
    DEF HarnessStep, JudgeStep, PollStep, ChildStep, AuthorStep,
        IsClassic, IsQuiz, IsOptimization, IsModel, IsScorer, IsInteractive

\* The runners spend nothing.
LEMMA RunnerSpends ==
    ASSUME SpendInv, RunnerNext PROVE SpendInv'
  <1>1. CASE Register \/ OpenSandbox
    <2>1. /\ UNCHANGED <<pkg, test, spent, proc>> /\ stage \in {"register", "queued"}
          /\ stage' \in {"queued", "rejected", "load"}
      BY <1>1 DEF Register, OpenSandbox, Goto
    <2> QED BY <2>1 DEF SpendInv, Placed, ClassicStages, Early, IsClassic
  <1>2. CASE TakeResult \/ AlarmRings \/ WorkerExits \/ WriteResult \/ CollectResult
    BY <1>2, SpendingStays DEF TakeResult, AlarmRings, WorkerExits, WriteResult, CollectResult,
                               harnessVars, graderVars
  <1>3. CASE ContainerExits \/ ContainerDies \/ RunTimesOut
    BY <1>3, SpendingStays DEF ContainerExits, ContainerDies, RunTimesOut, Cleanup, AllGone,
                               harnessVars, graderVars
  <1> QED BY <1>1, <1>2, <1>3 DEF RunnerNext

\* The time the registration gives a classic package with a plain manifest covers
\* all its processes together, each polled up to once past its limit, for any number of tests,
\* with and without a reference.
THEOREM WallTimeIsEnough == Spec => []ClassicFitsBudget
  <1>1. Init => SpendInv
    BY DEF Init, SpendInv, Early
  <1>2. PackageInv /\ ProcInv /\ SpendInv /\ [Next]_vars => SpendInv'
    <2> SUFFICES ASSUME PackageInv, ProcInv, SpendInv, [Next]_vars PROVE SpendInv'
      OBVIOUS
    <2>1. CASE UNCHANGED vars
      BY <2>1, SpendingStays DEF vars, harnessVars, graderVars
    <2> QED BY <2>1, TwoKindsOfSteps, HarnessSpends, RunnerSpends
  <1>3. SpendInv => ClassicFitsBudget
    <2> SUFFICES ASSUME SpendInv, IsClassic, "timeout" \in DOMAIN pkg, pkg.plain
                 PROVE  spent + (IF proc # NULL THEN proc.time ELSE 0) <= pkg.timeout
      BY DEF ClassicFitsBudget
    <2>1. Underway
      BY PackagesAssumption DEF SpendInv, Underway, PackagesAssumption, IsClassic
    <2>2. /\ Paid(pkg, stage, test) \in Nat /\ ReferenceCost(pkg) \in Nat
          /\ Paid(pkg, stage, test) <= ReferenceCost(pkg) + CompileCost + Tests * TestCost
          /\ proc # NULL =>
               Paid(pkg, stage, test) + Cost(stage) <= ReferenceCost(pkg) + CompileCost + Tests * TestCost
      BY <2>1, PaidIsBounded DEF Underway, Costs
    <2>3. /\ ReferenceCost(pkg) + CompileCost + Tests * TestCost <= pkg.timeout /\ pkg.timeout \in Nat
          /\ spent \in Nat /\ spent <= Paid(pkg, stage, test)
          /\ proc # NULL => proc.time \in Nat /\ proc.time <= Cost(stage)
      BY <2>1 DEF Underway, Timed, Costs
    <2>4. Cost(stage) \in Nat /\ CompileCost \in Nat /\ Tests * TestCost \in Nat
      BY CostsAreNumbers DEF Cost
    <2>5. CASE proc = NULL
      BY <2>2, <2>3, <2>4, <2>5
    <2>6. CASE proc # NULL
      BY <2>2, <2>3, <2>4, <2>6
    <2> QED BY <2>5, <2>6
  <1>4. Spec => []ProcInv
    <2>1. TestInv => ProcInv
      BY DEF TestInv
    <2> QED BY <2>1, TestInvariant, PTL
  <1> QED BY <1>1, <1>2, <1>3, <1>4, PackageInvariant, PTL DEF Spec

-----------------------------------------------------------------------------
(***************************************************************************)
(* Quizzes.  The normalizations of free answers, from exact to             *)
(* casefold_collapse_whitespace, each forget what the stricter ones forget *)
(* and more.                                                               *)
(***************************************************************************)
\* What a normalization leaves of a text.
LEMMA NormalizedText ==
    ASSUME NEW t, IsText(t), NEW mode
    PROVE  NormalizeText(t, mode) =
             Text(t.word,
                  t.upper /\ mode \notin {"casefold_trim", "casefold_collapse_whitespace"},
                  t.padded /\ mode = "exact",
                  t.gaps /\ mode \notin {"collapse_whitespace", "casefold_collapse_whitespace"})
  <1> DEFINE fold == t.upper /\ mode \notin {"casefold_trim", "casefold_collapse_whitespace"}
             trim == t.padded /\ mode = "exact"
             collapse == t.gaps /\ mode \notin {"collapse_whitespace", "casefold_collapse_whitespace"}
  <1>1. NormalizeText(t, mode) = [t EXCEPT !.padded = trim, !.upper = fold, !.gaps = collapse]
    BY DEF NormalizeText
  <1> HIDE DEF fold, trim, collapse
  <1>2. PICK w, u, p, g : t = Text(w, u, p, g)
    BY DEF IsText
  <1>3. t.word = w
    BY <1>2 DEF Text
  <1>4. [t EXCEPT !.padded = trim, !.upper = fold, !.gaps = collapse] = Text(w, fold, trim, collapse)
    <2>1. [t EXCEPT !.padded = trim, !.upper = fold, !.gaps = collapse] =
          [[[t EXCEPT !.padded = trim] EXCEPT !.upper = fold] EXCEPT !.gaps = collapse]
      OBVIOUS
    <2>2. [t EXCEPT !.padded = trim] = Text(w, u, trim, g)
      BY <1>2 DEF Text
    <2>3. [Text(w, u, trim, g) EXCEPT !.upper = fold] = Text(w, fold, trim, g)
      BY DEF Text
    <2>4. [Text(w, fold, trim, g) EXCEPT !.gaps = collapse] = Text(w, fold, trim, collapse)
      BY DEF Text
    <2> QED BY ONLY <2>1, <2>2, <2>3, <2>4, Zenon
  <1>5. NormalizeText(t, mode) = Text(t.word, fold, trim, collapse)
    BY <1>1, <1>3, <1>4, Zenon
  <1> QED BY <1>5 DEF fold, trim, collapse

\* Texts that are the same under one mode are the same under a looser one.
LEMMA NormalizationsNest ==
    ASSUME NEW t, NEW u, IsText(t), IsText(u), NEW mode, NEW loose \in Looser(mode),
           NormalizeText(t, mode) = NormalizeText(u, mode)
    PROVE  NormalizeText(t, loose) = NormalizeText(u, loose)
  <1> DEFINE Fold(x, m) == x.upper /\ m \notin {"casefold_trim", "casefold_collapse_whitespace"}
             Trim(x, m) == x.padded /\ m = "exact"
             Collapse(x, m) == x.gaps /\ m \notin {"collapse_whitespace", "casefold_collapse_whitespace"}
  <1>1. ASSUME NEW m
        PROVE  /\ NormalizeText(t, m) = Text(t.word, Fold(t, m), Trim(t, m), Collapse(t, m))
               /\ NormalizeText(u, m) = Text(u.word, Fold(u, m), Trim(u, m), Collapse(u, m))
    BY NormalizedText
  <1>2. /\ t.word = u.word /\ Fold(t, mode) = Fold(u, mode) /\ Trim(t, mode) = Trim(u, mode)
        /\ Collapse(t, mode) = Collapse(u, mode)
    <2>1. Text(t.word, Fold(t, mode), Trim(t, mode), Collapse(t, mode)) =
          Text(u.word, Fold(u, mode), Trim(u, mode), Collapse(u, mode))
      BY <1>1
    <2>2. ASSUME NEW w1, NEW w2, NEW f1, NEW f2, NEW p1, NEW p2, NEW g1, NEW g2,
                 Text(w1, f1, p1, g1) = Text(w2, f2, p2, g2)
          PROVE  w1 = w2 /\ f1 = f2 /\ p1 = p2 /\ g1 = g2
      <3> DEFINE a == Text(w1, f1, p1, g1)
                 b == Text(w2, f2, p2, g2)
      <3>1. a.word = w1 /\ a.upper = f1 /\ a.padded = p1 /\ a.gaps = g1
        BY DEF Text
      <3>2. b.word = w2 /\ b.upper = f2 /\ b.padded = p2 /\ b.gaps = g2
        BY DEF Text
      <3>3. a = b
        BY <2>2
      <3> HIDE DEF a, b
      <3> QED BY <3>1, <3>2, <3>3
    <2> HIDE DEF Fold, Trim, Collapse
    <2> QED BY <2>1, <2>2
  <1>3. /\ Fold(t, loose) = Fold(u, loose) /\ Trim(t, loose) = Trim(u, loose)
        /\ Collapse(t, loose) = Collapse(u, loose)
    <2>1. CASE mode = "exact"
      BY <1>2, <2>1 DEF Looser
    <2>2. CASE mode = "trim"
      BY <1>2, <2>2 DEF Looser
    <2>3. CASE mode \in {"casefold_trim", "collapse_whitespace"}
      BY <1>2, <2>3 DEF Looser
    <2>4. CASE mode \notin {"exact", "trim", "casefold_trim", "collapse_whitespace"}
      BY <2>4 DEF Looser
    <2> QED BY <2>1, <2>2, <2>3, <2>4
  <1> HIDE DEF Fold, Trim, Collapse
  <1> QED BY <1>1, <1>2, <1>3

\* The question an evaluation is at comes from a package that loads.
QuizInv ==
    IsQuiz =>
        /\ stage \in Early => test = 1
        /\ stage = "answer" =>
             /\ \E m \in Packages : m.kind = "quiz" /\ Loads(m) /\ pkg = QuizConfig(m)
             /\ test \in DOMAIN pkg.questions

\* Steps that leave the question alone.
LEMMA QuestionStays ==
    ASSUME QuizInv, UNCHANGED <<pkg, stage, test>> PROVE QuizInv'
  BY DEF QuizInv, IsQuiz

\* Steps of the quiz grader.
LEMMA QuizKeepsQuestion ==
    ASSUME PackageInv, QuizInv, QuizNext PROVE QuizInv'
  <1>0. IsQuiz
    BY OneGraderPerKind
  <1>1. CASE stage' \notin Early \cup {"answer"}
    BY <1>1 DEF QuizInv
  <1>2. CASE LoadQuiz /\ pkg' = QuizConfig(pkg) /\ stage' = "answer" /\ test' = test
    <2>1. pkg \in Packages /\ pkg.kind = "quiz" /\ Loads(pkg) /\ test = 1
      BY <1>0, <1>2 DEF LoadQuiz, PackageInv, QuizInv, Early, IsQuiz
    <2>2. DOMAIN pkg'.questions = DOMAIN pkg.questions
      BY <1>2 DEF QuizConfig
    <2>3. 1 \in DOMAIN pkg.questions
      BY <2>1, QuizAssumption DEF QuizAssumption
    <2> QED BY <1>2, <2>1, <2>2, <2>3 DEF QuizInv, Early
  <1>3. ASSUME NEW a, AnswerQuestion(a), stage' = "answer" PROVE QuizInv'
    <2>1. stage = "answer" /\ pkg' = pkg /\ test < Len(pkg.questions) /\ test' = test + 1
      BY <1>3 DEF AnswerQuestion, InvalidSubmission, Return, Goto
    <2>2. PICK m \in Packages : m.kind = "quiz" /\ Loads(m) /\ pkg = QuizConfig(m)
      BY <1>0, <2>1 DEF QuizInv
    <2>3. Len(m.questions) \in Nat /\ DOMAIN m.questions = 1 .. Len(m.questions)
      BY <2>2, QuizAssumption DEF QuizAssumption
    <2>4. pkg.questions = [n \in 1 .. Len(m.questions) |-> QuizQuestion(m.questions[n])]
      BY <2>2, <2>3 DEF QuizConfig
    <2>5. Len(pkg.questions) = Len(m.questions) /\ DOMAIN pkg.questions = 1 .. Len(m.questions)
      BY <2>3, <2>4
    <2>6. test + 1 \in DOMAIN pkg.questions
      BY <1>0, <2>1, <2>3, <2>5 DEF QuizInv
    <2> QED BY <1>3, <2>1, <2>2, <2>6 DEF QuizInv, Early
  <1>4. ASSUME NEW a, AnswerQuestion(a) PROVE stage' \in {"answer", "score", "returned"}
    BY <1>4 DEF AnswerQuestion, InvalidSubmission, Return, Goto
  <1>5. CASE ScoreQuiz
    BY <1>1, <1>5 DEF ScoreQuiz, Complete, Return, Early
  <1>6. CASE LoadQuiz
    BY <1>1, <1>2, <1>6 DEF LoadQuiz, InvalidSubmission, Return, Goto, Early
  <1>7. ASSUME NEW a, AnswerQuestion(a) PROVE QuizInv'
    BY <1>1, <1>3, <1>4, <1>7 DEF Early
  <1> QED BY <1>5, <1>6, <1>7 DEF QuizNext

\* Every step of the harness.
LEMMA HarnessKeepsQuestion ==
    ASSUME PackageInv, QuizInv, HarnessStep PROVE QuizInv'
  <1>1. CASE QuizNext
    BY <1>1, QuizKeepsQuestion
  <1>2. CASE LoadFails
    BY <1>2 DEF LoadFails, Fail, Return, QuizInv, Early
  <1>3. CASE ~ IsQuiz
    BY <1>3, HarnessKeepsPackage DEF SamePackage, IsQuiz, QuizInv
  <1>4. CASE Poll \/ ChildWrites \/ ChildComplains \/ \E rc \in {0, 1} : ChildExits(rc)
    BY <1>4, QuestionStays DEF Poll, ChildWrites, ChildComplains, ChildExits
  <1>5. CASE \E t \in strays : StrayEnds(t)
    BY <1>5, QuestionStays DEF StrayEnds, graderVars
  <1> QED
    BY <1>1, <1>2, <1>3, <1>4, <1>5, OneGraderPerKind
    DEF HarnessStep, JudgeStep, PollStep, ChildStep, AuthorStep,
        IsClassic, IsQuiz, IsOptimization, IsModel, IsScorer, IsInteractive

\* The runners ask no questions.
LEMMA RunnerKeepsQuestion ==
    ASSUME QuizInv, RunnerNext PROVE QuizInv'
  <1>1. CASE Register \/ OpenSandbox
    BY <1>1 DEF Register, OpenSandbox, Goto, QuizInv, Early, IsQuiz
  <1>2. CASE UNCHANGED <<pkg, stage, test>>
    BY <1>2, QuestionStays
  <1> QED
    BY <1>1, <1>2
    DEF RunnerNext, TakeResult, AlarmRings, WorkerExits, WriteResult, ContainerExits, ContainerDies,
        RunTimesOut, Cleanup, CollectResult, harnessVars, graderVars

\* At every free-text question of every quiz that loads: what a normalization
\* accepts, every looser one accepts, and each accepted answer is accepted as it
\* stands.
THEOREM NormalizationsAreOrdered == Spec => []LooserModesAcceptMore
  <1>1. Init => QuizInv
    BY DEF Init, QuizInv
  <1>2. PackageInv /\ QuizInv /\ [Next]_vars => QuizInv'
    <2> SUFFICES ASSUME PackageInv, QuizInv, [Next]_vars PROVE QuizInv'
      OBVIOUS
    <2>1. CASE UNCHANGED vars
      BY <2>1, QuestionStays DEF vars, harnessVars, graderVars
    <2>2. ASSUME Runs(HarnessStep) PROVE QuizInv'
      BY <2>2, HarnessKeepsQuestion DEF Runs
    <2> QED BY <2>1, <2>2, TwoKindsOfSteps, RunnerKeepsQuestion
  <1>3. QuizInv => LooserModesAcceptMore
    <2> DEFINE q == pkg.questions[test]
               mode == pkg.normalization
    <2> SUFFICES ASSUME QuizInv, IsQuiz, stage = "answer", q.type = "free_text"
                 PROVE  /\ \A a \in Answers(q) \ {NULL, BadAnswer} :
                             IsCorrect(q, a, mode) => \A loose \in Looser(mode) : IsCorrect(q, a, loose)
                        /\ \A text \in q.accepted : IsCorrect(q, <<text>>, mode)
      BY DEF LooserModesAcceptMore
    <2>1. PICK m \in Packages : m.kind = "quiz" /\ Loads(m) /\ pkg = QuizConfig(m)
      BY DEF QuizInv
    <2>2. test \in DOMAIN m.questions /\ q = QuizQuestion(m.questions[test])
      BY <2>1 DEF QuizInv, QuizConfig
    <2>3. /\ \A t \in q.accepted : IsText(t)
          /\ \A a \in Answers(q) \ {NULL, BadAnswer} : IsText(a[1])
      BY <2>1, <2>2, QuizAssumption DEF QuizAssumption
    <2> HIDE DEF q, mode
    <2>4. ASSUME NEW a, NEW k
          PROVE  IsCorrect(q, a, k) <=> \E t \in q.accepted : NormalizeText(a[1], k) = NormalizeText(t, k)
      BY DEF IsCorrect, ChoiceTypes
    <2>5. ASSUME NEW a \in Answers(q) \ {NULL, BadAnswer}, IsCorrect(q, a, mode), NEW loose \in Looser(mode)
          PROVE  IsCorrect(q, a, loose)
      <3>1. PICK t \in q.accepted : NormalizeText(a[1], mode) = NormalizeText(t, mode)
        BY <2>4, <2>5
      <3>2. NormalizeText(a[1], loose) = NormalizeText(t, loose)
        BY <2>3, <2>5, <3>1, NormalizationsNest
      <3> QED BY <2>4, <3>2
    <2>6. ASSUME NEW text \in q.accepted PROVE IsCorrect(q, <<text>>, mode)
      <3>1. <<text>>[1] = text
        OBVIOUS
      <3> QED BY <2>4, <3>1
    <2> QED BY <2>5, <2>6
  <1> QED BY <1>1, <1>2, <1>3, PackageInvariant, PTL DEF Spec
=============================================================================
