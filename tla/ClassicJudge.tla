---------------------------- MODULE ClassicJudge ----------------------------
(***************************************************************************)
(* run_classic (grader/classic.py): the reference answers, the compilation *)
(* of the submission, then one process and one check per test.             *)
(*                                                                         *)
(* The package says in which language the submission and the reference are *)
(* written ("native" is compiled, "python" is not), whether the answers    *)
(* come from a reference, whether there is a checker, and the scoring      *)
(* mode.                                                                   *)
(***************************************************************************)
EXTENDS ProcessRun

IsClassic == pkg.kind = "coding"     \* and "icpc", its older name

\* What _config makes of the manifest.
ClassicConfig(m) ==
    [kind |-> m.kind, language |-> ClassicLanguage(m), reference |-> AnswerSource(m) = "reference",
     referenceLanguage |-> IF AnswerSource(m) = "reference"
                           THEN Get(m, "reference_language", ClassicLanguage(m)) ELSE NULL,
     checker |-> m.checker = "ok", scoring |-> Get(m, "scoring_mode", "all_or_nothing"),
     host |-> m.host, timeout |-> ExecutionTimeout(m),
     plain |-> Plain(m)]            \* ghost: no parser reads it in a way of its own

\* A package the runner cannot read fails, whatever its kind.
LoadFails ==
    /\ stage = "load" /\ ~ Loads(pkg)
    /\ Fail({"package"})

\* _config, _test_cases, _load_checker and _source_path: an exception of the
\* checker's module, or a submission without a source, fails the evaluation;
\* sys.exit in that module goes further.
LoadPackage ==
    /\ IsClassic /\ stage = "load" /\ Loads(pkg)
    /\ \/ pkg.checker = "ok" /\ (Fail({"author"}) \/ Escape)
       \/ Fail({"contestant"})
       \/ /\ pkg' = ClassicConfig(pkg)
          /\ Goto(IF pkg'.reference THEN "reference_compile" ELSE "compile")
          /\ UNCHANGED <<test, rows, proc, faults, result>>

\* _compile up to the compiler process: Python is only staged; a compiler
\* that is not installed, like an error before Popen returns, fails it.
BeginCompile(language, next) ==
    \/ /\ language = "python"
       /\ Goto(next)
       /\ UNCHANGED <<pkg, test, rows, proc, faults, result>>
    \/ /\ language = "native"
       /\ Launch(CompileLimit, NULL)
       /\ UNCHANGED <<pkg, stage, test, rows, faults, result>>
    \/ /\ language = "native"
       /\ Fail({"host"})

\* _compile after it.  failed stands for what the caller does on a compile
\* failure.
EndCompile(next, failed) ==
    /\ Ended
    /\ CASE Verdict(proc) = "OK" ->
              Goto(next) /\ proc' = NULL /\ UNCHANGED <<pkg, test, rows, faults, result>>
         [] Verdict(proc) = "judge_error" -> Fail({"host"})
         [] OTHER -> failed

CompileReference ==
    /\ IsClassic /\ stage = "reference_compile" /\ proc = NULL
    /\ BeginCompile(pkg.referenceLanguage, "reference")

ReferenceCompiled ==
    /\ IsClassic /\ stage = "reference_compile"
    /\ EndCompile("reference", Fail({"author"}))

\* _reference_answers: one answer per test, all of them before the submission
\* is compiled.
RunReference ==
    /\ IsClassic /\ stage = "reference" /\ proc = NULL
    /\ Launch(TimeLimit, OutputLimit)
    /\ UNCHANGED <<pkg, stage, test, rows, faults, result>>

ReferenceEnds ==
    /\ IsClassic /\ stage = "reference" /\ Ended
    /\ CASE Verdict(proc) = "judge_error" -> Fail({"host"})
         [] Verdict(proc) \notin {"OK", "judge_error"} -> Fail({"author"})
         [] OTHER -> /\ proc' = NULL
                     /\ IF test < Tests THEN test' = test + 1 /\ UNCHANGED stage
                                        ELSE test' = 1 /\ Goto("compile")
                     /\ UNCHANGED <<pkg, rows, faults, result>>

CompileSubmission ==
    /\ IsClassic /\ stage = "compile" /\ proc = NULL
    /\ BeginCompile(pkg.language, "test")

\* A submission that does not compile is judged, without rows.
SubmissionCompiled ==
    /\ IsClassic /\ stage = "compile"
    /\ EndCompile("test", /\ Complete(0, "CE")
                          /\ UNCHANGED <<pkg, test, rows, faults>>)

RunTest ==
    /\ IsClassic /\ stage = "test" /\ proc = NULL
    /\ Launch(TimeLimit, OutputLimit)
    /\ UNCHANGED <<pkg, stage, test, rows, faults, result>>

\* A verdict other than OK is the row's, the one of a process that never
\* started included.
TestEnds ==
    /\ IsClassic /\ stage = "test" /\ Ended
    /\ IF Verdict(proc) = "OK"
       THEN Goto("check") /\ proc' = NULL /\ UNCHANGED <<pkg, test, rows, faults, result>>
       ELSE /\ RecordRow(MakeRow(Verdict(proc), 0), "test", "score")
            /\ faults' = faults \cup (IF proc.st = "unstarted" THEN {"host"} ELSE {})

\* _check_output: the comparison of the tokens, or the author's checker, which
\* may raise or return what is no answer.
JudgeOutput ==
    \E verdict \in {"OK", "WA"} :
        /\ RecordRow(MakeRow(verdict, IF verdict = "OK" THEN Unit ELSE 0), "test", "score")
        /\ UNCHANGED faults

CompareTokens == IsClassic /\ stage = "check" /\ ~ pkg.checker /\ JudgeOutput

RunChecker ==
    /\ IsClassic /\ stage = "check" /\ pkg.checker
    /\ JudgeOutput \/ Fail({"author"}) \/ Escape

\* An exception of Popen other than OSError, from the set-up of the child.
SetupRaises ==
    /\ IsClassic /\ stage \in {"reference", "test"} /\ proc = NULL
    /\ Fail({"host"})

Passed(rs) == {n \in DOMAIN rs : rs[n].verdict = "OK"}

\* Variant: one passed test is enough.
VerdictOfAnyTest(rs) ==
    FirstVerdict(rs, {"TLE", "OLE", "RE"}, IF Passed(rs) # {} THEN "AC" ELSE "WA")

ClassicScore(rs) ==
    IF pkg.scoring = "all_or_nothing"
    THEN IF Passed(rs) = DOMAIN rs THEN Unit ELSE 0
    ELSE SumScores(rs) \div Len(rs)

ClassicVerdict(rs) ==
    FirstVerdict(rs, {"TLE", "OLE", "RE"}, IF Passed(rs) = DOMAIN rs THEN "AC" ELSE "WA")

ScoreTests ==
    /\ IsClassic /\ stage = "score"
    /\ Complete(ClassicScore(rows), ClassicVerdict(rows))
    /\ UNCHANGED <<pkg, test, rows, faults>>

ClassicNext ==
    \/ LoadPackage \/ CompileReference \/ ReferenceCompiled \/ RunReference \/ ReferenceEnds
    \/ CompileSubmission \/ SubmissionCompiled \/ RunTest \/ TestEnds \/ CompareTokens
    \/ SetupRaises \/ ScoreTests
=============================================================================
