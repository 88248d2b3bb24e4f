-------------------------- MODULE OptimizationJudge --------------------------
(***************************************************************************)
(* run_optimization (grader/optimization.py): the submission is compiled,  *)
(* the author's baseline is run and evaluated on every instance if there   *)
(* is one, then the submission; the scores of the instances are            *)
(* aggregated.  Compilation and processes are those of ClassicJudge.       *)
(*                                                                         *)
(* The evaluator is the author's code in a process of its own, killed when *)
(* its time is up.  What it reports is external.                           *)
(***************************************************************************)
EXTENDS ClassicJudge

CONSTANTS Objectives,   \* objective values evaluators report
          Grain         \* 1e-8, which a score is rounded to

\* Objectives are numbers: _finite_float makes sure of it.
ASSUME ObjectivesAssumption == Objectives \subseteq Int

\* Between two rounded scores there is room for others: one part of Unit is
\* what a float resolves, a Grain is many.  MAX_CLASSIC_TESTS of them are little.
ASSUME GrainAssumption ==
    /\ Grain \in Nat \ {0} /\ Unit % Grain = 0
    /\ Tests * Grain < 2 * Unit

VARIABLE baseline       \* baseline_values: the objectives of the baseline so far

IsOptimization == pkg.kind = "optimization"

\* The end of an _evaluate call.  "bad" is every way to get no evaluation: an
\* exception, a malformed or missing report, death, and the time limit.
\* A report of a feasible output has a finite objective.
Evaluations ==
    [is : {"feasible"}, objective : Objectives, score : (0 .. Unit) \cup {NULL}]
        \cup [is : {"infeasible", "invalid", "bad"}, objective : {NULL}, score : {NULL}]

\* Variant: the quotient is the same in both directions.
RatioOfMaxima(candidate, base, direction) ==
    IF candidate < 0 \/ base < 0 THEN NULL
    ELSE IF base = 0 THEN Unit
    ELSE IF candidate > base THEN Unit ELSE (candidate * Unit) \div base

\* _baseline_ratio: NULL where it raises.  A float quotient is below 1.0
\* exactly where the candidate is worse, and so is one in whole parts of Unit.
BaselineRatio(candidate, base, direction) ==
    IF candidate < 0 \/ base < 0 THEN NULL
    ELSE LET clamp(x) == IF x > Unit THEN Unit ELSE x IN
         IF direction = "maximize"
         THEN IF base = 0 THEN IF candidate >= base THEN Unit ELSE 0
              ELSE clamp((candidate * Unit) \div base)
         ELSE IF candidate = 0 THEN Unit
              ELSE IF base = 0 THEN IF candidate <= base THEN Unit ELSE 0
              ELSE clamp((base * Unit) \div candidate)

\* math.prod, and the power whose root the geometric mean is.
ProductScores(rs) ==
    LET product[n \in 0 .. Len(rs)] == IF n = 0 THEN 1 ELSE product[n - 1] * rs[n].score
    IN  product[Len(rs)]

Power(base, exponent) ==
    LET power[n \in 0 .. exponent] == IF n = 0 THEN 1 ELSE power[n - 1] * base
    IN  power[exponent]

\* _aggregate, in whole parts of Unit.
Aggregate(rs, how) ==
    LET scores == {rs[n].score : n \in DOMAIN rs}
        below(r) == Power(r, Len(rs)) <= ProductScores(rs)
    IN  CASE how = "minimum" -> CHOOSE s \in scores : \A o \in scores : s <= o
          [] how = "geometric_mean" ->
               CHOOSE r \in 0 .. Unit : below(r) /\ \A q \in 0 .. Unit : below(q) => q <= r
          [] how = "mean" -> SumScores(rs) \div Len(rs)

\* round(score, 8): to the nearest, and from halfway to the even one.
Rounded(score) ==
    LET quotient == score \div Grain
        rest == score % Grain
        up == 2 * rest > Grain \/ (2 * rest = Grain /\ quotient % 2 = 1)
    IN  (IF up THEN quotient + 1 ELSE quotient) * Grain

OptimizationVerdict(rs) ==
    FirstVerdict(rs, {rs[n].verdict : n \in DOMAIN rs} \ {"OK"}, "OK")

-----------------------------------------------------------------------------
OptimizationConfig(m) ==
    [kind |-> m.kind, language |-> ClassicLanguage(m), baseline |-> BaselineEnabled(m),
     scoring |-> Get(m, "score_mode", ""), direction |-> Get(m, "objective_direction", ""),
     aggregation |-> Get(m, "aggregation", ""), host |-> m.host, timeout |-> ExecutionTimeout(m)]

LoadOptimization ==
    /\ IsOptimization /\ stage = "load" /\ Loads(pkg)
    /\ UNCHANGED baseline
    /\ \/ Fail({"contestant"})
       \/ /\ pkg' = OptimizationConfig(pkg)
          /\ Goto("compile")
          /\ UNCHANGED <<test, rows, proc, faults, result>>

CompileCandidate ==
    /\ IsOptimization /\ stage = "compile" /\ proc = NULL
    /\ BeginCompile(pkg.language, IF pkg.baseline THEN "baseline_compile" ELSE "test")
    /\ UNCHANGED baseline

CandidateCompiled ==
    /\ IsOptimization /\ stage = "compile"
    /\ EndCompile(IF pkg.baseline THEN "baseline_compile" ELSE "test",
                  Complete(0, "CE") /\ UNCHANGED <<pkg, test, rows, faults>>)
    /\ UNCHANGED baseline

\* The baseline is compiled with the settings of the submission.
CompileBaseline ==
    /\ IsOptimization /\ stage = "baseline_compile" /\ proc = NULL
    /\ BeginCompile(pkg.language, "baseline")
    /\ UNCHANGED baseline

BaselineCompiled ==
    /\ IsOptimization /\ stage = "baseline_compile"
    /\ EndCompile("baseline", Fail({"author"}))
    /\ UNCHANGED baseline

RunSolution ==
    /\ IsOptimization /\ stage \in {"baseline", "test"} /\ proc = NULL
    /\ UNCHANGED baseline
    /\ \/ /\ Launch(TimeLimit, OutputLimit)
          /\ UNCHANGED <<pkg, stage, test, rows, faults, result>>
       \/ Fail({"host"})

BaselineEnds ==
    /\ IsOptimization /\ stage = "baseline" /\ Ended
    /\ UNCHANGED baseline
    /\ CASE Verdict(proc) = "OK" ->
              /\ Goto("baseline_evaluate") /\ proc' = NULL
              /\ UNCHANGED <<pkg, test, rows, faults, result>>
         [] Verdict(proc) = "judge_error" -> Fail({"host"})
         [] OTHER -> Fail({"author"})

\* Only a feasible evaluation gives the baseline an objective; an output the
\* evaluator calls invalid is the author's trouble here.
EvaluateBaseline(e) ==
    /\ IsOptimization /\ stage = "baseline_evaluate"
    /\ IF e.is = "feasible"
       THEN /\ baseline' = Append(baseline, e.objective)
            /\ IF test < Tests THEN test' = test + 1 /\ Goto("baseline")
                               ELSE test' = 1 /\ Goto("test")
            /\ UNCHANGED <<pkg, rows, proc, faults, result>>
       ELSE Fail({"author"}) /\ UNCHANGED baseline

SolutionEnds ==
    /\ IsOptimization /\ stage = "test" /\ Ended
    /\ UNCHANGED baseline
    /\ IF Verdict(proc) = "OK"
       THEN Goto("evaluate") /\ proc' = NULL /\ UNCHANGED <<pkg, test, rows, faults, result>>
       ELSE /\ RecordRow(MakeRow(Verdict(proc), 0), "test", "score")
            /\ faults' = faults \cup (IF proc.st = "unstarted" THEN {"host"} ELSE {})

\* The score of a feasible instance, NULL where it raises.
InstanceScore(e) ==
    IF pkg.scoring = "baseline_ratio"
    THEN BaselineRatio(e.objective, baseline[test], pkg.direction)
    ELSE e.score

\* Variant: an evaluation that cannot be had is an invalid output.
EvaluateLeniently(e) ==
    /\ IsOptimization /\ stage = "evaluate"
    /\ RecordRow(MakeRow("INVALID", 0), "test", "score")
    /\ faults' = faults \cup (IF e.is = "bad" THEN {"author"} ELSE {})
    /\ UNCHANGED baseline

EvaluateOutput(e) ==
    /\ IsOptimization /\ stage = "evaluate"
    /\ UNCHANGED baseline
    /\ \/ /\ e.is = "bad" \/ (e.is = "feasible" /\ InstanceScore(e) = NULL)
          /\ Fail({"author"})
       \/ /\ e.is = "feasible" /\ InstanceScore(e) # NULL
          /\ RecordRow([verdict |-> "OK", score |-> InstanceScore(e),
                        objective |-> e.objective], "test", "score")
          /\ UNCHANGED faults
       \/ /\ e.is \in {"infeasible", "invalid"}
          /\ RecordRow(MakeRow(IF e.is = "invalid" THEN "INVALID" ELSE "INFEASIBLE", 0),
                       "test", "score")
          /\ UNCHANGED faults

\* The rows are reported with rounded numbers too, but the score is that of the
\* unrounded ones.
ScoreInstances ==
    /\ IsOptimization /\ stage = "score"
    /\ Complete(Rounded(Aggregate(rows, pkg.aggregation)), OptimizationVerdict(rows))
    /\ UNCHANGED <<pkg, test, rows, faults, baseline>>

OptimizationNext ==
    \/ LoadOptimization \/ CompileCandidate \/ CandidateCompiled
    \/ CompileBaseline \/ BaselineCompiled \/ RunSolution
    \/ BaselineEnds \/ SolutionEnds \/ ScoreInstances
    \/ \E e \in Evaluations : EvaluateBaseline(e) \/ EvaluateOutput(e)
=============================================================================
