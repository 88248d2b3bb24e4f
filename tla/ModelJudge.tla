----------------------------- MODULE ModelJudge -----------------------------
(***************************************************************************)
(* _run_model_submission_v2 (grader/harness.py): the author's baseline, if *)
(* enabled, and then the participant's solution are trained, make their    *)
(* predictions for every split and are evaluated.  Each phase is a process *)
(* of its own, with a limit of its own, and all share one budget.          *)
(***************************************************************************)
EXTENDS QuizJudge

CONSTANTS MaxStaging,   \* bound: the time all copying together may take
          Numbers       \* scores metrics report: any finite number is one

ASSUME NumbersAssumption == Numbers \subseteq Int

VARIABLE ml             \* the state of the evaluation, or NULL

IsModel == pkg.kind = "model"

Phases == {"train", "predict", "evaluate"}

\* The profile of the evaluation picks the limits; the public split is only
\* there while the competition is live.
ModelConfig(m) ==
    [kind |-> m.kind, host |-> m.host, timeout |-> ExecutionTimeout(m),
     limits |-> IF m.host.profile = "live" THEN m.limits ELSE m.post,
     splits |-> IF m.host.profile = "live" /\ m.public THEN 2 ELSE 1,
     baseline |-> EnabledByHarness(m), declared |-> m.declared,
     plain |-> Plain(m)]            \* ghost, as in ClassicConfig

\* Variant: the time of the baseline is forgotten.
BudgetOfOne ==
    LET calculated == PhaseTime(pkg.limits, pkg.splits) + PhaseSlack
    IN  IF pkg.declared < calculated THEN pkg.declared ELSE calculated

ModelBudget ==
    LET calculated == Solutions(pkg.baseline) * PhaseTime(pkg.limits, pkg.splits) + PhaseSlack
    IN  IF pkg.declared < calculated THEN pkg.declared ELSE calculated

StartOf(solution) ==
    [solution |-> solution, phase |-> "train", split |-> 1, spent |-> 0, staged |-> 0, timeout |-> NULL]

LoadModel ==
    /\ IsModel /\ stage = "load" /\ Loads(pkg)
    /\ \/ /\ pkg.host.profile = "post" /\ pkg.post = NULL     \* not enabled
          /\ Fail({"host"}) /\ UNCHANGED ml
       \/ Fail({"contestant"}) /\ UNCHANGED ml
       \/ /\ pkg.host.profile = "post" => pkg.post # NULL
          /\ pkg' = ModelConfig(pkg)
          /\ ml' = StartOf(IF pkg'.baseline THEN "baseline" ELSE "participant")
          /\ Goto("phase")
          /\ UNCHANGED <<test, rows, proc, faults, result>>

\* The workspace of the next phase, which takes time, and phase_timeout.
StagePhase(took) ==
    /\ IsModel /\ stage = "phase" /\ ml.timeout = NULL
    /\ ml.staged + took <= MaxStaging
    /\ LET spent == ml.spent + took
           remaining == ModelBudget - spent
           limit == pkg.limits[ml.phase]
       IN  IF remaining <= 0
           THEN Fail({"host"}) /\ UNCHANGED ml
           ELSE /\ ml' = [ml EXCEPT !.spent = spent, !.staged = @ + took,
                                    !.timeout = IF limit < remaining THEN limit ELSE remaining]
                /\ UNCHANGED graderVars

\* Whose code the phase runs.
PhaseOwner == IF ml.solution = "baseline" \/ ml.phase = "evaluate" THEN "author" ELSE "contestant"

\* No process, a process that takes too long or exits with an error, no model,
\* no predictions or too many bytes of them, no numeric score: all end it.
PhaseFails ==
    /\ IsModel /\ stage = "phase" /\ ml.timeout # NULL
    /\ \E who \in {PhaseOwner, "host"} : Fail({who})
    /\ UNCHANGED ml

\* What follows a phase that took d.
NextPhase(d) ==
    LET done == [ml EXCEPT !.spent = @ + d, !.timeout = NULL]
        more == ml.split < pkg.splits
    IN  CASE ml.phase = "train" -> [done EXCEPT !.phase = "predict"]
          [] ml.phase # "train" /\ more -> [done EXCEPT !.split = @ + 1]
          [] ml.phase = "predict" /\ ~ more -> [done EXCEPT !.phase = "evaluate", !.split = 1]
          [] ml.phase = "evaluate" /\ ~ more ->
               [StartOf("participant") EXCEPT !.spent = done.spent, !.staged = done.staged]

LastPhase == ml.solution = "participant" /\ ml.phase = "evaluate" /\ ml.split = pkg.splits

\* The private split is the last one, and the official one.
PhaseEnds(d, score) ==
    /\ IsModel /\ stage = "phase" /\ ml.timeout # NULL /\ d <= ml.timeout
    /\ IF LastPhase
       THEN /\ Complete(score, NULL)
            /\ UNCHANGED <<pkg, test, rows, faults, ml>>
       ELSE /\ ml' = NextPhase(d)
            /\ UNCHANGED graderVars

ModelNext ==
    \/ LoadModel
    \/ PhaseFails
    \/ \E took \in {0, 1} : StagePhase(took)
    \/ \E d \in IF IsModel /\ stage = "phase" /\ ml.timeout # NULL THEN 0 .. ml.timeout ELSE {},
          score \in Numbers : PhaseEnds(d, score)

-----------------------------------------------------------------------------
\* A registered model package with a plain manifest gives every phase its whole
\* limit, however long the phases before it took, as long as the copying
\* between them fits in the slack; and no phase is given time past the budget.
PhasesGetTheirLimit ==
    IsModel /\ stage = "phase" /\ ml.timeout # NULL =>
        /\ pkg.plain /\ ml.staged <= PhaseSlack => ml.timeout = pkg.limits[ml.phase]
        /\ ml.spent + ml.timeout <= ModelBudget
=============================================================================
