------------------------------- MODULE Harness -------------------------------
(***************************************************************************)
(* run (grader/harness.py): the grader of the package's kind, and the      *)
(* scorers of kinds that have none, whose code runs in this very process.  *)
(***************************************************************************)
EXTENDS ModelJudge

CONSTANT NaN      \* a value that is no finite number

IsScorer == pkg.kind = "ioai"

\* What a scorer returns, as far as normalize_result looks at it.
Values == {NULL, NaN} \cup Numbers
RawResults ==
    [shape : {"number"}, score : Values \ {NULL}, nested : {NULL}, public : {NULL}, private : {NULL}]
        \cup [shape : {"bool", "other"}, score : {NULL}, nested : {NULL}, public : {NULL}, private : {NULL}]
        \cup [shape : {"object"}, score : Values, nested : {NULL}, public : Values, private : Values]
        \cup [shape : {"object"}, score : {NULL}, nested : [public : Values, private : Values],
              public : Values, private : Values]

\* _finite_float.
Usable(v) == IF v = NaN THEN NULL ELSE v

\* normalize_result without an official split: the public score, otherwise the
\* private one; keys at the top win over nested ones, even with no number.
\* NULL is no usable score.
NormalizeResult(raw) ==
    LET top(v, below) == IF v # NULL THEN Usable(v) ELSE below
        public == top(raw.public, IF raw.nested # NULL THEN Usable(raw.nested.public) ELSE Usable(raw.score))
        private == top(raw.private, IF raw.nested # NULL THEN Usable(raw.nested.private) ELSE NULL)
    IN  CASE raw.shape = "number" -> Usable(raw.score)
          [] raw.shape = "object" -> IF public # NULL THEN public ELSE private
          [] OTHER -> NULL

\* _run_scorer.  An exception fails the evaluation.
RunScorer ==
    /\ IsScorer /\ stage = "load" /\ Loads(pkg)
    /\ \/ \E raw \in RawResults :
            IF NormalizeResult(raw) = NULL
            THEN Fail({"author"})
            ELSE Complete(NormalizeResult(raw), NULL) /\ UNCHANGED <<pkg, test, rows, faults>>
       \/ Fail({"author"})
       \/ Escape

-----------------------------------------------------------------------------
\* The steps of the evaluator itself, of the processes it waits for, and of
\* code nothing bounds.
JudgeStep ==
    \/ /\ \/ LoadFails \/ ClassicNext \/ QuizNext
       /\ UNCHANGED <<baseline, interactiveVars, ml>>
    \/ OptimizationNext /\ UNCHANGED <<interactiveVars, ml>>
    \/ (InteractiveNext \/ WorkerNext) /\ UNCHANGED ml
    \/ ModelNext /\ UNCHANGED <<baseline, interactiveVars>>

PollStep == Poll /\ UNCHANGED <<baseline, interactiveVars, ml>>

ChildStep ==
    \/ /\ ~ IsInteractive
       /\ ChildWrites \/ ChildComplains \/ \E rc \in {0, 1} : ChildExits(rc)
       /\ UNCHANGED <<baseline, interactiveVars, ml>>
    \/ /\ InteractorNext \/ CandidateNext \/ \E t \in strays : StrayEnds(t)
       /\ UNCHANGED ml

AuthorStep == (RunScorer \/ RunChecker) /\ UNCHANGED <<baseline, interactiveVars, ml>>

harnessVars == <<graderVars, baseline, interactiveVars, ml>>
=============================================================================
