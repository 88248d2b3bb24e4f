---------------------------- MODULE TaskPackages ----------------------------
(***************************************************************************)
(* Task packages as they are registered (validate_task in                  *)
(* brunost_judge/task.py) and as the runner in the sandbox reads them      *)
(* again (the _config functions of grader/, and harness.py).  The readings *)
(* are written separately, and each has a parser of its own for judge.yaml.*)
(*                                                                         *)
(* A manifest is the sequence of its lines `key: value`; comments are left *)
(* out.  A value is one of the classes the readers                         *)
(* distinguish: a language, for instance, is "python", "native" (a         *)
(* compiled one) or "unknown".  "limits" stands for the three limit keys   *)
(* of a program.  What is in the files of the package, and the numbers of  *)
(* a model package, are fields next to the lines: assets are the names of  *)
(* its files.  Sizes of files are left out.                                *)
(***************************************************************************)
EXTENDS Integers, Sequences, FiniteSets

CONSTANTS Tests,           \* number of tests of a package that has tests
          TimeLimit,       \* time_limit_ms
          CompileLimit,    \* COMPILE_TIMEOUT_MS, CLASSIC_COMPILE_BUDGET_MS
          SetupBudget,     \* CLASSIC_SETUP_BUDGET_MS
          PhaseSlack,      \* the 5_000 ms of a model budget
          DefaultTimeout,  \* timeout_seconds of a sandbox runner
          NULL

\* The kinds the sandbox grades itself.
Kinds == {"coding", "interactive", "optimization", "quiz", "model", "ioai"}

Known == {"python", "native"}

-----------------------------------------------------------------------------
\* The lines of a manifest.  exact says that the key is in lower case; a value
\* is Blank where nothing follows the colon, and "" where only quotes do.
Line(key, value) == [key |-> key, exact |-> TRUE, value |-> value]
Blank == "blank"

First(is) == CHOOSE i \in is : \A j \in is : i <= j
Last(is) == CHOOSE i \in is : \A j \in is : j <= i

\* _FIELD_RE: the white space after a colon runs on to the next line, which
\* becomes the value of a blank one, and is not read as a line any more.
Swallowed(lines, i) ==
    \E k \in 1 .. i - 1 :
        /\ (i - k) % 2 = 1
        /\ \A j \in k .. i - 1 : lines[j].value = Blank
        /\ k > 1 => lines[k - 1].value # Blank

\* _manifest_field of the validator: the first line of the key, in any case;
\* NULL without one.
ManifestField(m, key) ==
    LET is == {i \in DOMAIN m.lines : m.lines[i].key = key /\ ~ Swallowed(m.lines, i)}
        i == First(is)
    IN  IF is = {} THEN NULL
        ELSE IF m.lines[i].value # Blank THEN m.lines[i].value
        ELSE IF i < Len(m.lines) THEN "another line" ELSE ""

\* `field or default`.
Or(field, default) == IF field \in {NULL, ""} THEN default ELSE field

\* _manifest of the runners, and values.get: the last line of the key, in
\* lower case only; a default for a key that is not there, and for no other.
Get(m, key, default) ==
    LET is == {i \in DOMAIN m.lines : m.lines[i].key = key /\ m.lines[i].exact}
        value == m.lines[Last(is)].value
    IN  IF is = {} THEN default ELSE IF value = Blank THEN "" ELSE value

\* _manifest_field of the harness: the first line of the key, in any case, and
\* no more than that line.
HarnessField(m, key) ==
    LET is == {i \in DOMAIN m.lines : m.lines[i].key = key}
        value == m.lines[First(is)].value
    IN  IF is = {} THEN NULL ELSE IF value = Blank THEN "" ELSE value

\* A manifest as the documentation writes them, which leaves no room between
\* the parsers: keys in lower case, each on one line, with a value.
Plain(m) ==
    \A i \in DOMAIN m.lines :
        /\ m.lines[i].exact /\ m.lines[i].value \notin {Blank, ""}
        /\ \A j \in DOMAIN m.lines : m.lines[j].key = m.lines[i].key => j = i

-----------------------------------------------------------------------------
\* What validate_task asks of every package.
ValidFrame(m) ==
    /\ ManifestField(m, "version") = IF m.kind = "model" THEN "2" ELSE "1"
    /\ m.dirs                          \* public/ and private/

\* Variant: an input without an answer passes.
ValidFewAnswers(m) ==
    /\ DOMAIN m.files # {}
    /\ \A t \in DOMAIN m.files :
         IF Or(ManifestField(m, "answer_source"), "answer_key") = "answer_key"
         THEN Cardinality(m.files[t]) <= 1 ELSE m.files[t] = {}
    /\ ~ m.orphan

\* _validate_classic_tests: exactly one answer per input, or none at all where
\* a reference makes them, and no answer without an input.
ValidAnswers(m) ==
    /\ DOMAIN m.files # {}
    /\ \A t \in DOMAIN m.files :
         IF Or(ManifestField(m, "answer_source"), "answer_key") = "answer_key"
         THEN Cardinality(m.files[t]) = 1 ELSE m.files[t] = {}
    /\ ~ m.orphan

\* The paths of entry points that lie under private/.
PrivatePaths == {"private/reference.py", "private/evaluator.py", "private/baseline.py", "private/other.py"}

ValidClassic(m) ==
    LET language == Or(ManifestField(m, "language"), "")
        source == Or(ManifestField(m, "answer_source"), "answer_key")
        entrypoint == Or(ManifestField(m, "reference_entrypoint"), "private/reference.py")
    IN
    /\ ManifestField(m, "runner") \in {NULL, "right"}
    /\ language \in Known
    /\ source \in {"answer_key", "reference"}
    /\ source = "reference" =>
         /\ Or(ManifestField(m, "reference_language"), language) \in Known
         /\ entrypoint \in PrivatePaths \cap m.assets
    /\ Or(ManifestField(m, "scoring_mode"), "all_or_nothing") \in {"all_or_nothing", "percentage"}
    /\ m.checker # "broken"
    /\ ManifestField(m, "limits") \in {NULL, "ok"}
    /\ ValidAnswers(m)

ValidInteractive(m) ==
    /\ ManifestField(m, "runner") \in {NULL, "right"}
    /\ Or(ManifestField(m, "language"), "") \in Known
    /\ ManifestField(m, "limits") \in {NULL, "ok", "huge"}
    /\ Or(ManifestField(m, "interactor"), "interactor.py") \in m.assets
    /\ DOMAIN m.files # {}

\* _validate_optimization_manifest: the limits must be there.
ValidOptimization(m) ==
    LET enabled == ManifestField(m, "baseline_enabled") = "true" IN
    /\ ManifestField(m, "runner") = "right"
    /\ Or(ManifestField(m, "language"), "") \in Known
    /\ ManifestField(m, "limits") = "ok"
    /\ Or(ManifestField(m, "objective_direction"), "") \in {"maximize", "minimize"}
    /\ Or(ManifestField(m, "score_mode"), "") \in {"checker_score", "baseline_ratio"}
    /\ Or(ManifestField(m, "aggregation"), "") \in {"mean", "minimum", "geometric_mean"}
    /\ Or(ManifestField(m, "evaluator_entrypoint"), "private/evaluator.py") \in m.assets
    /\ DOMAIN m.files # {}
    /\ ManifestField(m, "score_mode") = "baseline_ratio" => enabled
    /\ enabled => Or(ManifestField(m, "baseline_entrypoint"), "private/baseline.py") \in m.assets

\* The wall time _classic_settings gives an evaluation.
Readings(m) == IF Or(ManifestField(m, "answer_source"), "answer_key") = "reference" THEN 2 ELSE 1

\* Variant: the reference compiles for free.
WallTimeOneCompile(m) ==
    SetupBudget + CompileLimit + Readings(m) * Cardinality(DOMAIN m.files) * TimeLimit

WallTime(m) == SetupBudget + Readings(m) * (CompileLimit + Cardinality(DOMAIN m.files) * TimeLimit)

-----------------------------------------------------------------------------
\* Quiz answer keys.  A key is a sequence of questions; a question has an id,
\* a type, points, choices (the sequence of their ids, or NULL), an answer
\* and accepted answers (NULL where absent); nullChoices says that its choices
\* are there and null, clean that its other fields are as they should be.
Distinct(s) == \A i, j \in DOMAIN s : i # j => s[i] # s[j]
Elements(s) == {s[i] : i \in DOMAIN s}
ChoiceTypes == {"single_choice", "multiple_choice"}

ValidQuestion(q) ==
    /\ q.clean /\ q.id # "unsafe"
    /\ q.type \in ChoiceTypes \cup {"free_text"}
    /\ q.points > 0
    /\ IF q.type \in ChoiceTypes
       THEN q.choices # NULL /\ Len(q.choices) >= 2 /\ Distinct(q.choices) /\ q.accepted = NULL
       ELSE q.choices = NULL /\ ~ (q.answer # NULL /\ q.accepted # NULL)
    /\ CASE q.type = "single_choice" -> q.answer # NULL /\ Len(q.answer) = 1
                                          /\ q.answer[1] \in Elements(q.choices)
         [] q.type = "multiple_choice" -> /\ q.answer # NULL /\ q.answer # <<>> /\ Distinct(q.answer)
                                          /\ Elements(q.answer) \subseteq Elements(q.choices)
         [] q.type = "free_text" -> LET texts == IF q.accepted # NULL THEN q.accepted ELSE q.answer
                                    IN  texts # NULL /\ texts # <<>>

TotalPoints(qs) ==
    LET sum[n \in 0 .. Len(qs)] == IF n = 0 THEN 0 ELSE sum[n - 1] + qs[n].points
    IN  sum[Len(qs)]

\* The answer key; a path other than this one leads out of private/ or to no
\* file.
AnswerKey == "private/questions.json"

Normalizations ==
    {"exact", "trim", "casefold_trim", "collapse_whitespace", "casefold_collapse_whitespace"}

\* _validate_quiz_manifest.
ValidQuiz(m) ==
    /\ ManifestField(m, "runner") = "right"
    /\ Or(ManifestField(m, "scoring_mode"), "weighted") \in {"weighted", "all_or_nothing"}
    /\ Or(ManifestField(m, "free_text_normalization"), "casefold_trim") \in Normalizations
    /\ Or(ManifestField(m, "answer_key"), AnswerKey) = AnswerKey
    /\ m.questions # <<>>
    /\ \A n \in DOMAIN m.questions : ValidQuestion(m.questions[n])
    /\ Distinct([n \in DOMAIN m.questions |-> m.questions[n].id])
    /\ TotalPoints(m.questions) <= m.maxPoints

-----------------------------------------------------------------------------
\* Models.  limits and post are the time limits of the phases, declared is
\* time_limit_ms, public says whether there is a public split.
Limits == [train : Nat, predict : Nat, evaluate : Nat]

PhaseTime(l, splits) == l.train + splits * l.predict + splits * l.evaluate

Solutions(enabled) == IF enabled THEN 2 ELSE 1

\* _validate_model_manifest: the declared time covers all phases, live and
\* after the competition.  Where baseline_enabled is absent, a declared entry
\* point counts as enabled here, and only here.
EnabledByValidator(m) ==
    \/ ManifestField(m, "baseline_enabled") = "true"
    \/ ManifestField(m, "baseline_enabled") = NULL /\ ManifestField(m, "baseline_entrypoint") \notin {NULL, ""}

ValidModel(m) ==
    LET solutions == Solutions(EnabledByValidator(m)) IN
    /\ ManifestField(m, "runner") = "right"
    /\ m.datasets
    /\ EnabledByValidator(m) => Or(ManifestField(m, "baseline_entrypoint"), "private/baseline.py") \in m.assets
    /\ m.declared >= solutions * PhaseTime(m.limits, IF m.public THEN 2 ELSE 1) + PhaseSlack
    /\ m.post # NULL => m.declared >= solutions * PhaseTime(m.post, 1) + PhaseSlack

\* _validate_scorer_manifest: one of the two places, and a function evaluate.
ScorerPaths == {"scorer/metrics.py", "metrics.py"}
ValidScorer(m) ==
    /\ Cardinality(m.assets \cap ScorerPaths) = 1
    /\ Or(ManifestField(m, "network"), "disabled") = "disabled"

\* validate_task.
Valid(m) ==
    /\ ValidFrame(m)
    /\ CASE m.kind = "coding" -> ValidClassic(m)
         [] m.kind = "interactive" -> ValidInteractive(m)
         [] m.kind = "optimization" -> ValidOptimization(m)
         [] m.kind = "quiz" -> ValidQuiz(m)
         [] m.kind = "model" -> ValidModel(m)
         [] m.kind = "ioai" -> ValidScorer(m)

\* The manifest values a worker limits the sandbox with (_execution_timeout):
\* only classic packages have one, the others get the runner's own.
ExecutionTimeout(m) == IF m.kind = "coding" THEN WallTime(m) ELSE DefaultTimeout

-----------------------------------------------------------------------------
\* The same packages as the runners read them.
\* _config of classic.py, for classic and interactive packages alike; the
\* kinds are looked up again.
ClassicLanguage(m) == Get(m, "language", "")
AnswerSource(m) == Get(m, "answer_source", "answer_key")

ClassicConfigLoads(m) ==
    /\ Get(m, "kind", "") \in {"coding", "interactive"}
    /\ Get(m, "version", NULL) = "1"
    /\ Get(m, "runner", "right") = "right"
    /\ ClassicLanguage(m) \in Known
    /\ AnswerSource(m) \in {"answer_key", "reference"}
    /\ Get(m, "scoring_mode", "all_or_nothing") \in {"all_or_nothing", "percentage"}
    /\ Get(m, "reference_language", ClassicLanguage(m)) \in Known
    /\ Get(m, "limits", "ok") \in {"ok", "huge"}
    /\ DOMAIN m.files # {}

\* _test_cases and _reference_answers: an answer per test, or a reference.
ClassicLoads(m) ==
    /\ ClassicConfigLoads(m)
    /\ IF AnswerSource(m) = "reference"
       THEN Or(Get(m, "reference_entrypoint", NULL), "private/reference.py") \in m.assets
       ELSE \A t \in DOMAIN m.files : m.files[t] # {}

\* run_interactive; the interactor is looked for by every worker.
InteractiveLoads(m) ==
    /\ ClassicConfigLoads(m)
    /\ Get(m, "kind", "") = "interactive"
    /\ Get(m, "interactor", "interactor.py") \in m.assets

\* _config of optimization.py; that the evaluator and the baseline are missing
\* shows only when they are needed, but fails the evaluation all the same.
BaselineEnabled(m) == Get(m, "baseline_enabled", "false") = "true"

OptimizationConfigLoads(m) ==
    /\ Get(m, "kind", "") = "optimization"
    /\ Get(m, "version", NULL) = "1"
    /\ Get(m, "runner", "") = "right"
    /\ ClassicLanguage(m) \in Known
    /\ Get(m, "objective_direction", "") \in {"maximize", "minimize"}
    /\ Get(m, "score_mode", "") \in {"checker_score", "baseline_ratio"}
    /\ Get(m, "aggregation", "") \in {"mean", "minimum", "geometric_mean"}
    /\ Get(m, "score_mode", "") = "baseline_ratio" => BaselineEnabled(m)
    /\ Get(m, "limits", "ok") = "ok"
    /\ DOMAIN m.files # {}
    /\ Or(Get(m, "evaluator_entrypoint", NULL), "private/evaluator.py") \in m.assets
    /\ BaselineEnabled(m) => Or(Get(m, "baseline_entrypoint", NULL), "private/baseline.py") \in m.assets

\* _load_config of quiz.py, question by question.
QuestionLoads(q) ==
    /\ q.clean /\ q.id # "unsafe"
    /\ q.type \in ChoiceTypes \cup {"free_text"}
    /\ q.points > 0
    /\ IF q.type \in ChoiceTypes
       THEN q.choices # NULL /\ Len(q.choices) >= 2 /\ Distinct(q.choices)
       ELSE q.choices = NULL /\ ~ q.nullChoices
    /\ CASE q.type = "single_choice" -> q.answer # NULL /\ Len(q.answer) = 1
                                          /\ q.answer[1] \in Elements(q.choices)
         [] q.type = "multiple_choice" -> /\ q.answer # NULL /\ q.answer # <<>> /\ Distinct(q.answer)
                                          /\ Elements(q.answer) \subseteq Elements(q.choices)
         [] q.type = "free_text" -> LET texts == IF q.accepted # NULL THEN q.accepted ELSE q.answer
                                    IN  texts # NULL /\ texts # <<>>

QuizConfigLoads(m) ==
    /\ Get(m, "kind", "") = "quiz"
    /\ Get(m, "version", NULL) = "1"
    /\ Get(m, "runner", "") = "right"
    /\ Get(m, "answer_key", AnswerKey) = AnswerKey
    /\ Get(m, "scoring_mode", "weighted") \in {"weighted", "all_or_nothing"}
    /\ Get(m, "free_text_normalization", "casefold_trim") \in Normalizations
    /\ Get(m, "submission_file", "inside") = "inside"
    /\ m.questions # <<>>
    /\ \A n \in DOMAIN m.questions : QuestionLoads(m.questions[n])
    /\ Distinct([n \in DOMAIN m.questions |-> m.questions[n].id])

\* _run_model_submission_v2 up to the workspaces; _load_metrics_module.
EnabledByHarness(m) == Or(HarnessField(m, "baseline_enabled"), "false") = "true"

ModelLoads(m) ==
    /\ m.datasets
    /\ EnabledByHarness(m) => Or(HarnessField(m, "baseline_entrypoint"), "private/baseline.py") \in m.assets

ScorerLoads(m) == m.assets \cap ScorerPaths # {}

Loads(m) ==
    CASE m.kind = "coding" -> ClassicLoads(m)
      [] m.kind = "interactive" -> InteractiveLoads(m)
      [] m.kind = "optimization" -> OptimizationConfigLoads(m)
      [] m.kind = "quiz" -> QuizConfigLoads(m)
      [] m.kind = "model" -> ModelLoads(m)
      [] m.kind = "ioai" -> ScorerLoads(m)

\* A value the runner checks and the validator never looks at: the reference
\* language where no reference is used, what an interactive package says of
\* answers and scoring, a quiz's submission_file, and choices that are null.
UnreadByValidator(m) ==
    \/ /\ m.kind \in {"coding", "interactive"}
       /\ Get(m, "reference_language", ClassicLanguage(m)) \notin Known
       /\ m.kind = "coding" => AnswerSource(m) # "reference"
    \/ /\ m.kind = "interactive"
       /\ \/ AnswerSource(m) \notin {"answer_key", "reference"}
          \/ Get(m, "scoring_mode", "all_or_nothing") \notin {"all_or_nothing", "percentage"}
    \/ /\ m.kind = "quiz"
       /\ \/ Get(m, "submission_file", "inside") # "inside"
          \/ \E n \in DOMAIN m.questions : m.questions[n].nullChoices
=============================================================================
