------------------------------ MODULE MCSandbox ------------------------------
(***************************************************************************)
(* Packages for TLC: for every kind a few that are graded, and drafts that *)
(* differ from one of them in a single value, most of which the validator  *)
(* rejects.                                                                *)
(***************************************************************************)
EXTENDS Sandbox

Host == [rlimits |-> TRUE, bwrap |-> FALSE, sandbox |-> "docker", timed |-> TRUE, profile |-> "live"]
Local == [Host EXCEPT !.sandbox = "process", !.rlimits = FALSE]

Drafts(m, field, values) == {[m EXCEPT ![field] = v] : v \in values}

\* The lines of a manifest, from pairs of a key and a value.
Lines(pairs) == [n \in DOMAIN pairs |-> Line(pairs[n][1], pairs[n][2])]

\* Manifests that say something else, or nothing, of a key.
Other(line, key) == line.key # key
Without(m, key) == [m EXCEPT !.lines = SelectSeq(@, LAMBDA line : Other(line, key))]
Also(m, key, value) == [m EXCEPT !.lines = Append(@, Line(key, value))]
Say(m, key, value) == Also(Without(m, key), key, value)
Versions(m, key, values) == {Say(m, key, v) : v \in values}

\* Manifests that are not plain: a key in capitals, and one without a value,
\* whose line comes first, and swallows the next, or last.
Recased(m, key) ==
    [m EXCEPT !.lines = [n \in DOMAIN @ |-> [@[n] EXCEPT !.exact = Other(m.lines[n], key)]]]
Blanks(m, key) ==
    {Say(m, key, Blank), Say(m, key, ""),
     [m EXCEPT !.lines = <<Line(key, Blank)>> \o Without(m, key).lines]}

OneAnswer == [t \in 1 .. Tests |-> {"ans"}]
NoAnswer == [t \in 1 .. Tests |-> {}]

Classic ==
    [kind |-> "coding", dirs |-> TRUE, files |-> OneAnswer, orphan |-> FALSE, checker |-> "absent",
     assets |-> {}, host |-> Local,
     lines |-> Lines(<< <<"version", "1">>, <<"kind", "coding">>, <<"language", "python">>,
                        <<"scoring_mode", "percentage">> >>)]

Reference == "private/reference.py"
ByReference ==
    [Classic EXCEPT !.files = NoAnswer, !.assets = {Reference},
                    !.lines = Lines(<< <<"kind", "coding">>, <<"version", "1">>, <<"runner", "right">>,
                                       <<"answer_source", "reference">>, <<"language", "native">>,
                                       <<"limits", "ok">> >>)]

\* Answers and a reference: the validator reads the first line, the grader the
\* last.
BothSources ==
    Also(Say([ByReference EXCEPT !.files = OneAnswer], "answer_source", "answer_key"), "answer_source", "reference")

ClassicPackages ==
    {Classic, ByReference, [Classic EXCEPT !.checker = "ok", !.host = Host], BothSources}
        \cup Versions(Classic, "version", {"2"}) \cup {Without(Classic, "version")}
        \cup Drafts(Classic, "dirs", {FALSE})
        \cup {Also(Classic, "kind", kind) : kind \in {"interactive", "quiz"}}
        \cup {Recased(Classic, "language"), Recased(ByReference, "answer_source")}
        \cup UNION {Blanks(Classic, key) : key \in {"scoring_mode", "runner", "language", "answer_source"}}
        \cup {Also(Also(Classic, "runner", Blank), "language", "unknown")}
        \cup UNION {Versions(m, "runner", {"right", "wrong"}) \cup Versions(m, "language", {"unknown"})
                        \cup Versions(m, "answer_source", {"answer_key", "reference", "unknown"})
                        \cup Versions(m, "scoring_mode", {"all_or_nothing", "unknown"})
                        \cup Drafts(m, "assets", {{}})
                        \cup Versions(m, "reference_language", {"unknown", "python"})
                        \cup Versions(m, "reference_entrypoint", {"private/other.py", "", Reference})
                        \cup Versions(m, "limits", {"ok", "zero", "huge"})
                        \cup Drafts(m, "orphan", {TRUE}) \cup Drafts(m, "checker", {"broken"})
                        \cup Drafts(m, "files", {<<>>, [t \in 1 .. Tests |-> {"out"}], NoAnswer,
                                                 [OneAnswer EXCEPT ![1] = {}],
                                                 [OneAnswer EXCEPT ![1] = {"ans", "out"}]})
                    : m \in {Classic, ByReference}}

Interactive ==
    [Classic EXCEPT !.kind = "interactive", !.assets = {"interactor.py"}, !.files = NoAnswer, !.host = Host,
                    !.lines = Lines(<< <<"version", "1">>, <<"kind", "interactive">>, <<"language", "python">> >>)]

InteractivePackages ==
    {Interactive, [Say(Interactive, "language", "native") EXCEPT !.host = [Local EXCEPT !.bwrap = TRUE]]}
        \cup Versions(Interactive, "scoring_mode", {"unknown"})
        \cup Versions(Interactive, "answer_source", {"unknown"})
        \cup Versions(Interactive, "reference_language", {"unknown"})
        \cup Drafts(Interactive, "assets", {{}}) \cup Drafts(Interactive, "files", {<<>>})
        \cup Versions(Interactive, "limits", {"zero"})
        \cup Blanks(Interactive, "interactor") \cup {Also(Interactive, "kind", "coding")}

Evaluator == "private/evaluator.py"
Baseline == "private/baseline.py"
Optimization ==
    [kind |-> "optimization", dirs |-> TRUE, files |-> NoAnswer, assets |-> {Evaluator, Baseline}, host |-> Local,
     lines |-> Lines(<< <<"version", "1">>, <<"kind", "optimization">>, <<"runner", "right">>,
                        <<"language", "python">>, <<"limits", "ok">>, <<"score_mode", "baseline_ratio">>,
                        <<"objective_direction", "minimize">>, <<"aggregation", "mean">>,
                        <<"baseline_enabled", "true">> >>)]

OptimizationPackages ==
    {Optimization,
     Say(Say(Say(Optimization, "objective_direction", "maximize"), "aggregation", "geometric_mean"),
         "language", "native"),
     Say(Say(Say(Optimization, "score_mode", "checker_score"), "baseline_enabled", "false"),
         "aggregation", "minimum")}
        \cup Versions(Optimization, "baseline_enabled", {"false"})
        \cup Drafts(Optimization, "assets", {{Evaluator}, {Baseline}})
        \cup {Without(Optimization, "limits"), Recased(Optimization, "score_mode"),
              Also(Optimization, "baseline_enabled", "false")}
        \cup Versions(Optimization, "aggregation", {"unknown", ""})

-----------------------------------------------------------------------------
Oslo == Text("oslo", TRUE, FALSE, TRUE)
OneOf == [id |-> "q1", clean |-> TRUE, type |-> "single_choice", points |-> 1, choices |-> <<"a", "b">>,
          answer |-> <<"b">>, accepted |-> NULL, nullChoices |-> FALSE]
Several == [OneOf EXCEPT !.type = "multiple_choice", !.answer = <<"a", "b">>]
Free == [OneOf EXCEPT !.id = "q2", !.type = "free_text", !.points = 3, !.choices = NULL,
                      !.answer = NULL, !.accepted = <<Oslo>>]
Quiz ==
    [kind |-> "quiz", dirs |-> TRUE, questions |-> <<OneOf, Free>>, maxPoints |-> 4, host |-> Local,
     lines |-> Lines(<< <<"version", "1">>, <<"kind", "quiz">>, <<"runner", "right">> >>)]

Questions ==
    {Several}
        \cup UNION {Drafts(q, "answer", {NULL, <<>>, <<"c">>, <<"a", "a">>})
                        \cup Drafts(q, "choices", {NULL, <<"b">>, <<"a", "a">>})
                        \cup Drafts(q, "accepted", {<<Oslo>>}) \cup Drafts(q, "points", {0, 4})
                        \cup Drafts(q, "id", {"q2", "unsafe"}) \cup Drafts(q, "clean", {FALSE})
                        \cup Drafts(q, "type", {"unknown"})
                    : q \in {OneOf, Several}}

FreeQuestions ==
    Drafts(Free, "accepted", {NULL, <<>>}) \cup Drafts(Free, "answer", {<<Oslo>>})
        \cup Drafts(Free, "choices", {<<"a", "b">>}) \cup Drafts(Free, "nullChoices", {TRUE})
        \cup {[Free EXCEPT !.answer = <<Oslo>>, !.accepted = NULL]}

QuizPackages ==
    Versions(Quiz, "free_text_normalization", Normalizations \cup {"unknown"})
        \cup Versions(Quiz, "scoring_mode", {"weighted", "all_or_nothing", "unknown"})
        \cup Versions(Quiz, "answer_key", {AnswerKey, "public"})
        \cup Versions(Quiz, "submission_file", {"outside"}) \cup Drafts(Quiz, "host", {Host})
        \cup UNION {Blanks(Quiz, key) : key \in {"scoring_mode", "answer_key"}}
        \cup {Recased(Quiz, "runner"), Also(Quiz, "runner", "wrong")}
        \cup Drafts(Quiz, "questions", {<<>>} \cup {<<q, Free>> : q \in Questions}
                                              \cup {<<OneOf, q>> : q \in FreeQuestions})

MCAnswers(q) ==
    {NULL, BadAnswer} \cup
    (IF q.type = "free_text"
     THEN {<<Text(word, upper, padded, gaps)>> : word \in {"oslo", "bergen"}, upper \in BOOLEAN,
                                                 padded \in BOOLEAN, gaps \in BOOLEAN}
     ELSE {<<"a">>, <<"b">>, <<"c">>}
              \cup IF q.type = "multiple_choice" THEN {<<>>, <<"b", "a">>, <<"a", "a">>} ELSE {})

-----------------------------------------------------------------------------
PhaseLimits == [train |-> 2, predict |-> 1, evaluate |-> 1]
Model ==
    [kind |-> "model", dirs |-> TRUE, datasets |-> TRUE, public |-> TRUE, assets |-> {Baseline},
     limits |-> PhaseLimits, post |-> NULL, declared |-> 13, host |-> Host,
     lines |-> Lines(<< <<"version", "2">>, <<"kind", "model">>, <<"runner", "right">>,
                        <<"baseline_enabled", "true">> >>)]
WithPost ==
    [Without(Model, "baseline_enabled") EXCEPT
        !.public = FALSE, !.declared = 11,
        !.post = [train |-> 3, predict |-> 1, evaluate |-> 1], !.host.profile = "post"]

\* The validator takes the line of the baseline for the network's value and
\* counts one solution, the harness counts two.
Overlooked ==
    [Model EXCEPT !.declared = 7,
                  !.lines = Lines(<< <<"version", "2">>, <<"kind", "model">>, <<"runner", "right">>,
                                     <<"network", Blank>>, <<"baseline_enabled", "true">> >>)]

ModelPackages ==
    {Model, WithPost, [Model EXCEPT !.host.profile = "post"], Overlooked}
        \cup Drafts(Model, "declared", {12, 14}) \cup Drafts(WithPost, "declared", {10})
        \cup Drafts(Model, "assets", {{}}) \cup Versions(Model, "baseline_enabled", {"false", ""})
        \cup Versions(WithPost, "baseline_entrypoint", {Baseline, ""})
        \cup Drafts(Model, "datasets", {FALSE})

Scorer ==
    [kind |-> "ioai", dirs |-> TRUE, assets |-> {"scorer/metrics.py"}, host |-> Local,
     lines |-> Lines(<< <<"version", "1">>, <<"kind", "ioai">> >>)]
ScorerPackages ==
    {Scorer, [Scorer EXCEPT !.host = Host]}
        \cup Drafts(Scorer, "assets", {{}, ScorerPaths})
        \cup Versions(Scorer, "network", {"enabled", Blank}) \cup {Also(Scorer, "version", "2")}

MCObjectives == {-1, 0, 7, 8}
MCNumbers == {-1, 0, Unit + 1}

MCPackages ==
    ClassicPackages \cup InteractivePackages \cup OptimizationPackages
        \cup QuizPackages \cup ModelPackages \cup ScorerPackages
=============================================================================
