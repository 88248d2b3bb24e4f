------------------------------ MODULE QuizJudge ------------------------------
(***************************************************************************)
(* run_quiz (grader/quiz.py): the answers of a submission against the      *)
(* answer key, one question after the other.                               *)
(*                                                                         *)
(* Answers are sequences: the one id of a choice, the ids of several, or   *)
(* the one text of a free answer.  A text is a word in some case, with or  *)
(* without outer white space and with one or more spaces inside, which is  *)
(* all a normalization looks at.                                           *)
(***************************************************************************)
EXTENDS InteractiveJudge

CONSTANTS Answers(_),     \* the answers tried for a question
          BadAnswer       \* an answer of the wrong type

IsQuiz == pkg.kind = "quiz"

\* The row of a question: its points, or none.
QuizRow == [verdict : {"OK", "WA"}, score : Nat, objective : {NULL}]

Text(word, upper, padded, gaps) == [word |-> word, upper |-> upper, padded |-> padded, gaps |-> gaps]

IsText(t) ==
    t = Text(t.word, t.upper, t.padded, t.gaps) /\ {t.upper, t.padded, t.gaps} \subseteq BOOLEAN

\* Variant: casefold_trim keeps outer white space.
FoldWithoutTrim(text, mode) ==
    [text EXCEPT
        !.padded = @ /\ mode \in {"exact", "casefold_trim"},
        !.upper = @ /\ mode \notin {"casefold_trim", "casefold_collapse_whitespace"},
        !.gaps = @ /\ mode \notin {"collapse_whitespace", "casefold_collapse_whitespace"}]

\* _normalize_text: strip, casefold, and split and join again.
NormalizeText(text, mode) ==
    [text EXCEPT
        !.padded = @ /\ mode = "exact",
        !.upper = @ /\ mode \notin {"casefold_trim", "casefold_collapse_whitespace"},
        !.gaps = @ /\ mode \notin {"collapse_whitespace", "casefold_collapse_whitespace"}]

\* _is_correct raises for an answer the question cannot have.
Malformed(q, a) ==
    IF a = BadAnswer THEN TRUE
    ELSE q.type = "multiple_choice" /\ (~ Distinct(a) \/ Elements(a) \notin SUBSET q.choices \ {{}})

IsCorrect(q, a, mode) ==
    CASE q.type \in ChoiceTypes -> Elements(a) = q.accepted
      [] q.type = "free_text" ->
           NormalizeText(a[1], mode) \in {NormalizeText(t, mode) : t \in q.accepted}

QuizQuestion(q) ==
    [type |-> q.type, points |-> q.points,
     choices |-> IF q.choices = NULL THEN {} ELSE Elements(q.choices),
     accepted |-> Elements(IF q.type = "free_text" /\ q.accepted # NULL THEN q.accepted ELSE q.answer)]

\* Questions come in a list, points are numbers (here in multiples of a common
\* part), and what is accepted or answered as free text is text: the loader, and
\* _is_correct before it normalizes, make sure of it.
ASSUME QuizAssumption ==
    \A m \in Packages :
        m.kind = "quiz" /\ Loads(m) =>
            /\ Len(m.questions) \in Nat \ {0} /\ DOMAIN m.questions = 1 .. Len(m.questions)
            /\ \A n \in DOMAIN m.questions :
                 LET q == QuizQuestion(m.questions[n]) IN
                 /\ q.points \in Nat
                 /\ q.type = "free_text" =>
                      /\ \A t \in q.accepted : IsText(t)
                      /\ \A a \in Answers(q) \ {NULL, BadAnswer} : IsText(a[1])

QuizConfig(m) ==
    [kind |-> m.kind, scoring |-> Get(m, "scoring_mode", "weighted"),
     normalization |-> Get(m, "free_text_normalization", "casefold_trim"), host |-> m.host,
     questions |-> [n \in DOMAIN m.questions |-> QuizQuestion(m.questions[n])],
     timeout |-> ExecutionTimeout(m)]

InvalidSubmission(long) ==
    /\ Return("completed", 0, "INVALID_SUBMISSION", long)
    /\ UNCHANGED <<pkg, test, rows, faults>>

\* No file, no object, or unknown question ids; what JSON says of a file it
\* cannot read quotes the file and may be long.
LoadQuiz ==
    /\ IsQuiz /\ stage = "load" /\ Loads(pkg)
    /\ \/ \E long \in BOOLEAN : InvalidSubmission(long)
       \/ /\ pkg' = QuizConfig(pkg)
          /\ Goto("answer")
          /\ UNCHANGED <<test, rows, proc, faults, result>>

\* A question without an answer is answered wrongly.
AnswerQuestion(a) ==
    /\ IsQuiz /\ stage = "answer"
    /\ LET q == pkg.questions[test] IN
       \/ /\ a # NULL /\ Malformed(q, a)
          /\ InvalidSubmission(FALSE)
       \/ /\ a # NULL => ~ Malformed(q, a)
          /\ LET correct == a # NULL /\ IsCorrect(q, a, pkg.normalization) IN
             rows' = Append(rows, MakeRow(IF correct THEN "OK" ELSE "WA",
                                          IF correct THEN q.points ELSE 0))
          /\ IF test < Len(pkg.questions) THEN test' = test + 1 /\ UNCHANGED stage
                                          ELSE Goto("score") /\ UNCHANGED test
          /\ UNCHANGED <<pkg, proc, faults, result>>

QuizScore(rs) ==
    IF pkg.scoring = "all_or_nothing" /\ Passed(rs) # DOMAIN rs THEN 0
    ELSE Rounded((SumScores(rs) * Unit) \div TotalPoints(pkg.questions))

ScoreQuiz ==
    /\ IsQuiz /\ stage = "score"
    /\ Complete(QuizScore(rows), IF Passed(rows) = DOMAIN rows THEN "AC" ELSE "PARTIAL")
    /\ UNCHANGED <<pkg, test, rows, faults>>

QuizNext ==
    \/ LoadQuiz \/ ScoreQuiz
    \/ \E a \in IF IsQuiz /\ stage = "answer" THEN Answers(pkg.questions[test]) ELSE {} :
         AnswerQuestion(a)

-----------------------------------------------------------------------------
\* A free answer accepted under one normalization is accepted under every
\* looser one, and an accepted answer is accepted as it stands under all.
Looser(mode) ==
    CASE mode = "exact" -> {"trim", "casefold_trim", "collapse_whitespace", "casefold_collapse_whitespace"}
      [] mode = "trim" -> {"casefold_trim", "collapse_whitespace", "casefold_collapse_whitespace"}
      [] mode \in {"casefold_trim", "collapse_whitespace"} -> {"casefold_collapse_whitespace"}
      [] OTHER -> {}

LooserModesAcceptMore ==
    IsQuiz /\ stage = "answer" =>
        LET q == pkg.questions[test] IN
        q.type = "free_text" =>
            /\ \A a \in Answers(q) \ {NULL, BadAnswer} :
                 IsCorrect(q, a, pkg.normalization)
                     => \A mode \in Looser(pkg.normalization) : IsCorrect(q, a, mode)
            /\ \A text \in q.accepted : IsCorrect(q, <<text>>, pkg.normalization)
=============================================================================
