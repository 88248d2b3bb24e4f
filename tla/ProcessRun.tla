----------------------------- MODULE ProcessRun -----------------------------
(***************************************************************************)
(* The evaluator and the processes it runs (grader/classic.py).            *)
(*                                                                         *)
(* An evaluator is sequential: at most one process of _run_process is      *)
(* under way, and the evaluator polls it every 10 ms for too much output,  *)
(* too many diagnostics and too much time.  One unit of time is one such   *)
(* sleep; between two polls the child does what it likes.                  *)
(*                                                                         *)
(* This module holds the state all graders share and the steps of          *)
(* _run_process; the graders extend it.                                    *)
(***************************************************************************)
EXTENDS TaskPackages

CONSTANTS Packages,      \* the manifests of the packages authors register
          OutputLimit,   \* output_limit_bytes
          StderrLimit,   \* MAX_STDERR_BYTES
          Unit           \* the score 1.0

ASSUME ProcessAssumption ==
    /\ {Tests, TimeLimit, CompileLimit, OutputLimit, StderrLimit} \subseteq Nat \ {0}
    /\ Unit \in Nat \ {0} /\ Unit % Tests = 0

\* CLASSIC_SETUP_BUDGET_MS is 500 polls of 10 ms, MAX_CLASSIC_TESTS is 200: the
\* budget pays for one poll too many of every process of a classic evaluation.
ASSUME BudgetAssumption == SetupBudget \in Nat /\ SetupBudget >= 2 * (Tests + 1)

\* The kind of a package is what the first line says that has the key kind: so
\* find it _manifest_kind and _task_kind, whatever the lines after it say.
ASSUME KindAssumption ==
    \A m \in Packages :
        /\ Len(m.lines) \in Nat /\ DOMAIN m.lines = 1 .. Len(m.lines)
        /\ \E i \in DOMAIN m.lines :
             /\ m.lines[i] = Line("kind", m.kind)
             /\ \A j \in DOMAIN m.lines : j < i => m.lines[j].key # "kind"
        /\ \A i \in DOMAIN m.lines : m.lines[i].value # NULL

\* Packages have a kind the sandbox knows; classic ones have all their tests or
\* none, and no timeout of their own; the limits of models, and the profile they
\* are graded with, are of the type they must have.
ASSUME PackagesAssumption ==
    /\ PhaseSlack \in Nat
    /\ \A m \in Packages :
         /\ "kind" \in DOMAIN m /\ m.kind \in Kinds
         /\ m.kind = "coding" => DOMAIN m.files \in {{}, 1 .. Tests} /\ "timeout" \notin DOMAIN m
         /\ m.kind = "model" =>
              /\ m.limits \in Limits /\ m.post \in Limits \cup {NULL} /\ m.declared \in Nat
              /\ m.host.profile \in {"live", "post"}

VARIABLES pkg,      \* the manifest of the package, once it is loaded its configuration
          stage,    \* where the evaluator is
          test,     \* the test it is at
          rows,     \* the rows of the tests judged so far
          proc,     \* the process of _run_process, or NULL
          faults,   \* ghost: who caused trouble so far
          result    \* what the grader returned, or NULL

graderVars == <<pkg, stage, test, rows, proc, faults, result>>

ProcessStates == {"unstarted", "running", "exited", "killed"}
Process == [st : ProcessStates, out : Nat, err : Nat,
            rc : {0, 1}, time : Nat, limit : Nat, cap : {OutputLimit, NULL},
            flag : {"none", "output", "stderr", "time"}]
Verdicts == {"OK", "WA", "TLE", "OLE", "RE", "judge_error", "AC", "INVALID", "INFEASIBLE"}
Row == [verdict : Verdicts, score : 0 .. Unit, objective : Int \cup {NULL}]

\* What a grader returns.  A failed result carries no verdict.
\* long: its reason is longer than a result may carry.
Result == [status : {"completed", "failed"}, score : Int,
           verdict : Verdicts \cup {"CE", "PARTIAL", "INVALID_SUBMISSION", NULL},
           long : BOOLEAN]

\* None is no process, no result, no number, and none of the words it is compared
\* with.
ASSUME NullAssumption ==
    /\ NULL \notin Process /\ NULL \notin Result /\ NULL \notin Verdicts /\ NULL \notin Int
    /\ NULL \notin {"true", "right", "baseline_ratio"}

-----------------------------------------------------------------------------
\* RLIMIT_FSIZE, where the platform accepts it, stops a file at the output
\* limit; it covers the file that takes stderr as well.
FileRoom(p) == IF pkg.host.rlimits /\ p.cap # NULL THEN p.cap ELSE OutputLimit + StderrLimit + 1

NewProcess(limit, cap) ==
    [st |-> "running", out |-> 0, err |-> 0, rc |-> 0, time |-> 0,
     limit |-> limit, cap |-> cap, flag |-> "none"]

\* Popen: the child starts, or OSError (no such program, no bwrap, no memory).
Launch(limit, cap) ==
    \/ proc' = NewProcess(limit, cap)
    \/ proc' = [NewProcess(limit, cap) EXCEPT !.st = "unstarted"]

Ended == proc # NULL /\ proc.st # "running"

\* Variant: after the exit only what the polls saw counts.
VerdictOfPolls(p) ==
    IF p.st = "unstarted" THEN "judge_error"
    ELSE IF p.flag \in {"stderr", "output"} THEN "OLE"
    ELSE IF p.flag = "time" THEN "TLE"
    ELSE IF p.rc # 0 THEN "RE"
    ELSE "OK"

\* The verdict of _run_process once the child is reaped.
Verdict(p) ==
    IF p.st = "unstarted" THEN "judge_error"
    ELSE IF p.flag = "stderr" \/ p.err > StderrLimit THEN "OLE"
    ELSE IF p.flag = "output" \/ (p.cap # NULL /\ p.out > p.cap) THEN "OLE"
    ELSE IF p.flag = "time" THEN "TLE"
    ELSE IF p.rc # 0 /\ p.cap # NULL /\ p.out >= p.cap THEN "OLE"
    ELSE IF p.rc # 0 THEN "RE"
    ELSE "OK"

Kill(p, why) == [p EXCEPT !.st = "killed", !.rc = 1, !.flag = why]

\* Variant: the time is not looked at.
PollOutput ==
    /\ proc # NULL /\ proc.st = "running"
    /\ proc' = IF proc.cap # NULL /\ proc.out > proc.cap THEN Kill(proc, "output")
               ELSE IF proc.err > StderrLimit THEN Kill(proc, "stderr")
               ELSE proc
    /\ UNCHANGED <<pkg, stage, test, rows, faults, result>>

\* One turn of the polling loop: kill, or sleep.
Poll ==
    /\ proc # NULL /\ proc.st = "running"
    /\ proc' = IF proc.cap # NULL /\ proc.out > proc.cap THEN Kill(proc, "output")
               ELSE IF proc.err > StderrLimit THEN Kill(proc, "stderr")
               ELSE IF proc.time > proc.limit THEN Kill(proc, "time")
               ELSE [proc EXCEPT !.time = @ + 1]
    /\ UNCHANGED <<pkg, stage, test, rows, faults, result>>

\* The child: output, diagnostics, an exit of its own or by a resource limit.
\* A write past RLIMIT_FSIZE fails and leaves the file as it is.
ChildWrites ==
    /\ proc # NULL /\ proc.st = "running" /\ proc.cap # NULL
    /\ proc.out <= OutputLimit /\ proc.out < FileRoom(proc)
    /\ proc' = [proc EXCEPT !.out = @ + 1]
    /\ UNCHANGED <<pkg, stage, test, rows, faults, result>>

ChildComplains ==
    /\ proc # NULL /\ proc.st = "running"
    /\ proc.err <= StderrLimit /\ proc.err < FileRoom(proc)
    /\ proc' = [proc EXCEPT !.err = @ + 1]
    /\ UNCHANGED <<pkg, stage, test, rows, faults, result>>

ChildExits(rc) ==
    /\ proc # NULL /\ proc.st = "running"
    /\ proc' = [proc EXCEPT !.st = "exited", !.rc = rc]
    /\ UNCHANGED <<pkg, stage, test, rows, faults, result>>

-----------------------------------------------------------------------------
\* What the graders have in common.
Return(status, score, verdict, long) ==
    /\ stage' = "returned"
    /\ result' = [status |-> status, score |-> score, verdict |-> verdict, long |-> long]
    /\ proc' = NULL

Complete(score, verdict) == Return("completed", score, verdict, FALSE)

\* _failed cuts the reason at 4000 characters.
Fail(who) ==
    /\ \E long \in BOOLEAN : Return("failed", 0, NULL, long)
    /\ faults' = faults \cup who
    /\ UNCHANGED <<pkg, test, rows>>

Goto(s) == stage' = s

\* Author code in the evaluator's own process may leave it by sys.exit, which
\* is no Exception: nothing in grader/ catches it.
Escape ==
    /\ Goto("escaped")
    /\ faults' = faults \cup {"author"}
    /\ UNCHANGED <<pkg, test, rows, proc, result>>

MakeRow(verdict, score) == [verdict |-> verdict, score |-> score, objective |-> NULL]

\* Variant: one test too many.
RecordPastTheEnd(row, next, end) ==
    /\ rows' = Append(rows, row)
    /\ proc' = NULL
    /\ IF test <= Tests THEN test' = test + 1 /\ stage' = next
                        ELSE stage' = end /\ UNCHANGED test
    /\ UNCHANGED <<pkg, result>>

\* The row of a test, then the next test or the end of them.
RecordRow(row, next, end) ==
    /\ rows' = Append(rows, row)
    /\ proc' = NULL
    /\ IF test < Tests THEN test' = test + 1 /\ stage' = next
                       ELSE stage' = end /\ UNCHANGED test
    /\ UNCHANGED <<pkg, result>>

SumScores(rs) ==
    LET sum[n \in 0 .. Len(rs)] == IF n = 0 THEN 0 ELSE sum[n - 1] + rs[n].score
    IN  sum[Len(rs)]

\* The verdict of the first row in the set, or the default.
FirstVerdict(rs, set, default) ==
    LET hits == {n \in DOMAIN rs : rs[n].verdict \in set}
    IN  IF hits = {} THEN default
        ELSE rs[CHOOSE n \in hits : \A k \in hits : n <= k].verdict

-----------------------------------------------------------------------------
\* What a verdict of _run_process means, whatever the child did between two
\* polls: OK is an exit with status 0, no more output and diagnostics than
\* allowed, and at most one poll past the limit; TLE and OLE have their cause.
VerdictsAreEarned ==
    Ended =>
        LET v == Verdict(proc) IN
        /\ v = "OK" => /\ proc.st = "exited" /\ proc.rc = 0
                       /\ proc.err <= StderrLimit
                       /\ proc.cap # NULL => proc.out <= proc.cap
                       /\ proc.time <= proc.limit + 1
        /\ v = "TLE" => proc.time > proc.limit
        /\ v = "OLE" => proc.err > StderrLimit \/ (proc.cap # NULL /\ proc.out >= proc.cap)
=============================================================================
