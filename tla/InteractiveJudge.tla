-------------------------- MODULE InteractiveJudge --------------------------
(***************************************************************************)
(* run_interactive (grader/classic.py) and the worker it starts for every  *)
(* test (grader/interactive_worker.py).                                    *)
(*                                                                         *)
(* Three processes: the evaluator polls the worker as it polls any other   *)
(* process; the worker compiles and starts the candidate and lets the      *)
(* author's interactor talk to it; the candidate reads and writes its      *)
(* pipes.  Each has a session of its own, so killing the worker's process  *)
(* group does not touch the candidate.                                     *)
(*                                                                         *)
(* The worker's limit and the candidate's are both TimeLimit, but the      *)
(* worker's starts before it compiles anything.                            *)
(***************************************************************************)
EXTENDS OptimizationJudge

CONSTANTS PipeRoom,     \* lines the candidate's stdin holds unread
          MaxEvents     \* MAX_TRANSCRIPT_EVENTS

ASSUME InteractiveAssumption == {PipeRoom, MaxEvents} \subseteq Nat

VARIABLES session,      \* the worker's side of a test, or NULL
          strays        \* tests whose child outlived its worker

interactiveVars == <<session, strays>>

IsInteractive == pkg.kind = "interactive"

Children == {"none", "compiler", "running", "mute", "exit0", "exit1"}
Replies == [status : {"completed"}, verdict : {"AC", "WA", "TLE", "OLE", "RE"}, score : 0 .. Unit]
               \cup [status : {"failed"}, verdict : {NULL}, score : {0}]
Session == [at : {"setup", "compile", "talk", "send", "receive", "close", "print"},
            child : Children,           \* mute: it closed its stdout and runs on
            inbox : 0 .. PipeRoom,      \* messages the candidate has not read
            unread : 0 .. OutputLimit + 1,   \* its output still in the pipe
            ends : 0 .. OutputLimit + 1,     \* the ends of lines in that output
            buf : 0 .. OutputLimit + 1,      \* _buffer: whole lines
            bytes : 0 .. OutputLimit + 1,    \* output_bytes
            log : 0 .. MaxEvents,            \* len(transcript)
            born : Nat,                      \* when the deadline was set
            reply : Replies \cup {NULL}]

NewSession == [at |-> "setup", child |-> "none", inbox |-> 0, unread |-> 0, ends |-> 0,
               buf |-> 0, bytes |-> 0, log |-> 0, born |-> 0, reply |-> NULL]

Alive(child) == child \in {"compiler", "running", "mute"}

Reply(status, verdict, score) == [status |-> status, verdict |-> verdict, score |-> score]
JudgeError == Reply("failed", NULL, 0)

Recorded(s) == [s EXCEPT !.log = IF @ < MaxEvents THEN @ + 1 ELSE @]

\* The worker acts only while it lives.
WorkerAt(at) ==
    /\ IsInteractive /\ proc # NULL /\ proc.st = "running"
    /\ session # NULL /\ session.at = at

WorkerStep(s) ==
    /\ session' = s
    /\ UNCHANGED <<graderVars, baseline, strays>>

\* The end of a dialogue: nobody reads the pipes any more.
Over(s, at, child, reply) ==
    [NewSession EXCEPT !.at = at, !.child = child, !.log = s.log, !.reply = reply]

\* Variant: the candidate is left alone.
BrokenOff(s, reply) == [Over(s, "print", s.child, reply) EXCEPT !.log = 0]

\* An exception of the dialogue: the candidate is killed and reaped first, and
\* the reply has no transcript.
Broken(s, reply) ==
    [Over(s, "print", IF Alive(s.child) THEN "exit1" ELSE s.child, reply) EXCEPT !.log = 0]

-----------------------------------------------------------------------------
InteractiveConfig(m) ==
    [kind |-> m.kind, language |-> ClassicLanguage(m), host |-> m.host, timeout |-> ExecutionTimeout(m)]

LoadInteractive ==
    /\ IsInteractive /\ stage = "load" /\ Loads(pkg)
    /\ pkg' = InteractiveConfig(pkg)
    /\ Goto("test")
    /\ UNCHANGED <<test, rows, proc, faults, result, baseline, interactiveVars>>

StartWorker ==
    /\ IsInteractive /\ stage = "test" /\ proc = NULL
    /\ UNCHANGED <<baseline, strays>>
    /\ \/ /\ Launch(TimeLimit, OutputLimit)
          /\ session' = IF proc'.st = "running" THEN NewSession ELSE NULL
          /\ UNCHANGED <<pkg, stage, test, rows, faults, result>>
       \/ Fail({"host"}) /\ UNCHANGED session

\* _config, _load_interactor, _source_path and _compile; then Popen of the
\* candidate and its deadline.  Whatever fails here is a judge error, a
\* submission that does not compile too.
StartCandidate(s) ==
    \/ WorkerStep([s EXCEPT !.at = "talk", !.child = "running", !.born = proc.time])
    \/ WorkerStep([s EXCEPT !.at = "print", !.child = "none", !.reply = JudgeError])

SetUpSession ==
    /\ WorkerAt("setup")
    /\ \/ WorkerStep([session EXCEPT !.at = "print", !.reply = JudgeError])
       \/ pkg.language = "native" /\ WorkerStep([session EXCEPT !.at = "compile", !.child = "compiler"])
       \/ pkg.language = "python" /\ StartCandidate(session)

CompilerEnds == WorkerAt("compile") /\ StartCandidate(session)

-----------------------------------------------------------------------------
\* The interactor: the author's code, free to talk, to return and to raise.
InteractorTalks(what) ==
    /\ WorkerAt("talk")
    /\ WorkerStep([session EXCEPT !.at = what])

\* _result_from_interactor: a verdict and a score, which need not agree.
InteractorReturns(verdict, score) ==
    /\ WorkerAt("talk")
    /\ WorkerStep(Over(session, "close", session.child, Reply("completed", verdict, score)))

\* A message or a result that is not allowed raises InteractiveProtocolError,
\* the exception of a candidate that breaks the protocol; a TimeoutError or an
\* OverflowError of the interactor's own passes for one of the session's.
InteractorMisbehaves(verdict) ==
    /\ WorkerAt("talk")
    /\ faults' = faults \cup {"author"}
    /\ session' = Broken(session, Reply("completed", verdict, 0))
    /\ UNCHANGED <<pkg, stage, test, rows, proc, result, baseline, strays>>

InteractorRaises ==
    /\ WorkerAt("talk")
    /\ faults' = faults \cup {"author"}
    /\ session' = Broken(session, JudgeError)
    /\ UNCHANGED <<pkg, stage, test, rows, proc, result, baseline, strays>>

\* sys.exit is not caught: the finally clause ends the candidate, and the
\* worker goes without a reply.
InteractorExits(rc) ==
    /\ WorkerAt("talk")
    /\ faults' = faults \cup {"author"}
    /\ session' = Broken(session, NULL)
    /\ proc' = [proc EXCEPT !.st = "exited", !.rc = rc]
    /\ UNCHANGED <<pkg, stage, test, rows, result, baseline, strays>>

\* send: a write that waits while the candidate's stdin is full, whatever the
\* deadline says.
Send ==
    /\ WorkerAt("send")
    /\ \/ /\ ~ Alive(session.child)
          /\ WorkerStep(Broken(session, Reply("completed", "RE", 0)))
       \/ /\ Alive(session.child) /\ session.inbox < PipeRoom
          /\ WorkerStep(Recorded([session EXCEPT !.inbox = @ + 1, !.at = "talk"]))

\* receive: a line of the buffer; without one, the deadline, and then what the
\* pipe holds.
Receive ==
    /\ WorkerAt("receive")
    /\ \/ /\ session.buf > 0
          /\ \/ WorkerStep(Recorded([session EXCEPT !.buf = @ - 1, !.at = "talk"]))
             \/ WorkerStep(Broken(session, Reply("completed", "OLE", 0)))  \* over MAX_LINE_BYTES
       \/ /\ session.buf = 0 /\ proc.time - session.born >= TimeLimit
          /\ WorkerStep(Broken(session, Reply("completed", "TLE", 0)))
       \/ /\ session.buf = 0 /\ proc.time - session.born < TimeLimit
          /\ session.unread > 0
          /\ LET total == session.bytes + session.unread IN
             WorkerStep(IF total > OutputLimit
                        THEN Broken(session, Reply("completed", "OLE", 0))
                        ELSE [session EXCEPT !.bytes = total, !.buf = session.ends,
                                             !.unread = 0, !.ends = 0])
       \/ /\ session.buf = 0 /\ proc.time - session.born < TimeLimit
          /\ session.unread = 0 /\ session.child # "running"
          /\ WorkerStep(Broken(session, Reply("completed", "RE", 0)))

\* Variant: the exit status counts only where the worker waited for it.
CloseWaiting ==
    /\ WorkerAt("close")
    /\ \E child \in IF Alive(session.child) THEN {"exit0", "exit1"} ELSE {session.child} :
         WorkerStep([session EXCEPT
             !.at = "print", !.child = child,
             !.reply = IF @.verdict = "AC" /\ child # "exit0" /\ Alive(session.child)
                       THEN Reply("completed", "RE", 0) ELSE @])

\* After the dialogue: a candidate that still runs gets its stdin closed and
\* 0.2 s, then it is killed; AC needs exit status 0.
CloseSession ==
    /\ WorkerAt("close")
    /\ \E child \in IF Alive(session.child) THEN {"exit0", "exit1"} ELSE {session.child} :
         WorkerStep([session EXCEPT
             !.at = "print", !.child = child,
             !.reply = IF @.verdict = "AC" /\ child # "exit0" THEN Reply("completed", "RE", 0) ELSE @])

\* The reply, with the transcript after a dialogue that ended, goes to the
\* file the evaluator limits as it limits a submission's output.
PrintReply ==
    /\ WorkerAt("print")
    /\ LET size == IF session.log > 1 THEN session.log ELSE 1
           fits == size <= FileRoom(proc)
       IN  proc' = [proc EXCEPT !.st = "exited", !.rc = IF fits THEN 0 ELSE 1,
                                !.out = IF fits THEN size ELSE FileRoom(proc)]
    /\ UNCHANGED <<pkg, stage, test, rows, faults, result, baseline, session, strays>>

\* The worker dies of its limits, or of what the interactor does to it, or
\* writes more diagnostics than the evaluator takes.
WorkerDies ==
    /\ IsInteractive /\ proc # NULL /\ proc.st = "running" /\ session # NULL
    /\ proc' = [proc EXCEPT !.st = "exited", !.rc = 1]
    /\ session' = [NewSession EXCEPT !.child = session.child]
    /\ UNCHANGED <<pkg, stage, test, rows, faults, result, baseline, strays>>

WorkerComplains ==
    /\ WorkerAt("talk") /\ StderrLimit < FileRoom(proc)
    /\ proc' = [proc EXCEPT !.err = StderrLimit + 1]
    /\ UNCHANGED <<pkg, stage, test, rows, faults, result, baseline, session, strays>>

-----------------------------------------------------------------------------
\* The candidate, alone with its pipes.
CandidateStep(s) ==
    /\ IsInteractive /\ proc # NULL /\ proc.st = "running" /\ session # NULL
    /\ session.child \in {"running", "mute"} /\ session.at \in {"talk", "send", "receive"}
    /\ WorkerStep(s)

CandidateReads ==
    /\ session # NULL /\ session.inbox > 0
    /\ CandidateStep([session EXCEPT !.inbox = @ - 1])

CandidateWrites(ends) ==
    /\ session # NULL /\ session.child = "running"
    /\ session.bytes + session.unread <= OutputLimit
    /\ CandidateStep([session EXCEPT !.unread = @ + 1, !.ends = @ + ends])

CandidateLeaves(child) ==
    /\ session # NULL /\ session.child # child
    /\ CandidateStep([session EXCEPT !.child = child])

-----------------------------------------------------------------------------
\* The end of a test.  A child the worker leaves behind lives on, unless bwrap
\* binds its life to the worker's (--die-with-parent).
Left == IF session # NULL /\ Alive(session.child) /\ ~ pkg.host.bwrap THEN {test} ELSE {}

\* What the worker printed, if it came to that.
Replied(status) == session # NULL /\ session.reply # NULL /\ session.reply.status = status

WorkerEnds ==
    /\ IsInteractive /\ stage = "test" /\ Ended
    /\ strays' = strays \cup Left
    /\ session' = NULL
    /\ UNCHANGED baseline
    /\ \/ /\ Verdict(proc) = "TLE"
          /\ RecordRow(MakeRow("TLE", 0), "test", "score") /\ UNCHANGED faults
       \/ /\ Verdict(proc) \notin {"OK", "TLE"}
          /\ Fail(IF proc.st = "unstarted" THEN {"host"} ELSE {})
       \/ /\ Verdict(proc) = "OK"
          /\ Fail({"author"})     \* the interactor printed or left: no JSON
       \/ /\ Verdict(proc) = "OK" /\ Replied("failed")
          /\ Fail({})
       \/ /\ Verdict(proc) = "OK" /\ Replied("completed")
          /\ RecordRow(MakeRow(session.reply.verdict, session.reply.score), "test", "score")
          /\ UNCHANGED faults

StrayEnds(t) ==
    /\ t \in strays
    /\ strays' = strays \ {t}
    /\ UNCHANGED <<graderVars, baseline, session>>

ScoreInteraction ==
    /\ IsInteractive /\ stage = "score"
    /\ Complete(SumScores(rows) \div Len(rows),
                FirstVerdict(rows, Verdicts \ {"AC"}, "AC"))
    /\ UNCHANGED <<pkg, test, rows, faults, baseline, interactiveVars>>

WorkerNext ==
    \/ SetUpSession \/ CompilerEnds \/ Send \/ Receive \/ CloseSession \/ PrintReply

InteractorNext ==
    \/ \E what \in {"send", "receive"} : InteractorTalks(what)
    \/ \E verdict \in {"AC", "WA"}, score \in {0, Unit} : InteractorReturns(verdict, score)
    \/ \E verdict \in {"RE", "TLE", "OLE"} : InteractorMisbehaves(verdict)
    \/ InteractorRaises \/ \E rc \in {0, 1} : InteractorExits(rc)
    \/ WorkerDies \/ WorkerComplains

CandidateNext ==
    \/ CandidateReads
    \/ \E ends \in {0, 1} : CandidateWrites(ends)
    \/ \E child \in {"mute", "exit0", "exit1"} : CandidateLeaves(child)

InteractiveNext ==
    \/ LoadInteractive \/ StartWorker \/ WorkerEnds \/ ScoreInteraction

-----------------------------------------------------------------------------
\* The worker accepts a candidate only if it ended by itself with status 0,
\* whatever the interactor returned and whenever the candidate went.
AcceptedCandidatesEnded ==
    session # NULL /\ session.at = "print" /\ session.reply # NULL /\ session.reply.verdict = "AC"
        => session.child = "exit0"

\* A child outlives its worker only where the evaluator's own limit, or the
\* worker's death, took the worker away: every test whose row says anything
\* else than TLE left nothing behind.
StraysAreTimeouts ==
    /\ strays \subseteq 1 .. Tests
    /\ \A t \in strays \cap DOMAIN rows : rows[t].verdict = "TLE"
    /\ session # NULL /\ session.at = "print" => ~ Alive(session.child)
=============================================================================
