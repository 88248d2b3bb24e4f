-------------------------- MODULE ExecutionWorkers --------------------------
(***************************************************************************)
(* The worker processes of worker.py (LocalWorker and RemoteWorker) on top *)
(* of the store: claim a job, look for a cancellation, stage the inputs,   *)
(* run the sandbox while a heartbeat thread renews the lease, look for a   *)
(* cancellation again, and report.  A process may crash between any two    *)
(* steps and comes back with the same id; a renewal or a report may fail;  *)
(* the report of a RemoteWorker may also reach the server after its client *)
(* gave up waiting and the process went on.                                *)
(*                                                                         *)
(* The sandbox and the artifact store are external: what they decide is a  *)
(* free choice of result or failure.                                       *)
(***************************************************************************)
EXTENDS JudgeStore

CONSTANTS Bring,      \* Bring[w]: the offer worker w claims with
          ZeroScore,  \* the 0.0 a worker reports with "canceled"
          RemoteWorkers \* those that report over HTTP: a report may be late

ASSUME WorkerAssumption ==
    /\ Bring \in [Workers -> Offers]
    /\ ZeroScore \in Scores
    /\ RemoteWorkers \subseteq Workers
    /\ NULL \notin Executions

VARIABLES pc,         \* where process_one of each worker is
          job,        \* the claimed execution, or NULL
          renewer,    \* the execution its heartbeat thread renews, or NULL
          report,     \* the result it is about to report
          late,       \* a report still on its way, or NULL
          fresh       \* ghost: the job was not taken away since the claim

workerVars == <<pc, job, renewer, report, late, fresh>>
allVars == <<vars, workerVars>>

Result == [status : TERMINAL_STATUSES, score : Scores \cup {NULL}]
Failure == [status |-> "failed", score |-> NULL]
CanceledResult == [status |-> "canceled", score |-> ZeroScore]
\* _validated_runner_result lets only these two statuses through.
RunnerResults == {r \in Result : r.status \in {"completed", "failed"}}

WorkersTypeOK ==
    /\ TypeOK
    /\ pc \in [Workers -> {"idle", "claimed", "staging", "running", "ran",
                           "reporting", "enqueue"}]
    /\ job \in [Workers -> Executions \cup {NULL}]
    /\ renewer \in [Workers -> Executions \cup {NULL}]
    /\ report \in [Workers -> Result \cup {NULL}]
    /\ late \in [Workers -> [job : Executions, result : Result, fresh : BOOLEAN]
                            \cup {NULL}]
    /\ fresh \in [Workers -> BOOLEAN]

WorkersInit ==
    /\ Init
    /\ pc = [w \in Workers |-> "idle"]
    /\ job = [w \in Workers |-> NULL]
    /\ renewer = [w \in Workers |-> NULL]
    /\ report = [w \in Workers |-> NULL]
    /\ late = [w \in Workers |-> NULL]
    /\ fresh = [w \in Workers |-> FALSE]

-----------------------------------------------------------------------------
\* The reclaim pass of any claim_next takes expired runs from their workers.
TakenAway(e) == e # NULL /\ Expired(e)
StillFresh == [w \in Workers |-> fresh[w] /\ ~TakenAway(job[w])]
LateAfterReclaim ==
    [w \in Workers |->
        IF late[w] # NULL /\ TakenAway(late[w].job)
        THEN [late[w] EXCEPT !.fresh = FALSE] ELSE late[w]]

FindNoJob(w) ==
    /\ pc[w] = "idle"
    /\ ClaimNothing(Bring[w])
    /\ fresh' = StillFresh
    /\ late' = LateAfterReclaim
    /\ UNCHANGED <<pc, job, renewer, report>>

ClaimJob(w) ==
    /\ pc[w] = "idle"
    /\ \E e \in Executions :
         /\ ClaimExecution(w, Bring[w], e)
         /\ job' = [job EXCEPT ![w] = e]
    /\ pc' = [pc EXCEPT ![w] = "claimed"]
    /\ fresh' = [StillFresh EXCEPT ![w] = TRUE]
    /\ late' = LateAfterReclaim
    /\ UNCHANGED <<renewer, report>>

-----------------------------------------------------------------------------
\* Steps of the worker alone: the store does not move.
Goto(w, from, to) ==
    /\ pc[w] = from
    /\ pc' = [pc EXCEPT ![w] = to]

LocalStep == UNCHANGED <<vars, job, late, fresh>>

ResultAt(w, r) == report' = [report EXCEPT ![w] = r]

\* stop.set() and join(timeout): a renewal under way may outlive the join.
StopRenewer(w) ==
    \E thread \in {NULL, renewer[w]} : renewer' = [renewer EXCEPT ![w] = thread]

CanceledBeforeStart(w) ==
    /\ Goto(w, "claimed", "reporting")
    /\ cancel_requested[job[w]]
    /\ ResultAt(w, CanceledResult)
    /\ LocalStep /\ UNCHANGED renewer

BeginStaging(w) ==
    /\ Goto(w, "claimed", "staging")
    /\ ~cancel_requested[job[w]]
    /\ LocalStep /\ UNCHANGED <<renewer, report>>

StartSandbox(w) ==
    /\ Goto(w, "staging", "running")
    /\ renewer' = [renewer EXCEPT ![w] = job[w]]
    /\ LocalStep /\ UNCHANGED report

SandboxReturns(w) ==
    /\ Goto(w, "running", "ran")
    /\ \E r \in RunnerResults : ResultAt(w, r)
    /\ StopRenewer(w)
    /\ LocalStep

\* The cancellation check after the run, then the artifacts are stored.
CheckAfterRun(w) ==
    /\ Goto(w, "ran", "reporting")
    /\ ResultAt(w, IF cancel_requested[job[w]] THEN CanceledResult ELSE report[w])
    /\ LocalStep /\ UNCHANGED renewer

\* Any exception between the claim and the report becomes a failed result.
ContainFailure(w) ==
    /\ pc[w] \in {"claimed", "staging", "running", "ran"}
    /\ pc' = [pc EXCEPT ![w] = "reporting"]
    /\ ResultAt(w, Failure)
    /\ StopRenewer(w)
    /\ LocalStep

-----------------------------------------------------------------------------
\* The heartbeat thread: it ends at the first refusal or error, and a
\* straggler after the end of the run renews at most once.
Heartbeat(w) ==
    /\ renewer[w] # NULL
    /\ RenewLease(renewer[w], w)
    /\ renewer' = [renewer EXCEPT ![w] =
                     IF pc[w] = "running" /\ job[w] = @ THEN @ ELSE NULL]
    /\ UNCHANGED <<pc, job, report, late, fresh>>

HeartbeatEnds(w) ==
    /\ renewer[w] # NULL
    /\ renewer' = [renewer EXCEPT ![w] = NULL]
    /\ UNCHANGED <<vars, pc, job, report, late, fresh>>

-----------------------------------------------------------------------------
\* Back to run_forever.
Done(w) ==
    /\ pc' = [pc EXCEPT ![w] = "idle"]
    /\ job' = [job EXCEPT ![w] = NULL]
    /\ report' = [report EXCEPT ![w] = NULL]
    /\ fresh' = [fresh EXCEPT ![w] = FALSE]

ReportAccepted(w) ==
    /\ pc[w] = "reporting"
    /\ Finish(job[w], w, report[w].status, report[w].score)
    /\ IF HasCallback(job[w]) /\ w \notin RemoteWorkers
       THEN /\ pc' = [pc EXCEPT ![w] = "enqueue"]
            /\ UNCHANGED <<job, report, fresh>>
       ELSE Done(w)
    /\ UNCHANGED <<renewer, late>>

\* finish matched no row: the worker logs "stale" and goes on.
ReportRefused(w) ==
    /\ pc[w] = "reporting"
    /\ ~OwnsLiveLease(job[w], w)
    /\ Done(w)
    /\ UNCHANGED <<vars, renewer, late>>

\* finish raised: the database failed, or the HTTP client timed out while
\* its request is still on the way.
ReportFails(w) ==
    /\ pc[w] = "reporting"
    /\ \/ UNCHANGED late
       \/ /\ w \in RemoteWorkers /\ late[w] = NULL
          /\ late' = [late EXCEPT ![w] =
                        [job |-> job[w], result |-> report[w], fresh |-> fresh[w]]]
    /\ Done(w)
    /\ UNCHANGED <<vars, renewer>>

LateReportArrives(w) ==
    /\ late[w] # NULL
    /\ \/ Finish(late[w].job, w, late[w].result.status, late[w].result.score)
       \/ ~OwnsLiveLease(late[w].job, w) /\ UNCHANGED vars
    /\ late' = [late EXCEPT ![w] = NULL]
    /\ UNCHANGED <<pc, job, renewer, report, fresh>>

\* A LocalWorker repeats the enqueue after its own finish.
EnqueueAgain(w) ==
    /\ pc[w] = "enqueue"
    /\ EnqueueCallback(job[w])
    /\ Done(w)
    /\ UNCHANGED <<renewer, late>>

Crash(w) ==
    /\ pc[w] # "idle"
    /\ Done(w)
    /\ renewer' = [renewer EXCEPT ![w] = NULL]
    /\ UNCHANGED <<vars, late>>

-----------------------------------------------------------------------------
\* Callers of the API and the clock.
Outside ==
    /\ \/ \E t \in TaskRefs : RegisterTask(t, {})
       \/ \E e \in Executions, k \in Keys, r \in Requests : Submit(e, k, r)
       \/ \E e \in Executions : Cancel(e)
       \/ Tick
    /\ UNCHANGED workerVars

WorkerStep(w) ==
    \/ FindNoJob(w) \/ ClaimJob(w)
    \/ CanceledBeforeStart(w) \/ BeginStaging(w) \/ StartSandbox(w)
    \/ SandboxReturns(w) \/ CheckAfterRun(w) \/ ContainFailure(w)
    \/ ReportAccepted(w) \/ ReportRefused(w) \/ EnqueueAgain(w)

Mishap(w) ==
    \/ HeartbeatEnds(w) \/ ReportFails(w) \/ LateReportArrives(w) \/ Crash(w)

WorkersNext ==
    \/ Outside
    \/ \E w \in Workers : WorkerStep(w) \/ Heartbeat(w) \/ Mishap(w)

WorkersSpec == WorkersInit /\ [][WorkersNext]_allVars

-----------------------------------------------------------------------------
(***************************************************************************)
(* Fairness.  run_forever never stops polling and process_one always gets  *)
(* to its report (WF).  A step is "in time" when the worker still owns a   *)
(* live lease: the heartbeat interval is a third of the lease, so being    *)
(* late, failing or crashing at the same step EVERY time is excluded (SF), *)
(* being late any finite number of times is not.                           *)
(***************************************************************************)
InTime(w) == job[w] # NULL /\ OwnsLiveLease(job[w], w)

WorkersFairness ==
    /\ WF_allVars(Tick /\ UNCHANGED workerVars)
    /\ \A w \in Workers :
         /\ WF_allVars(WorkerStep(w))
         /\ SF_allVars(InTime(w) /\ (BeginStaging(w) \/ CanceledBeforeStart(w)))
         /\ SF_allVars(InTime(w) /\ StartSandbox(w))
         /\ SF_allVars(InTime(w) /\ SandboxReturns(w))
         /\ SF_allVars(InTime(w) /\ CheckAfterRun(w))
         /\ SF_allVars(ReportAccepted(w))

FairWorkersSpec == WorkersSpec /\ WorkersFairness

-----------------------------------------------------------------------------
\* "A canceled result has no score": workers report "canceled" with 0.0, and
\* only the flag in the store, which they read two steps earlier, makes
\* finish drop it.
CanceledHasNoScore ==
    \A e \in Executions : status[e] = "canceled" => score[e] = NULL

\* A report counts only from the run that owns the execution: not from a
\* worker whose lease ran out and whose job was queued or claimed again in the
\* meantime, whatever became of its heartbeat.
OnlyCurrentRunPublishes ==
    [][\A e \in Executions, w \in Workers :
          /\ status[e] = "running" /\ status'[e] \in {"completed", "failed"}
          /\ pc[w] = "reporting" /\ pc'[w] # "reporting" /\ job[w] = e
          => fresh[w]]_allVars

\* "A stale worker result is rejected": the same of reports that arrive after
\* their sender stopped waiting for the answer.
LateReportIsCurrent ==
    [][\A e \in Executions, w \in Workers :
          /\ status[e] = "running" /\ status'[e] \in {"completed", "failed"}
          /\ late[w] # NULL /\ late'[w] = NULL /\ late[w].job = e
          => late[w].fresh]_allVars

\* Every accepted execution is settled in the end: crashes, lost reports and
\* dead heartbeats only send it back to the queue.
WorkSettles ==
    \A e \in Executions : status[e] = "queued" ~> Terminal(e)
=============================================================================
