--------------------------- MODULE WorkersProofs ----------------------------
(***************************************************************************)
(* The worker processes for any number of workers and executions and any   *)
(* mix of local and remote ones: they use the store only through its own   *)
(* operations, so everything proved of the store holds with them, and what *)
(* a worker saw of a cancellation or of its lease stays good enough for    *)
(* the report it makes later.                                              *)
(***************************************************************************)
EXTENDS ExecutionWorkers, JudgeStoreProofs

\* A worker past its claim has a job; past its run it has a result.
HasJob(w) ==
    /\ pc[w] # "idle" => job[w] \in Executions
    /\ pc[w] \in {"ran", "reporting"} => report[w] \in Result

\* "canceled" is reported only of executions whose flag is set: the flag is
\* never cleared, so it is still set when the report arrives.
SawTheFlag(w) ==
    /\ pc[w] = "ran" => report[w].status # "canceled"
    /\ pc[w] = "reporting" /\ report[w].status = "canceled" => cancel_requested[job[w]]
    /\ late[w] # NULL /\ late[w].result.status = "canceled" => cancel_requested[late[w].job]

\* A run that was taken away does not own the row: nobody but the worker itself
\* makes it an owner, and it claims nothing before it has reported.
LostMeansNotOwner(w) ==
    pc[w] # "idle" /\ ~fresh[w] => worker_id[job[w]] # w

WorkersInv ==
    /\ StoreInv
    /\ WorkersTypeOK
    /\ CanceledHasNoScore
    /\ \A w \in Workers : HasJob(w) /\ SawTheFlag(w) /\ LostMeansNotOwner(w)

-----------------------------------------------------------------------------
\* A worker reports only results that finish accepts, about its own job.
LEMMA ReportIsWellFormed ==
    ASSUME WorkersInv, NEW w \in Workers
    PROVE  /\ pc[w] = "reporting" =>
                job[w] \in Executions /\ report[w].status \in TERMINAL_STATUSES
                  /\ report[w].score \in Scores \cup {NULL}
           /\ late[w] # NULL =>
                late[w].job \in Executions /\ late[w].result.status \in TERMINAL_STATUSES
                  /\ late[w].result.score \in Scores \cup {NULL}
  BY DEF WorkersInv, WorkersTypeOK, HasJob, Result

\* What a worker process does to the tables is one operation of the store.
LEMMA WorkersUseTheStore ==
    ASSUME WorkersInv, [WorkersNext]_allVars PROVE [Next]_vars
  <1> USE DEF Next, ExecutionNext, DeliveryNext
  <1>1. CASE Outside
    BY <1>1 DEF Outside
  <1>2. ASSUME NEW w \in Workers, FindNoJob(w) \/ ClaimJob(w) PROVE [Next]_vars
    <2>1. Bring[w] \in Offers
      BY WorkerAssumption
    <2>2. ClaimNext(w, Bring[w])
      BY <1>2 DEF FindNoJob, ClaimJob, ClaimNext
    <2> QED BY <2>1, <2>2
  <1>3. ASSUME NEW w \in Workers, ReportAccepted(w) \/ LateReportArrives(w) PROVE [Next]_vars
    BY <1>3, ReportIsWellFormed DEF ReportAccepted, LateReportArrives
  <1>4. ASSUME NEW w \in Workers, EnqueueAgain(w) PROVE [Next]_vars
    <2>1. job[w] \in Executions /\ EnqueueCallback(job[w])
      BY <1>4 DEF EnqueueAgain, WorkersInv, HasJob
    <2> QED BY <2>1
  <1>5. ASSUME NEW w \in Workers, Heartbeat(w) PROVE [Next]_vars
    <2>1. renewer[w] \in Executions /\ RenewLease(renewer[w], w)
      BY <1>5 DEF Heartbeat, WorkersInv, WorkersTypeOK
    <2> QED BY <2>1
  <1> HIDE DEF Next, ExecutionNext, DeliveryNext
  <1>6. CASE UNCHANGED vars
    BY <1>6
  <1>7. ASSUME NEW w \in Workers, WorkerStep(w) \/ Mishap(w) PROVE [Next]_vars
    BY <1>2, <1>3, <1>4, <1>6, <1>7
    DEF WorkerStep, Mishap, CanceledBeforeStart, BeginStaging, StartSandbox, SandboxReturns, CheckAfterRun,
        ContainFailure, ReportRefused, HeartbeatEnds, ReportFails, Crash, LocalStep
  <1> QED BY <1>1, <1>5, <1>6, <1>7 DEF WorkersNext, allVars

\* The flag of a cancellation is never cleared.
LEMMA FlagStays ==
    ASSUME TypeOK, [Next]_vars, NEW e \in Executions, cancel_requested[e]
    PROVE  cancel_requested'[e]
  <1>1. CASE \E f \in Executions : Cancel(f)
    BY <1>1 DEF Cancel, TypeOK
  <1>2. CASE UNCHANGED cancel_requested
    BY <1>2
  <1>3. CASE ExecutionNext
    BY <1>1, <1>2, <1>3
    DEF ExecutionNext, RegisterTask, Submit, ClaimNext, ClaimNothing, ClaimExecution, ReclaimRest, Finish,
        RenewLease, executionVars
  <1>4. CASE DeliveryNext
    BY <1>2, <1>4
    DEF DeliveryNext, EnqueueCallback, ClaimCallback, MarkCallbackDeliveredByOwner, MarkCallbackFailed,
        ReplayCallback, UpdateDelivery, executionVars
  <1> QED BY <1>2, <1>3, <1>4 DEF Next, Tick, vars, executionVars

-----------------------------------------------------------------------------
\* The memory of the worker processes stays well typed.
LEMMA WorkersTypeStep ==
    ASSUME WorkersInv, [WorkersNext]_allVars PROVE WorkersTypeOK'
  <1>0. TypeOK'
    BY WorkersUseTheStore, TypeStep DEF WorkersInv, StoreInv
  <1> USE <1>0, WorkerAssumption DEF WorkersInv, WorkersTypeOK
  <1>1. CASE UNCHANGED workerVars
    BY <1>1 DEF workerVars
  <1>2. /\ StillFresh \in [Workers -> BOOLEAN]
        /\ LateAfterReclaim \in [Workers -> [job : Executions, result : Result, fresh : BOOLEAN] \cup {NULL}]
    BY DEF StillFresh, LateAfterReclaim
  <1>3. ASSUME NEW w \in Workers, FindNoJob(w) PROVE WorkersTypeOK'
    BY <1>2, <1>3 DEF FindNoJob
  <1>4. ASSUME NEW w \in Workers, ClaimJob(w) PROVE WorkersTypeOK'
    BY <1>2, <1>4 DEF ClaimJob
  <1>5. CanceledResult \in Result /\ Failure \in Result /\ RunnerResults \subseteq Result
    BY DEF CanceledResult, Failure, Result, RunnerResults, TERMINAL_STATUSES
  <1>6. ASSUME NEW w \in Workers, Done(w)
        PROVE  /\ pc' \in [Workers -> {"idle", "claimed", "staging", "running", "ran", "reporting", "enqueue"}]
               /\ job' \in [Workers -> Executions \cup {NULL}]
               /\ report' \in [Workers -> Result \cup {NULL}]
               /\ fresh' \in [Workers -> BOOLEAN]
    BY <1>6 DEF Done
  <1>7. ASSUME NEW w \in Workers, CanceledBeforeStart(w) PROVE WorkersTypeOK'
    BY <1>5, <1>7 DEF CanceledBeforeStart, Goto, ResultAt, LocalStep
  <1>8. ASSUME NEW w \in Workers, BeginStaging(w) \/ StartSandbox(w) PROVE WorkersTypeOK'
    BY <1>8 DEF BeginStaging, StartSandbox, Goto, LocalStep
  <1>9. ASSUME NEW w \in Workers, StopRenewer(w) PROVE renewer' \in [Workers -> Executions \cup {NULL}]
    BY <1>9 DEF StopRenewer
  <1>10. ASSUME NEW w \in Workers, SandboxReturns(w) PROVE WorkersTypeOK'
    BY <1>5, <1>9, <1>10 DEF SandboxReturns, Goto, ResultAt, LocalStep
  <1>11. ASSUME NEW w \in Workers, CheckAfterRun(w) PROVE WorkersTypeOK'
    BY <1>5, <1>11 DEF CheckAfterRun, Goto, ResultAt, LocalStep
  <1>12. ASSUME NEW w \in Workers, ContainFailure(w) PROVE WorkersTypeOK'
    BY <1>5, <1>9, <1>12 DEF ContainFailure, ResultAt, LocalStep
  <1>13. ASSUME NEW w \in Workers, Heartbeat(w) \/ HeartbeatEnds(w) PROVE WorkersTypeOK'
    BY <1>13 DEF Heartbeat, HeartbeatEnds
  <1>14. ASSUME NEW w \in Workers, ReportAccepted(w) PROVE WorkersTypeOK'
    BY <1>6, <1>14 DEF ReportAccepted
  <1>15. ASSUME NEW w \in Workers, ReportRefused(w) \/ EnqueueAgain(w) \/ Crash(w) PROVE WorkersTypeOK'
    BY <1>6, <1>15 DEF ReportRefused, EnqueueAgain, Crash
  <1>16. ASSUME NEW w \in Workers, ReportFails(w) PROVE WorkersTypeOK'
    <2>1. job[w] \in Executions /\ report[w] \in Result /\ fresh[w] \in BOOLEAN
      BY <1>16 DEF ReportFails, HasJob
    <2>2. [job |-> job[w], result |-> report[w], fresh |-> fresh[w]]
            \in [job : Executions, result : Result, fresh : BOOLEAN]
      BY <2>1
    <2> QED BY <1>6, <1>16, <2>2 DEF ReportFails
  <1>17. ASSUME NEW w \in Workers, LateReportArrives(w) PROVE WorkersTypeOK'
    BY <1>17 DEF LateReportArrives
  <1> HIDE DEF WorkersInv, WorkersTypeOK
  <1>18. ASSUME NEW w \in Workers, WorkerStep(w) PROVE WorkersTypeOK'
    BY <1>3, <1>4, <1>7, <1>8, <1>10, <1>11, <1>12, <1>14, <1>15, <1>18 DEF WorkerStep
  <1>19. ASSUME NEW w \in Workers, Mishap(w) PROVE WorkersTypeOK'
    BY <1>13, <1>15, <1>16, <1>17, <1>19 DEF Mishap
  <1> QED BY <1>1, <1>13, <1>18, <1>19 DEF WorkersNext, Outside, allVars

\* Where a worker process is, seen from any one worker: a step moves only the
\* worker that takes it, and only its claim moves it away from "idle".
LEMMA HasJobStep ==
    ASSUME WorkersInv, [WorkersNext]_allVars, NEW v \in Workers PROVE HasJob(v)'
  <1>0. HasJob(v) /\ WorkersTypeOK
    BY DEF WorkersInv
  <1> USE <1>0 DEF HasJob, WorkersTypeOK
  <1>1. CASE UNCHANGED <<pc, job, report>>
    BY <1>1
  <1>2. ASSUME NEW w \in Workers, ClaimJob(w) PROVE HasJob(v)'
    BY <1>2 DEF ClaimJob
  <1>3. ASSUME NEW w \in Workers, NEW to, pc' = [pc EXCEPT ![w] = to], pc[w] # "idle", UNCHANGED job,
               \/ to \notin {"ran", "reporting"} /\ UNCHANGED report
               \/ \E r \in Result : ResultAt(w, r)
        PROVE  HasJob(v)'
    BY <1>3 DEF ResultAt
  <1>4. ASSUME NEW w \in Workers, Done(w) PROVE HasJob(v)'
    BY <1>4 DEF Done
  <1>5. CanceledResult \in Result /\ Failure \in Result /\ RunnerResults \subseteq Result
    BY WorkerAssumption DEF CanceledResult, Failure, Result, RunnerResults, TERMINAL_STATUSES
  <1> HIDE DEF HasJob, WorkersTypeOK
  <1>6. ASSUME NEW w \in Workers, CanceledBeforeStart(w) PROVE HasJob(v)'
    BY <1>3, <1>5, <1>6 DEF CanceledBeforeStart, Goto, LocalStep
  <1>7. ASSUME NEW w \in Workers, BeginStaging(w) \/ StartSandbox(w) PROVE HasJob(v)'
    BY <1>3, <1>7 DEF BeginStaging, StartSandbox, Goto, LocalStep
  <1>8. ASSUME NEW w \in Workers, SandboxReturns(w) PROVE HasJob(v)'
    BY <1>3, <1>5, <1>8 DEF SandboxReturns, Goto, LocalStep
  <1>9. ASSUME NEW w \in Workers, CheckAfterRun(w) PROVE HasJob(v)'
    <2>1. report[w] \in Result
      BY <1>9 DEF CheckAfterRun, Goto, WorkersInv, HasJob
    <2> QED BY <1>3, <1>5, <1>9, <2>1 DEF CheckAfterRun, Goto, LocalStep
  <1>10. ASSUME NEW w \in Workers, ContainFailure(w) PROVE HasJob(v)'
    <2>1. pc[w] # "idle"
      BY <1>10 DEF ContainFailure
    <2> QED BY <1>3, <1>5, <1>10, <2>1 DEF ContainFailure, LocalStep
  <1>11. ASSUME NEW w \in Workers, ReportAccepted(w) PROVE HasJob(v)'
    BY <1>3, <1>4, <1>11 DEF ReportAccepted
  <1>12. ASSUME NEW w \in Workers, WorkerStep(w) \/ Heartbeat(w) \/ Mishap(w) PROVE HasJob(v)'
    BY <1>1, <1>2, <1>4, <1>6, <1>7, <1>8, <1>9, <1>10, <1>11, <1>12
    DEF WorkerStep, Mishap, FindNoJob, ReportRefused, EnqueueAgain, Heartbeat, HeartbeatEnds, ReportFails,
        LateReportArrives, Crash
  <1> QED BY <1>1, <1>12 DEF WorkersNext, Outside, allVars, workerVars

\* A worker reports "canceled" after it read the flag, and the flag stays.
LEMMA SawTheFlagStep ==
    ASSUME WorkersInv, [WorkersNext]_allVars, NEW v \in Workers PROVE SawTheFlag(v)'
  <1>0. HasJob(v) /\ SawTheFlag(v) /\ WorkersTypeOK /\ TypeOK
    BY DEF WorkersInv, StoreInv
  <1>1. \A e \in Executions : cancel_requested[e] => cancel_requested'[e]
    BY <1>0, FlagStays, WorkersUseTheStore
  <1>2. late[v] # NULL => late[v].job \in Executions
    BY <1>0 DEF WorkersTypeOK
  <1> USE <1>0, <1>1, <1>2 DEF HasJob, SawTheFlag
  <1>3. CASE UNCHANGED <<pc, job, report, late>>
    BY <1>3
  <1>4. ASSUME NEW w \in Workers, FindNoJob(w) PROVE SawTheFlag(v)'
    <2>1. late'[v] # NULL => late[v] # NULL /\ late'[v].job = late[v].job /\ late'[v].result = late[v].result
      BY <1>4 DEF FindNoJob, LateAfterReclaim, WorkersTypeOK
    <2> QED BY <1>4, <2>1 DEF FindNoJob
  <1>5. ASSUME NEW w \in Workers, ClaimJob(w) PROVE SawTheFlag(v)'
    <2>1. late'[v] # NULL => late[v] # NULL /\ late'[v].job = late[v].job /\ late'[v].result = late[v].result
      BY <1>5 DEF ClaimJob, LateAfterReclaim, WorkersTypeOK
    <2>2. w = v => pc'[v] = "claimed"
      BY <1>5 DEF ClaimJob, WorkersTypeOK
    <2>3. w # v => pc'[v] = pc[v] /\ job'[v] = job[v]
      BY <1>5 DEF ClaimJob, WorkersTypeOK
    <2> QED BY <1>5, <2>1, <2>2, <2>3 DEF ClaimJob
  <1>6. ASSUME NEW w \in Workers, NEW to, pc' = [pc EXCEPT ![w] = to], UNCHANGED <<job, late>>,
               \/ to \notin {"ran", "reporting"} /\ UNCHANGED report
               \/ \E r : /\ ResultAt(w, r)
                         /\ to = "ran" => r.status # "canceled"
                         /\ to = "reporting" /\ r.status = "canceled" =>
                              job[w] \in Executions /\ cancel_requested[job[w]]
        PROVE  SawTheFlag(v)'
    <2>1. CASE w # v
      BY <1>6, <2>1 DEF ResultAt, WorkersTypeOK
    <2>2. CASE w = v
      BY <1>6, <2>2 DEF ResultAt, WorkersTypeOK
    <2> QED BY <2>1, <2>2
  <1>7. ASSUME NEW w \in Workers, Done(w), UNCHANGED late PROVE SawTheFlag(v)'
    BY <1>7 DEF Done, WorkersTypeOK
  <1>8. ASSUME NEW w \in Workers, ReportFails(w) PROVE SawTheFlag(v)'
    <2>1. CASE w # v
      BY <1>8, <2>1 DEF ReportFails, Done, WorkersTypeOK
    <2>2. CASE w = v
      <3>1. pc'[v] = "idle"
        BY <1>8, <2>2 DEF ReportFails, Done, WorkersTypeOK
      <3>2. late'[v] = late[v] \/ late'[v] = [job |-> job[v], result |-> report[v], fresh |-> fresh[v]]
        BY <1>8, <2>2 DEF ReportFails, WorkersTypeOK
      <3> QED BY <1>8, <2>2, <3>1, <3>2 DEF ReportFails
    <2> QED BY <2>1, <2>2
  <1>9. ASSUME NEW w \in Workers, LateReportArrives(w) PROVE SawTheFlag(v)'
    BY <1>9 DEF LateReportArrives, WorkersTypeOK
  <1> HIDE DEF SawTheFlag
  <1>10. ASSUME NEW w \in Workers, pc[w] # "idle" PROVE job[w] \in Executions
    BY <1>10 DEF WorkersInv
  <1>11. ASSUME NEW w \in Workers, CanceledBeforeStart(w) PROVE SawTheFlag(v)'
    <2>1. job[w] \in Executions
      BY <1>10, <1>11 DEF CanceledBeforeStart, Goto
    <2> QED BY <1>6, <1>11, <2>1 DEF CanceledBeforeStart, Goto, LocalStep
  <1>12. ASSUME NEW w \in Workers, BeginStaging(w) \/ StartSandbox(w) PROVE SawTheFlag(v)'
    BY <1>6, <1>12 DEF BeginStaging, StartSandbox, Goto, LocalStep
  <1>13. ASSUME NEW w \in Workers, SandboxReturns(w) PROVE SawTheFlag(v)'
    <2>1. PICK r \in RunnerResults : ResultAt(w, r)
      BY <1>13 DEF SandboxReturns
    <2>2. r.status # "canceled"
      BY DEF RunnerResults
    <2> QED BY <1>6, <1>13, <2>1, <2>2 DEF SandboxReturns, Goto, LocalStep
  <1>14. ASSUME NEW w \in Workers, CheckAfterRun(w) PROVE SawTheFlag(v)'
    <2>1. job[w] \in Executions /\ report[w].status # "canceled"
      BY <1>10, <1>14 DEF CheckAfterRun, Goto, WorkersInv, SawTheFlag
    <2> QED BY <1>6, <1>14, <2>1 DEF CheckAfterRun, Goto, LocalStep
  <1>15. ASSUME NEW w \in Workers, ContainFailure(w) PROVE SawTheFlag(v)'
    <2>1. Failure.status # "canceled"
      BY DEF Failure
    <2> QED BY <1>6, <1>15, <2>1 DEF ContainFailure, LocalStep
  <1>16. ASSUME NEW w \in Workers, ReportAccepted(w) PROVE SawTheFlag(v)'
    BY <1>6, <1>7, <1>16 DEF ReportAccepted
  <1>17. ASSUME NEW w \in Workers, ReportRefused(w) \/ EnqueueAgain(w) \/ Crash(w) PROVE SawTheFlag(v)'
    BY <1>7, <1>17 DEF ReportRefused, EnqueueAgain, Crash
  <1>18. ASSUME NEW w \in Workers, Heartbeat(w) \/ HeartbeatEnds(w) PROVE SawTheFlag(v)'
    BY <1>3, <1>18 DEF Heartbeat, HeartbeatEnds
  <1>19. ASSUME NEW w \in Workers, WorkerStep(w) \/ Heartbeat(w) \/ Mishap(w) PROVE SawTheFlag(v)'
    BY <1>4, <1>5, <1>8, <1>9, <1>11, <1>12, <1>13, <1>14, <1>15, <1>16, <1>17, <1>18, <1>19
    DEF WorkerStep, Mishap
  <1> QED BY <1>3, <1>19 DEF WorkersNext, Outside, allVars, workerVars

\* Once a run was taken away, its worker does not get the row back before it
\* has gone through "idle".
LEMMA LostMeansNotOwnerStep ==
    ASSUME WorkersInv, [WorkersNext]_allVars, NEW v \in Workers PROVE LostMeansNotOwner(v)'
  <1>0. StoreInv /\ TypeOK /\ WorkersTypeOK /\ HasJob(v) /\ LostMeansNotOwner(v) /\ v # NULL
    BY StoreAssumption DEF WorkersInv, StoreInv
  <1> SUFFICES ASSUME pc'[v] # "idle", ~fresh'[v] PROVE worker_id'[job'[v]] # v
    BY DEF LostMeansNotOwner
  <1>1. ASSUME pc[v] # "idle", ~fresh[v], job'[v] = job[v], worker_id'[job[v]] \in {worker_id[job[v]], NULL}
        PROVE  worker_id'[job'[v]] # v
    BY <1>0, <1>1 DEF LostMeansNotOwner
  <1>2. ASSUME pc[v] # "idle", TakenAway(job[v]), job'[v] = job[v], worker_id'[job[v]] = NULL
        PROVE  worker_id'[job'[v]] # v
    BY <1>0, <1>2
  <1>3. pc[v] # "idle" => job[v] \in Executions
    BY <1>0 DEF HasJob
  <1>4. ASSUME NEW e \in Executions
        PROVE  /\ ReclaimedWorker(ExpiredRows)[e] \in {worker_id[e], NULL}
               /\ TakenAway(e) => ReclaimedWorker(ExpiredRows)[e] = NULL
    BY <1>0, ReclaimPass DEF TakenAway
  <1>5. ASSUME NEW w \in Workers, FindNoJob(w) PROVE worker_id'[job'[v]] # v
    <2>1. UNCHANGED <<pc, job>> /\ worker_id' = ReclaimedWorker(ExpiredRows)
      BY <1>5 DEF FindNoJob, ClaimNothing, ReclaimOnly
    <2>2. ~fresh[v] \/ TakenAway(job[v])
      BY <1>5 DEF FindNoJob, StillFresh
    <2> QED BY <1>1, <1>2, <1>3, <1>4, <2>1, <2>2
  <1>6. ASSUME NEW w \in Workers, ClaimJob(w) PROVE worker_id'[job'[v]] # v
    <2>1. w # v
      BY <1>6 DEF ClaimJob, StillFresh
    <2>2. PICK e \in Executions : ClaimExecution(w, Bring[w], e) /\ job' = [job EXCEPT ![w] = e]
      BY <1>6 DEF ClaimJob
    <2>3. pc[v] # "idle" /\ job'[v] = job[v] /\ (~fresh[v] \/ TakenAway(job[v]))
      BY <1>0, <1>6, <2>1, <2>2 DEF ClaimJob, StillFresh, WorkersTypeOK
    <2>4. worker_id' = [ReclaimedWorker(ExpiredRows) EXCEPT ![e] = w]
      BY <2>2 DEF ClaimExecution, ReclaimAndRun
    <2>5. CASE job[v] = e
      BY <2>1, <2>3, <2>4, <2>5 DEF ReclaimedWorker
    <2>6. CASE job[v] # e
      <3>1. worker_id'[job[v]] = ReclaimedWorker(ExpiredRows)[job[v]]
        BY <1>3, <2>3, <2>4, <2>6 DEF ReclaimedWorker
      <3> QED BY <1>1, <1>2, <1>3, <1>4, <2>3, <3>1
    <2> QED BY <2>5, <2>6
  <1>7. ASSUME UNCHANGED worker_id, job'[v] = job[v], fresh'[v] = fresh[v], pc[v] # "idle"
        PROVE  worker_id'[job'[v]] # v
    BY <1>1, <1>7
  <1>8. ASSUME NEW w \in Workers, w = v, Done(w) PROVE FALSE
    BY <1>0, <1>8 DEF Done, WorkersTypeOK
  <1>9. ASSUME NEW w \in Workers, w # v, Done(w)
        PROVE  pc[v] # "idle" /\ job'[v] = job[v] /\ fresh'[v] = fresh[v]
    BY <1>0, <1>9 DEF Done, WorkersTypeOK
  <1>10. ASSUME NEW w \in Workers, Done(w), UNCHANGED worker_id PROVE worker_id'[job'[v]] # v
    BY <1>7, <1>8, <1>9, <1>10
  <1>11. ASSUME NEW e, NEW w, NEW s, NEW r, Finish(e, w, s, r), NEW f \in Executions
         PROVE  worker_id'[f] \in {worker_id[f], NULL}
    BY <1>0, <1>11 DEF Finish, TypeOK
  <1>12. ASSUME NEW w \in Workers, ReportAccepted(w) PROVE worker_id'[job'[v]] # v
    <2>1. CASE w = v
      <3>1. job'[v] = job[v] /\ pc[v] = "reporting"
        BY <1>8, <1>12, <2>1 DEF ReportAccepted
      <3>2. worker_id'[job[v]] = NULL
        BY <1>0, <1>3, <1>12, <2>1, <3>1 DEF ReportAccepted, Finish, TypeOK
      <3> QED BY <1>0, <3>1, <3>2
    <2>2. CASE w # v
      <3>1. pc[v] # "idle" /\ job'[v] = job[v] /\ fresh'[v] = fresh[v]
        BY <1>0, <1>9, <1>12, <2>2 DEF ReportAccepted, WorkersTypeOK
      <3> QED BY <1>1, <1>3, <1>11, <1>12, <3>1 DEF ReportAccepted
    <2> QED BY <2>1, <2>2
  <1>13. ASSUME NEW w \in Workers, LateReportArrives(w) PROVE worker_id'[job'[v]] # v
    <2>1. pc[v] # "idle" /\ job'[v] = job[v] /\ fresh'[v] = fresh[v]
      BY <1>13 DEF LateReportArrives
    <2>2. worker_id'[job[v]] \in {worker_id[job[v]], NULL}
      BY <1>3, <1>11, <1>13, <2>1 DEF LateReportArrives, vars, executionVars
    <2> QED BY <1>1, <2>1, <2>2
  <1>14. ASSUME NEW w \in Workers, NEW to, pc' = [pc EXCEPT ![w] = to], pc[w] # "idle",
                UNCHANGED <<worker_id, job, fresh>>
         PROVE  worker_id'[job'[v]] # v
    <2>1. pc[v] # "idle"
      BY <1>0, <1>14 DEF WorkersTypeOK
    <2> QED BY <1>7, <1>14, <2>1
  <1>15. ASSUME NEW w \in Workers,
                \/ CanceledBeforeStart(w) \/ BeginStaging(w) \/ StartSandbox(w)
                \/ SandboxReturns(w) \/ CheckAfterRun(w) \/ ContainFailure(w)
         PROVE  worker_id'[job'[v]] # v
    <2>1. pc[w] # "idle" /\ \E to : pc' = [pc EXCEPT ![w] = to]
      BY <1>15
      DEF CanceledBeforeStart, BeginStaging, StartSandbox, SandboxReturns, CheckAfterRun, ContainFailure, Goto
    <2>2. UNCHANGED <<worker_id, job, fresh>>
      BY <1>15
      DEF CanceledBeforeStart, BeginStaging, StartSandbox, SandboxReturns, CheckAfterRun, ContainFailure,
          LocalStep, vars, executionVars
    <2> QED BY <1>14, <2>1, <2>2
  <1>16. ASSUME NEW w \in Workers, ReportRefused(w) \/ ReportFails(w) \/ EnqueueAgain(w) \/ Crash(w)
         PROVE  worker_id'[job'[v]] # v
    BY <1>10, <1>16
    DEF ReportRefused, ReportFails, EnqueueAgain, EnqueueCallback, UpdateDelivery, Crash, vars, executionVars
  <1>17. CASE UNCHANGED <<worker_id, pc, job, fresh>>
    BY <1>7, <1>17
  <1>18. ASSUME NEW w \in Workers, Heartbeat(w) \/ HeartbeatEnds(w) PROVE worker_id'[job'[v]] # v
    BY <1>17, <1>18 DEF Heartbeat, RenewLease, HeartbeatEnds, vars, executionVars
  <1>19. CASE Outside
    BY <1>17, <1>19 DEF Outside, RegisterTask, Submit, Cancel, Tick, workerVars, executionVars
  <1>20. ASSUME NEW w \in Workers, WorkerStep(w) \/ Heartbeat(w) \/ Mishap(w) PROVE worker_id'[job'[v]] # v
    BY <1>5, <1>6, <1>12, <1>13, <1>15, <1>16, <1>18, <1>20 DEF WorkerStep, Mishap
  <1> QED BY <1>17, <1>19, <1>20 DEF WorkersNext, allVars, workerVars, vars, executionVars

\* finish, cancel and the reclaim pass settle an execution as canceled without
\* a score, as long as reports of "canceled" meet a set flag.
LEMMA CanceledStep ==
    ASSUME WorkersInv, [WorkersNext]_allVars PROVE CanceledHasNoScore'
  <1> SUFFICES ASSUME NEW f \in Executions, status'[f] = "canceled" PROVE score'[f] = NULL
    BY DEF CanceledHasNoScore
  <1>0. StoreInv /\ TypeOK /\ RowInv(f) /\ (status[f] = "canceled" => score[f] = NULL)
    BY StoreInvByRow DEF WorkersInv, CanceledHasNoScore
  <1>1. ASSUME status'[f] = status[f], score'[f] = score[f] PROVE score'[f] = NULL
    BY <1>0, <1>1
  <1>2. ASSUME status[f] \in {"queued", "running"}, score'[f] = score[f] PROVE score'[f] = NULL
    BY <1>0, <1>2 DEF RowInv, Terminal, TERMINAL_STATUSES
  <1>3. ASSUME NEW w \in Workers, FindNoJob(w) \/ ClaimJob(w) PROVE score'[f] = NULL
    <2>1. UNCHANGED score
      BY <1>3 DEF FindNoJob, ClaimJob, ClaimNothing, ClaimExecution, ReclaimRest
    <2>2. status'[f] \in {ReclaimedStatus(ExpiredRows)[f], "running"}
      BY <1>3
      DEF FindNoJob, ClaimJob, ClaimNothing, ClaimExecution, ReclaimOnly, ReclaimAndRun, ReclaimedStatus
    <2>3. status'[f] = status[f] \/ status[f] = "running"
      BY <1>0, <2>2, ReclaimPass DEF Expired
    <2> QED BY <1>1, <1>2, <2>1, <2>3
  <1>4. ASSUME NEW e \in Executions, NEW w, NEW s, NEW r, Finish(e, w, s, r),
               s = "canceled" => cancel_requested[e]
        PROVE  score'[f] = NULL
    <2>1. CASE f = e
      <3>1. status'[f] = SettledStatus(e, s) /\ score'[f] = SettledScore(e, r)
        BY <1>0, <1>4, <2>1 DEF Finish, TypeOK
      <3>2. cancel_requested[e]
        BY <1>4, <3>1 DEF SettledStatus
      <3> QED BY <3>1, <3>2 DEF SettledScore
    <2>2. CASE f # e
      BY <1>0, <1>1, <1>4, <2>2 DEF Finish, TypeOK
    <2> QED BY <2>1, <2>2
  <1>5. ASSUME NEW w \in Workers, ReportAccepted(w) PROVE score'[f] = NULL
    <2>1. job[w] \in Executions /\ (report[w].status = "canceled" => cancel_requested[job[w]])
      BY <1>5 DEF ReportAccepted, WorkersInv, HasJob, SawTheFlag
    <2> QED BY <1>4, <1>5, <2>1 DEF ReportAccepted
  <1>6. CASE UNCHANGED vars
    BY <1>1, <1>6 DEF vars, executionVars
  <1>7. ASSUME NEW w \in Workers, LateReportArrives(w) PROVE score'[f] = NULL
    <2>1. late[w].job \in Executions /\ (late[w].result.status = "canceled" => cancel_requested[late[w].job])
      BY <1>7, ReportIsWellFormed DEF LateReportArrives, WorkersInv, SawTheFlag
    <2> QED BY <1>4, <1>6, <1>7, <2>1 DEF LateReportArrives
  <1>8. CASE \E e \in Executions : Cancel(e)
    <2>1. UNCHANGED score /\ (status'[f] = status[f] \/ status[f] = "queued")
      BY <1>0, <1>8 DEF Cancel, CanceledStatus, TypeOK
    <2> QED BY <1>1, <1>2, <2>1
  <1>9. CASE \E e \in Executions, k \in Keys, r \in Requests : Submit(e, k, r)
    BY <1>0, <1>1, <1>9 DEF Submit, TypeOK
  <1>10. CASE Outside
    BY <1>1, <1>8, <1>9, <1>10 DEF Outside, RegisterTask, Tick, executionVars
  <1>11. ASSUME NEW w \in Workers, EnqueueAgain(w) \/ Heartbeat(w) PROVE score'[f] = NULL
    BY <1>1, <1>11 DEF EnqueueAgain, EnqueueCallback, UpdateDelivery, Heartbeat, RenewLease, executionVars
  <1>12. ASSUME NEW w \in Workers, WorkerStep(w) \/ Mishap(w) PROVE score'[f] = NULL
    BY <1>3, <1>5, <1>6, <1>7, <1>11, <1>12
    DEF WorkerStep, Mishap, CanceledBeforeStart, BeginStaging, StartSandbox, SandboxReturns, CheckAfterRun,
        ContainFailure, ReportRefused, HeartbeatEnds, ReportFails, Crash, LocalStep
  <1> QED BY <1>6, <1>10, <1>11, <1>12 DEF WorkersNext, allVars

-----------------------------------------------------------------------------
\* The invariant of store and workers holds in every reachable state, however
\* the processes crash, lose their heartbeats or are overtaken by their reports.
THEOREM WorkersInvariance == WorkersSpec => []WorkersInv
  <1>1. WorkersInit => WorkersInv
    <2> SUFFICES ASSUME WorkersInit PROVE WorkersInv
      OBVIOUS
    <2>1. StoreInv
      BY StoreInvInit DEF WorkersInit
    <2>2. WorkersTypeOK
      BY <2>1 DEF WorkersInit, WorkersTypeOK, StoreInv
    <2>3. CanceledHasNoScore
      BY DEF WorkersInit, Init, CanceledHasNoScore
    <2>4. ASSUME NEW w \in Workers PROVE HasJob(w) /\ SawTheFlag(w) /\ LostMeansNotOwner(w)
      BY DEF WorkersInit, HasJob, SawTheFlag, LostMeansNotOwner
    <2> QED BY <2>1, <2>2, <2>3, <2>4 DEF WorkersInv
  <1>2. WorkersInv /\ [WorkersNext]_allVars => WorkersInv'
    <2> SUFFICES ASSUME WorkersInv, [WorkersNext]_allVars PROVE WorkersInv'
      OBVIOUS
    <2>1. StoreInv'
      BY WorkersUseTheStore, StoreInvStep DEF WorkersInv
    <2> QED
      BY <2>1, WorkersTypeStep, CanceledStep, HasJobStep, SawTheFlagStep, LostMeansNotOwnerStep DEF WorkersInv
  <1> QED BY <1>1, <1>2, PTL DEF WorkersSpec

\* The workers are a correct client of the store: every behaviour of store and
\* workers is one of the store, with all that is proved of it.
THEOREM WorkersImplementStore == WorkersSpec => Spec
  <1>1. WorkersInit => Init
    BY DEF WorkersInit
  <1>2. WorkersInv /\ [WorkersNext]_allVars => [Next]_vars
    BY WorkersUseTheStore
  <1> QED BY <1>1, <1>2, WorkersInvariance, PTL DEF WorkersSpec, Spec

\* A canceled execution has no score, although workers report "canceled" with a
\* score of zero and may do so long after they read the flag.
THEOREM CanceledResultsAreEmpty == WorkersSpec => []CanceledHasNoScore
  BY WorkersInvariance, PTL DEF WorkersInv

\* No worker whose run was taken away publishes its result, whatever became of
\* its heartbeat and however often the execution was claimed since.
THEOREM StaleRunsDoNotPublish == WorkersSpec => OnlyCurrentRunPublishes
  <1>1. ASSUME WorkersInv, [WorkersNext]_allVars, NEW e \in Executions, NEW w \in Workers,
               status[e] = "running", status'[e] \in {"completed", "failed"},
               pc[w] = "reporting", pc'[w] # "reporting", job[w] = e
        PROVE  fresh[w]
    <2>0. StoreInv /\ TypeOK /\ WorkersTypeOK
      BY <1>1 DEF WorkersInv, StoreInv
    <2>1. ASSUME NEW v \in Workers, FindNoJob(v) \/ ClaimJob(v) PROVE FALSE
      <3>1. status'[e] \in {ReclaimedStatus(ExpiredRows)[e], "running"}
        BY <2>1
        DEF FindNoJob, ClaimJob, ClaimNothing, ClaimExecution, ReclaimOnly, ReclaimAndRun, ReclaimedStatus
      <3> QED BY <1>1, <2>0, <3>1, ReclaimPass
    <2>2. ASSUME UNCHANGED status PROVE FALSE
      BY <1>1, <2>2
    <2>3. ASSUME NEW v \in Workers, LateReportArrives(v) PROVE FALSE
      BY <1>1, <2>3 DEF LateReportArrives
    <2>4. ASSUME Outside PROVE FALSE
      BY <1>1, <2>4 DEF Outside, workerVars
    <2>5. ASSUME NEW v \in Workers, ReportAccepted(v) PROVE fresh[w]
      <3>1. v = w
        BY <1>1, <2>0, <2>5 DEF ReportAccepted, Done, WorkersTypeOK
      <3>2. worker_id[job[w]] = w
        BY <2>5, <3>1 DEF ReportAccepted, Finish, OwnsLiveLease
      <3> QED BY <1>1, <3>2 DEF WorkersInv, LostMeansNotOwner
    <2>6. ASSUME NEW v \in Workers, WorkerStep(v) \/ Heartbeat(v) \/ Mishap(v) PROVE fresh[w]
      BY <2>1, <2>2, <2>3, <2>5, <2>6
      DEF WorkerStep, Mishap, CanceledBeforeStart, BeginStaging, StartSandbox, SandboxReturns, CheckAfterRun,
          ContainFailure, ReportRefused, HeartbeatEnds, ReportFails, Crash, LocalStep, EnqueueAgain,
          EnqueueCallback, UpdateDelivery, Heartbeat, RenewLease, vars, executionVars
    <2> QED BY <1>1, <2>2, <2>4, <2>6 DEF WorkersNext, allVars, vars, executionVars
  <1>2. WorkersInv /\ [WorkersNext]_allVars =>
          [\A e \in Executions, w \in Workers :
              /\ status[e] = "running" /\ status'[e] \in {"completed", "failed"}
              /\ pc[w] = "reporting" /\ pc'[w] # "reporting" /\ job[w] = e
              => fresh[w]]_allVars
    BY <1>1
  <1> QED BY <1>2, WorkersInvariance, PTL DEF WorkersSpec, OnlyCurrentRunPublishes
=============================================================================
