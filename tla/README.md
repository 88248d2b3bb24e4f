# Brunost Judge: TLA+ models, checks and proofs

Brunost Judge is a control plane that accepts *executions* (a task and the
submissions to evaluate), queues them in a durable store, hands them to worker
processes under time-limited leases, records their results and notifies the
integrating platform through a callback outbox.  Around that core stand node
enrollment and credentials, an artifact store, a runtime for agents and
interactive problems, and the graders that compute verdicts and scores inside
a sandbox.

This directory models the parts whose correctness depends on order, failure and
time, checks them with TLC on small instances, and proves the central ones with
TLAPS for instances of any size.  Paths below are relative to the repository.

## 1. Inventory

| Component | State | Operations | Interacts with |
|---|---|---|---|
| Execution queue, `store.py` / `postgres_store.py` | tables `tasks`, `executions` | `register_task`, `submit`, `claim_next` (with its reclaim pass), `renew_lease`, `finish`, `cancel` | API and workers call it; settles into the outbox |
| Callback outbox, same files | table `callback_deliveries` | `enqueue_callback`, `claim_callback`, `mark_callback_delivered_by_owner`, `mark_callback_failed`, `replay_callback` | written by `finish`, `cancel` and `claim_next`; drained by senders |
| Workers, `worker.py` | the claimed job, the heartbeat thread, pending callbacks | `process_one`, `run_forever`, `_renew_execution_lease` | store (local) or HTTP API (remote), sandbox, artifacts |
| Callback delivery, `worker.py` | page of rows, letter being sent, in-memory retries | `_deliver_callbacks`, `CallbackDispatcher`, `RemoteWorker._send_callback` | outbox and the external receiver |
| HTTP API, `server.py` | none of its own beyond the limiter | one handler per endpoint | everything in the store |
| Node registry, `store.py`, `enrollment.py`, `server.py` | enrollment tokens, workers, worker credentials | create/consume token, enroll, heartbeat, advertise, drain | decides who may claim |
| Authorisation and rate limits, `auth.py` | rolling windows, token registry | allow/deny | in front of every endpoint |
| Registry of agents, games, matches, `games.py` | immutable definitions | register, expand a match | produces executions |
| Artifact store, `artifacts.py` | content-addressed files | put, get, pack, unpack | workers and API |
| Capability scheduler, `scheduler.py` | none | select | pure function |
| Agent runtime, `grader/agent_runtime.py` | child processes, stdout buffers, counters | start, request, stop | match evaluators |
| Task packages, `task.py` | the manifest and the files of a package | `validate_task`, wall time | read again, separately, by the graders |
| Classic grader, `grader/classic.py` | the child process, the row of every test | `_run_process`, reference answers, compile, test, check, score | every other grader runs its processes |
| Interactive problems, `classic.py`, `grader/interactive_worker.py` | worker, interactor and candidate, pipes, transcript | start, dialogue, close, reply | the classic grader's processes |
| Optimization, quiz and model graders, `optimization.py`, `quiz.py`, `harness.py` | baseline objectives; rows; phase, split and time spent | one `run_...` each | author code in other processes |
| Harness, `harness.py` | none between calls | dispatch, scorers, normalisation of results | author code in its own process |
| Sandbox, `sandbox.py`, `grader/evaluate.py` | the container, `results.json` | run, timeout, cleanup, collect | worker and harness |
| Contracts, SDK, CLI, deployment | none, or I/O only | | |

What is hard here, and why tests hardly reach it (PROJECT.json lists every
hazard with its line):

* **Leases.**  Several workers, an API and a clock act on one row.  A worker may
  be late, dead, restarted under the same id, or have a report on the way that
  arrives after its lease has been given to somebody else.
* **Cancellation** races with claim, run, report and reclaim, and must win over
  every result that is not settled yet, without losing the notification.
* **The outbox** must be written in the very transaction that settles a result,
  by three different writers, and be drained at least once although senders
  crash between the POST and its acknowledgement.
* **Two stores.**  One lock makes the SQLite store's operations atomic within a
  process; across processes, and on PostgreSQL at READ COMMITTED, the same
  operations are sequences of statements that see each other's commits.
* **Handlers of several store calls.**  Enrollment, capability advertisement and
  claiming read, decide and write in separate transactions, so that an API
  thread acts on rows that have changed, or dies half-way.
* **Matches.**  The runtime talks to processes it does not trust over pipes whose
  messages carry no request number: late, missing and oversized replies, seats
  that fail while others answer, and a shutdown that must end all of them.
* **Grading.**  Programs of two strangers, the contestant and the task's author,
  are run by a third, and each can fail in every way at every test.  What the
  evaluator knows comes from polls every 10 ms; limits are nested in limits; the
  fault of one party must not become the verdict of the other; and the same
  manifest is read by pieces of code that were written separately, with three
  parsers that agree on most manifests and not on all.

What makes each component correct:

* queue: a settled result is final, a live lease is exclusive, every accepted
  execution settles, cancellation beats an unsettled result;
* outbox: written with the result, delivered at least once, only final results;
* workers: only the run that holds the execution publishes;
* registry: a token joins once, no capability beyond the grant, a credential has
  a row, a drain lasts;
* agent runtime: every call returns, no process survives, an action belongs to
  its turn;
* artifact store: what `get` returns has the digest it was asked for;
* rate limiter and credentials: no more than the limit in any window, a revoked
  or expired credential admits nobody;
* graders: the verdict and score of a submission are those of the task's
  definition, whatever fails or times out in between; a fault of the author's
  code fails the evaluation; every process ends;
* task packages: what was accepted at registration can be graded, within the time
  registration gave it;
* sandbox: the worker gets the grader's result or a failure, and nothing of the
  evaluation is left behind.

## 2. Modules

| Module | Models | Built on |
|---|---|---|
| `ExecutionLifecycle` | the abstract promise about one execution: settled is final, a cancellation ends in `canceled` without a score, the callback is owed from the settling step on | - |
| `JudgeStore` | the store, one action per operation, each atomic | refines `ExecutionLifecycle`, row by row |
| `StoreTransactions` | the operations that are several SQL statements, interleaved | `JudgeStore` |
| `ExecutionWorkers` | `process_one` of local and remote workers, heartbeat threads, crashes, lost and late reports | `JudgeStore` |
| `CallbackDelivery` | dispatchers, the remote worker's own deliveries, the receiver | `JudgeStore` |
| `NodeRegistry` | enrollment, worker rows, worker credentials and the handlers around them | - |
| `AgentRuntime` | the processes, pipes and calls of one match | - |
| `TaskPackages` | manifests: what the validator asks of them, what the graders ask, the wall time | - |
| `ProcessRun` | `_run_process`: child, polls, limits, verdict; rows and results of all graders | `TaskPackages` |
| `ClassicJudge` | `run_classic` | `ProcessRun` |
| `OptimizationJudge` | `run_optimization` | `ClassicJudge` (compilation, processes) |
| `InteractiveJudge` | `run_interactive`, the interactive worker, interactor and candidate | `OptimizationJudge` |
| `QuizJudge` | `run_quiz` | `InteractiveJudge` |
| `ModelJudge` | `_run_model_submission_v2`: phases and budget | `QuizJudge` |
| `Harness` | `run`: dispatch and scorers | all graders |
| `Sandbox` | registration, both sandbox runners, the result of the worker | `Harness` |
| `JudgeStoreProofs` | theorems about `JudgeStore`, its refinement of the lifecycle included | `JudgeStore` |
| `TransactionsProofs` | theorems about `StoreTransactions` | `StoreTransactions`, `JudgeStoreProofs` |
| `WorkersProofs` | theorems about `ExecutionWorkers`, which implements the store | `ExecutionWorkers`, `JudgeStoreProofs` |
| `DeliveryProofs` | theorems about `CallbackDelivery`, which implements the store | `CallbackDelivery`, `JudgeStoreProofs` |
| `RegistryProofs` | theorems about `NodeRegistry` | `NodeRegistry` |
| `RuntimeProofs` | theorems about `AgentRuntime` | `AgentRuntime` |
| `GradingProofs` | theorems about evaluations: blame, processes, budgets, packages, containers | `Sandbox` |
| `ScoringProofs` | theorems about their verdicts and scores, and the types of their state | `GradingProofs` |
| `MC*` | constants for TLC | the module of the same name |

**JudgeStore.**  Every column of `executions` that an operation tests or that a
property speaks of is a variable, a function from execution ids; a missing row
has status `"absent"`.  Deadlines are kept as *time left*: `lease[e] = 0` is the
instant `lease_expires_at = now`, at which `finish` (`>=`) and the reclaim pass
(`<=`) both accept the row; -1 stands for every later instant.  `Tick` brings
all deadlines one unit closer.  `claim_next` is one action with two outcomes:
the reclaim pass is committed even if no row matches (`ClaimNothing`).  A call
the code refuses (unknown id, `rowcount = 0`, 409) changes nothing and is a
stuttering step.  Content that no condition reads (paths, tokens, messages,
timestamps of record) is left out; score, metrics, scores, winner and artifacts
are written together and are one value.

**StoreTransactions.**  `cancel` is a plain SELECT and a later UPDATE in both
stores; `claim_next` holds `BEGIN IMMEDIATE` on SQLite and stays one action, but
on PostgreSQL its two reclaiming UPDATEs see different commits and are two
actions with row locks in between; a broken connection rolls back.

**ExecutionWorkers.**  `pc` is the position in `process_one`.  The cancellation
flag is read before staging and again after the run, as in the code; staging is
not covered by the heartbeat, which starts with the sandbox and ends at its
first refusal or error; `join(timeout)` may leave one renewal under way.  The
sandbox is external: it returns any valid result, or the attempt fails.  `late`
is a report whose HTTP client gave up while the request is still travelling.
`fresh` is a ghost variable: the job was not reclaimed since this claim.

**CallbackDelivery.**  A sender lists due rows, claims one, reads the execution,
POSTs and acknowledges or postpones.  A remote worker keeps a failed letter in
memory and retries it without a claim, as `_deliver_pending_callbacks` does.
The receiver is external: it refuses, accepts, or accepts while the answer is
lost.  `answered` is a ghost: accepted since the last replay.

**NodeRegistry.**  The three tables are functions from tokens and worker ids.  A
handler of `server.py` is a sequence of actions, one per store call; `handler[h]`
is what API thread `h` has read so far, and a thread may die between any two
calls.  `AdvertiseWrites` writes the whole row back as it was read, as
`register_worker` does.  Capabilities stand for the columns an enrollment limits;
queues, resource classes (checked the same way), region and free metadata are
left out, and so is the anonymous development mode.  `joined`, `granted` and
`drained` are ghosts.  What a claim does to the jobs is `JudgeStore.ClaimNext`.

**AgentRuntime.**  `phase` is the call the referee is in, `wait[s]` where seat
`s` is inside `request()`, `stdin`, `stdout` and `buffer` the lines in its pipes
and in `_stdout_buffer`.  A request checks encoding and total runtime, writes
(blocking while the pipe is full), and reads in the order of `_read_message`:
complete lines, deadline, exit, chunk.  Too much unread output fails the request
and stays in the buffer.  Lines arrive whole; the serial numbers of requests are
in the model only.  Agents and referees are external and may do anything the
header of the module lists.

**TaskPackages.**  A manifest is the sequence of its lines, each a key, its case and
one of the values the code tells apart: limits, for instance, are in range, zero or
too large.  `Valid` is `validate_task`, `Loads` what the `_config` functions in
`grader/` accept of the same manifest, and each reads the lines with its own parser:
`ManifestField` (`task.py`) takes the first line of a key in any case, and an empty
value swallows the next line, because the `\s*` of `_FIELD_RE` runs over the end of
the line (`Swallowed`); `Get` (`_manifest` in `classic.py` and `quiz.py`) takes the
last line in lower case with its value as it stands, empty or not; `HarnessField`
(`harness.py`) the first line in any case, and never another line.  `Or` is
`field or default`.  A manifest is `Plain` if every key is in lower case, on one line
and has a value: there the parsers agree, and the properties that compare a promise
made at registration with what the grader does speak of such manifests.  Questions
of a quiz key keep their choices and answers.  Comments, sizes, digests and path
syntax are left out.

**ProcessRun.**  One unit of time is one sleep of the polling loop; between two
polls the child writes, complains or exits as it likes, and the evaluator sees
what is there at the next one.  `FileRoom` is `RLIMIT_FSIZE`, which covers the
file of diagnostics too.  `Verdict` is the order of tests at the end of
`_run_process`.  `faults` is a ghost: whose code, or whether the host, was the
cause of a failure.

**The graders** share `pkg`, `stage`, `test`, `rows`, `proc` and `result`: an
evaluator is sequential and `stage` is where it is; loading replaces the manifest
by the configuration made of it.  What submissions print is not modelled:
comparing tokens gives OK or WA, evaluators report any objective of a small set,
checkers and scorers may return, raise or leave by `sys.exit` (`Escape`).  Scores
are integers out of `Unit`, one part of which is what a float resolves: a ratio or
a mean is cut off there, as the float's is.  The score of an optimization or a quiz
is then rounded to the nearest `Grain`, ties to even, as `round(score, 8)` does
(`Rounded`), and a `Grain` is many parts.  `Unit` is a multiple of `Grain` and of the
number of tests.  What a scorer or a model's metric reports is any of `Numbers`, in
or out of the unit: `normalize_result` accepts every finite number.

**InteractiveJudge.**  `session` is the worker's side of one test: the position in
`run` of `interactive_worker.py`, the state of its child, the pipes and the buffer
in lines, and the reply.  The evaluator polls the worker like any process, so that
both deadlines run at once, the outer one from before the compilation.  When the
worker goes, a candidate that still runs is in `strays` unless bwrap ends it with
its parent.

**ModelJudge.**  `ml` holds solution, phase, split and the time spent.  A phase
takes any time up to the timeout `phase_timeout` gave it, and copying files
between phases takes time as well (`MaxStaging` bounds it).

**Sandbox.**  `box` is the container or the in-process run.  Containers die at any
step, before or after `results.json` is there; the timeout strikes at any step;
the cleanup may fail; validation turns a result with too long a reason into a
failure.  `spent` is a ghost: the time of all processes of a classic evaluation.

## 3. Runs

| Run | Shows |
|---|---|
| `store` | 2 executions, 2 workers, 2 request shapes and 2 offers (priority, queue and capability mismatches happen): consistency of the rows, outbox discipline, finality, exclusivity of live leases, refinement of the lifecycle |
| `workers` | a local and a remote worker: only the run that owns the execution publishes; a canceled execution has no score although workers report `canceled` with 0.0 |
| `workers_live` | every accepted execution is settled in the end |
| `delivery` | what is marked delivered was received since the last replay; only final results are received; callbacks arrive; a cancellation is announced although the worker keeps silent |
| `postgres` | exclusive leases, finality, no stuck row and notification of results survive statement-level interleaving (on SQLite a claim is one statement: those are the interleavings in which nothing happens between its two halves) |
| `nodes` | one worker id, two tokens, two API threads: single use of tokens, capabilities within the grant through stale write-backs, credentials with rows |
| `match` | two seats, two turns, both modes: no orphans, actions of their own turn, every call returns |
| `grading` | packages of all six kinds and drafts of them, from registration to the worker's result: the properties below |
| `postgres_outbox`, `late_report`, `drain_lost`, `stalled_agent` | the findings of section 6 |

`grading` asks one question of one evaluation: is what the worker gets right?
`VerdictsAreEarned` (a verdict of `_run_process` has its cause, whatever happened
between polls), `ClassicVerdictAgrees`, `RatioAgainstBaseline` and
`LooserModesAcceptMore` (scores against an independent reading of the task's
definition), `AuthorFaultsFail` (attribution), `AcceptedCandidatesEnded` and
`StraysAreTimeouts` (the three processes of an interactive test),
`PhasesGetTheirLimit` and `ClassicFitsBudget` (time), `ValidatedPackagesLoad` (the
readings of a manifest by validator and graders; these three for plain manifests), `FinalIsTheGraders` and `DockerLeavesNothing` (the
sandbox), `EvaluationEnds` (liveness).

**Bounds.**  `LeaseSeconds` 1 or 2 (a lease can be live, expire now and be over;
2 also has a live lease that is not fresh), `CallbackLease` 1, `BackoffMax` 1
or 2 with base 1 (the cap is reached; with the code's constants it never is, since
5 s doubled eight times are 1280 of 3600), `AttemptsCap` (attempts only select the
backoff, which is constant past the cap), `MaxReplays` 1, one late report per
worker, fewer rows than a page of 20.  One or two executions: rows interact only
through the choice of `claim_next`, which needs two, and two workers are enough
for an owner and a usurper.  In the registry one worker id and two threads give
every race of two handlers on a row, and two tokens a re-enrollment; `TokenSeconds`
1 lets a token expire between its two checks.  In a match two turns let a late
reply meet the next request, `MaxCloses` 2 a second close; `PipeRoom` 4 is more
than a match of two turns writes, `PipeRoom` 1 a message that fills the pipe.
In `grading` two tests give a first and a last row; limits of 1 let output,
diagnostics and time be within, at and past their limit; `MaxEvents` 2 makes a
transcript longer than the output limit; `PipeRoom` 1 blocks a send; `SetupBudget`
6 pays for the one poll past its limit of each of up to six processes, as the real
5 s pay for 10 ms each; model phases have limits of 1 and 2 with `PhaseSlack` 1,
and `MaxStaging` 2 is more than the slack.  `Unit` 8 with `Grain` 2 has scores that
are rounded down, up and from halfway to the even side, and objectives of 7 and 8 a
solution worse than the baseline that is rounded to the full score; `Numbers` has a
score below and one above the unit.  The packages are in `MCSandbox`: a few
of each kind (languages, reference or key, checker, scoring, directions, splits,
profiles, both runners, with and without rlimits and bwrap), drafts that
differ from them in one value, most of which registration rejects, and manifests
that are not plain: a key in capitals, a key on two lines, a key without a value on
the first line, on the last, and with nothing but quotes; 169 packages in all.
The theorems of section 4 drop these bounds: they hold of the store, its
transactions, its workers and dispatchers, the registry, the agent runtime and
evaluations of any size.

**Fairness.**  The clock runs.  `run_forever` polls again after every failure,
and `process_one` always reaches its report (weak fairness of a worker's
steps).  Each step of a run happens *in time* at least once if it is tried again
and again (strong fairness): the heartbeat renews at a third of the lease.
Crashes, failures and late steps may happen any finite number of times in a row.
For deliveries: dispatchers loop, and a receiver that is asked for ever accepts
one day within the delivery lease, which is longer than the POST's timeout.  No
fairness is assumed of callers, of reports in `delivery`, or of renewals.
In a match only the runtime's own code runs on (weak fairness): agents may never
answer and referees never call again.
In `grading` the evaluator, its polls and the runner take their steps (weak
fairness): they are sequential code.  Children, interactors and candidates may do
nothing for ever, and neither the runner's timer nor the alarm is assumed to fire:
the limits inside the graders alone end an evaluation.  `EvaluationEnds` leaves out
packages with a checker or a scorer, whose code runs in the evaluator and is
bounded by the outer timer only.

## 4. Proofs

For any sets of executions, workers, keys, requests and offers, and any positive
lease, backoff and delivery times (`StoreAssumption`), TLAPS checks in
`JudgeStoreProofs`:

* `TypeCorrect`: types, in particular that every retry delay stays under its cap
  (`BackoffType`);
* `StoreInvariant`: the inductive invariant `StoreInv`, from which
  `LeaseDiscipline`, `QueuedIsClaimable`, `EveryResultHasItsCallback`,
  `NoCallbackBeforeItsResult` and `DeliveredIsReleased` follow;
* `Finality` and `Exclusivity`: the action properties `TerminalIsFinal` and
  `LiveLeaseIsExclusive`;
* `StoreRefinesLifecycle`: every step of the store is, for each execution, a step
  of the abstract lifecycle or a stutter.

None of the invariants is inductive alone.  That a settled execution has its
outbox row needs that a row outside the queue has a request; that the reclaim
pass settles into the outbox needs that running rows own a lease; that a queued
row is claimable needs that the flag is never set on a missing row.
`RowsConsistent` adds these.  `StoreInvByRow` turns the conjunction into a
statement about one row, so that a step is examined only at the rows it touches
(`RowUntouched`), and the claim's reclaim pass, which touches many, is described
once (`ReclaimPass`).  The refinement reuses the invariant and follows what the
outbox says of the execution (`NoticeKept`, `NoticeOnSettling`).

**Transactions.**  `TransactionsProofs` is about the store when `cancel` and
PostgreSQL's `claim_next` run statement by statement, for any number of cancelers
and claiming workers.  `StoreInv` does not hold there: the outbox may miss a
canceled row (section 6).  `TxInv` is what remains: per row (`TxRowInv`) status,
request, owner, lease and flag agree and a completed or failed execution has its
outbox row, and a row that a canceler has read still exists.  Nothing has to be
known of what an open `claim_next` has read: its second statement looks at the
leases and flags again (`CommitRow`), as the UPDATE of `cancel` looks at the
status again (`CancelRow`), and this is why no statement can move a row in a way
it may not (`RowMoves`).  From it follow `ResultsReachTheOutbox`,
`NothingIsStuckUnderInterleaving`, `LeaseHeldUnderInterleaving`,
`FinalityUnderInterleaving` and `ExclusivityUnderInterleaving`.

**Users of the store.**  `WorkersImplementStore` and `DeliveryImplementsStore`
(`WorkersSpec => Spec`, `DeliverySpec => Spec`) show that each step of a worker, a
heartbeat or a dispatcher is an operation of `JudgeStore` or leaves its tables
alone, so that the theorems above, the lifecycle included, hold of them as well.
`CanceledResultsAreEmpty` and `StaleRunsDoNotPublish` rest on `WorkersInv`: a
worker past the claim has a job, a worker that saw the cancellation flag saw a
flag that is still set (`SawTheFlag`), and a worker that lost its job is not its
owner, even if the job was claimed by another one since (`LostMeansNotOwner`;
it needs `NULL \notin Executions`).  `ReceiversSeeFinalResults` and
`DeliveredMeansReceived` rest on `DeliveryInv`: what was accepted and every letter
a sender holds, in flight or in memory, carries the result of a settled execution
(`ReceivedSettled`, `LettersGood`), which `SettledStays` keeps true, and a sender
that is about to acknowledge and still owns the row was answered since the last
replay (`AckIsEarned`).

**Registry.**  `RegistryProofs` covers any number of API threads, nodes and
tokens.  The tables alone are not inductive, because a handler writes back what it
read several steps ago: `MemoryInv` says what its memory still implies about the
tables when other handlers have run in between (a row it read has only granted
capabilities, a grant never shrinks, a token it redeemed is used), `TokenInv`
counts joins against the single UPDATE that consumes a token, and `TablesInv` is
what the properties need of each node.  `RowAssumption` keeps NULL apart from rows
and memory.

**Matches.**  `NothingOutlivesClose` (`NoOrphans`) needs that `close` ends the
seats in order and that every seat it has passed is dead (`OrphanInv`).
`ActionsBelongToTheirTurn` needs `TurnInv`: for a seat that missed nothing the
pipe holds the answer to the current request, or the request, or nothing, and
never two lines (`InStep`: `Silent`, `OneLine`), through every state of the agent.

**Evaluations.**  `GradingProofs` is about whole evaluations, for any packages, host, number of
tests and positive limits (`ProcessAssumption`):

* `VerdictsHaveACause` (`VerdictsAreEarned`): what a child does between two polls
  never makes a verdict of `_run_process` say something else than what happened.
  Inductive is `ProcInv`: a flag has its cause at the poll that sets it, outputs
  and times only grow while the child lives, and a poll that lets it live has seen
  it within its limit.  `SessionInv` goes with it, because the worker of an
  interactive test writes a reply as long as its transcript.
* `AuthorsAnswerForTheirCode` (`AuthorFaultsFail`): through `BlameInv`, an
  evaluation in which the author's code was at fault has escaped or failed, and no
  step leads back from there.
* `WorkerGetsTheGradersResult` (`FinalIsTheGraders`) and `ContainersAreGone`
  (`DockerLeavesNothing`): through `BoxInv`, the worker has no result while the box
  is open, a whole `results.json` comes from a grader that returned, and a
  container that exited or was removed holds no process.

* `AcceptanceNeedsAnExit` (`AcceptedCandidatesEnded`) and `StraysComeFromTimeouts`
  (`StraysAreTimeouts`): through `TestInv`.  Its part `DialogueInv` ties the worker's
  process to its session, which change at different steps: a worker that ended with
  status 0 came to its reply, and at a reply the candidate no longer lives.
  `StrayInv` ties the strays to the rows: while tests run there is one row per test
  that is over, so a stray of an earlier test has its row, and that row says TLE.
* `RegisteredPackagesAreRead` (`ValidatedPackagesLoad`): in a plain manifest the
  parsers find the same values (a key has one line, and no line is swallowed), and
  `ValidLoads` compares the two readings of it kind by kind; `PackageInv` carries the
  registered package unchanged to the step that loads it, the only one that blames a
  package.
* `BudgetsCoverThePhases` (`PhasesGetTheirLimit`): through `PhaseInv`, the time spent
  is at most what was staged and the limits of the phases before (`Before`), so what
  is left of the budget covers this phase (`PhasesAddUp`).
* `WallTimeIsEnough` (`ClassicFitsBudget`): through `SpendInv`, what is spent at a
  stage is at most `Paid`, the cost of the processes before it, each with one poll
  past its limit.
* `NormalizationsAreOrdered` (`LooserModesAcceptMore`): `NormalizationsNest` for all
  texts, and `QuizInv`, by which the question at hand comes from a package that loads.

The assumptions, each in the module that declares its constants and evaluated by
TLC: `NullAssumption` (NULL is no process, no result, no verdict, no number and none
of the words it is compared with),
`BudgetAssumption` (the set-up budget pays for one poll more of every process:
5 000 ms are 500 polls, and 200 tests, `MAX_CLASSIC_TESTS`, with a reference need
402), `ObjectivesAssumption` and `NumbersAssumption` (objectives and metrics are
numbers: `_finite_float` refuses all else), `GrainAssumption` (the unit is a whole
number of grains, and half a grain for every test is less than the unit: 200 tests
and 1e-8), `KindAssumption` (the lines of a package, and that its kind is what the
first line with that key says, as `_manifest_kind` and `_task_kind` find it), `InteractiveAssumption` (the room of a pipe and the length of a transcript
are numbers), `PackagesAssumption` and `QuizAssumption` (the types of the values in
a manifest, which the model's packages are given by hand and the code's parsers
enforce).

Every step is one of the graders or one of the runner (`TwoKindsOfSteps`), and a
grader moves only in packages of its kind (`OneGraderPerKind`); what each grader
does to the process, the package, the blame and the budget is a lemma of its own
(`*Evaluates`, `*KeepsPackage`, `*Blames`, `*Reads`, `*Spends`).

**Scores.**  `ScoringProofs` continues with what the results say, for any number of
tests, questions and objectives:

* `ClassicResultsAgree` (`ClassicVerdictAgrees`): verdict, score and rows of a
  completed classic evaluation agree;
* `FullMarksMeanNearlyAsGood` (`RatioAgainstBaseline`): a solution at least as good as
  the baseline on every instance has the full score; one with the full score is
  feasible on all and on none worse by more, relatively, than half a grain for every
  instance (with 1e-8 and 200 tests, 1e-6); and no score exceeds that of the best
  instance, rounded.  For both directions, zeros on either side and all three
  aggregations.  That the full score is not *exactly* as good is the code's rounding;
* `GradingIsTyped` (`GradingTypeOK`): among the types, that no grader makes a row too
  many, that every score is within the unit (a quiz gives no more points than its
  questions have) unless it is the author's own metric, which may be any number, and
  that pipes, buffer and transcript stay within their bounds.

The first two rest on `ScoreInv`.  That a result agrees with the rows at the step
that makes it needs the rows to be complete there (`PlaceInv`: how many rows there
are at each stage, as the tests are walked through up to three times, for the
reference, the baseline and the submission), the baseline to have an objective for
every instance (`ReferenceInv`: `Len(baseline)` follows the walk of the baseline,
and a ratio is only asked for where the configuration has a baseline), and every
row to be worth what it says (`EarnedInv`); `QuestionInv` is the same for the
questions of a quiz.  `GradingIsTyped` adds `RestInv`, with `SizeInv` for the pipes:
what the worker has read and what it has not are bounded together, not each.

What a sum, a product or a power over the rows comes to is induction over data.  It
is done here without the library's induction rules, which take an operator as a
parameter: a set of numbers that is not empty has a least element (`LeastNumber`,
from `WFMin`), so a property, written as the set of numbers that have it, holds up to
a bound if it holds of 0 and is passed on (`CountUp`).  `RecursionExists` shows in
this way that the recursive functions in `SumScores`, `TotalPoints`, `ProductScores`
and `Power` exist, and `SumsAreMonotone`, `ConstantSums`, `SummandsAreLess`,
`ProductsAreMonotone` and what one summand or factor can do (`OneSummand`,
`OneFactor`) are all that the aggregations need (`MeanIsFair`, `MinimumIsFair`,
`GeometricIsFair`).  Each is *fair*: full exactly where all scores are, no greater
than the greatest of them, and short of the unit by at least what any row is short,
divided by the number of rows.  For the mean that is arithmetic; for the geometric
mean it is Bernoulli's inequality (`Bernoulli`, `RootsAreNear`).  Rounding keeps the
order and moves a score by half a grain at most (`RoundingIsMonotone`,
`RoundingIsFair`), so a full score after rounding bounds the shortfall of every row
(`NearlyFull`).  `RatioIsFair` is what `_baseline_ratio` adds.

**Only model-checked.**  Liveness (`LS4` has no fairness or ENABLED here):
`EvaluationEnds` and the liveness properties of workers, deliveries and matches.
And the runs that expect a violation, whose counterexample is the result.

## 5. Not modelled

* Clock skew between API hosts and the database: the model has one clock.
* PostgreSQL's deadlock detection when two transactions lock rows in different
  orders; the abort is retried like any other failed claim.
* Two live processes configured with one worker id.
* More than 20 due callbacks at once; an execution whose report is refused by
  validation for ever.
* Request validation, archive packing, the docker command line, HTML console, CLI.
* The artifact store (two threads of a process store one artifact through the same
  temporary name), the rate limiter (at 10 000 keys it evicts the least recent
  one, whose window starts again), service credentials, the definitions registry
  and the capability scheduler: see the plan.
* In the graders: evaluator plugins; `_run_scorer_process`, which nothing calls;
  the entry points of the model phases, and which files and privileges a phase
  has; token comparison; sizes of packages and results.
* A second attempt at an execution whose container could not be removed: `_cleanup`
  finds containers by the label of the execution, which both attempts share.

## 6. Findings

* `postgres_outbox`: a cancellation committed between the two reclaiming UPDATEs
  of `claim_next` is settled by the second one, which inserts no outbox row.
* `late_report`: `finish` recognises a run by its worker id only.  A delayed
  report of an earlier run of the same worker is accepted once that worker has
  claimed the execution again.
* `drain_lost`: a capability advertisement writes the worker row back whole, the
  draining flag as it was read included, and undoes a drain in between.
* `stalled_agent`: the write of a request has no timeout.  When an agent stops
  reading with its pipe full, `close` blocks in the shutdown request, before it
  sends a signal.

Also met while modelling, without a run of their own:

* `cancel` decides about the outbox row from the status its SELECT read and
  settles by the status its UPDATE finds, in both stores.  If another process's
  `claim_next` requeues the expired run in between, the execution is canceled
  and no callback is ever sent; this is why `postgres` checks
  `ResultsAreNotified` and not `OutboxComplete`.  If another process claims the
  row between a SELECT that read `queued` and the UPDATE, the other way round, an
  outbox row is inserted for an execution that runs (store.py:847).  Nothing
  unfinished is sent, because `pending_callbacks` asks for a settled status
  (store.py:761); but `OutboxOnlyForSettled` is a property of atomic operations, and
  `postgres` does not check it.
* The validator and the graders parse `judge.yaml` differently (section 2).  A key in
  capitals (`Language: python`) is read by the validator and missed by the runner; of
  a key on two lines the validator reads the first and the runner the last; after
  `scoring_mode:` without a value the validator takes the next line for the value, or
  the default if there is none or only quotes, and the runner takes the empty
  string.  Such a package may register and fail every submission; where `answer_source` or `time_limit_ms` is on two lines,
  its evaluation may need more than the wall time of its registration; where a model's
  `baseline_enabled` follows an empty value, the budget the validator checked is that
  of one solution.  `ValidatedPackagesLoad`, `ClassicFitsBudget` and
  `PhasesGetTheirLimit` therefore speak of plain manifests.
* `round(score, 8)` gives a solution the score 1.0 that is worse than its baseline by
  less than 5e-9.
* A checker that returns an empty dictionary judges the output wrong
  (classic.py:649-652), where any other value without a meaning fails the evaluation.
* `docs/api.md` says a finish after a cancellation returns 409; the code accepts
  it and records `canceled` without a score.
* `validate_task` accepts values the graders refuse (`UnreadByValidator`): null
  `choices` of a free-text question, a quiz's `submission_file`, a
  `reference_language` without a reference, and answer source and scoring mode
  of an interactive package.  Such a package registers and fails every submission.
* An interactive submission that does not compile fails the evaluation, where a
  classic one completes as CE; a faulty return value of the interactor is the
  candidate's RE, and a TimeoutError or an OverflowError of its own his TLE or OLE.
* A test whose process cannot be launched has the row `judge_error`, and the
  evaluation completes as WA.
* `sys.exit` in a checker or scorer passes every handler of `harness.run`, whose
  docstring says that it never raises; in process mode it ends the worker.
* After the alarm of `ProcessSandboxRunner` the child processes of the evaluation
  run on until their own limits end them.
* An invalid quiz submission whose reason exceeds what a result may carry becomes
  a failed evaluation; `docs/quiz-tasks.md` describes a completed one.
* Only classic packages carry their wall time to the sandbox; a model evaluation
  longer than the runner's 900 s is cut off although its own budget allows it.

## 7. Plan

In order of what the system depends on most; all steps but 6 are done.

1. The durable core: `JudgeStore`, `ExecutionLifecycle`, `StoreTransactions`, and
   the theorems about the store.
2. Its users: `ExecutionWorkers`, `CallbackDelivery`.
3. Who may claim, and matches: `NodeRegistry`, `AgentRuntime`.
4. The graders and their processes: `ProcessRun`, `ClassicJudge`,
   `InteractiveJudge`, `OptimizationJudge`, `QuizJudge`, `ModelJudge`.
5. What stands around them: `TaskPackages`, `Harness`, `Sandbox`, composed with all
   graders in one run.
6. `ArtifactStore`: `put` through a temporary name shared by the threads of a
   process, `get` with its checksum, the uploads of workers; `AccessControl`: rate
   limiter windows and eviction, service credentials with scopes, expiry and
   revocation; `MatchRegistry`: definitions and the expansion of a match;
   `Scheduler` as an operator against a reference.
7. Theorems: every safety invariant and action property of the store and its
   users, of the registry and of matches, and of the graders all that is not about
   sums over rows (section 4).
8. Theorems about sums over rows: scores, verdicts and the types of evaluations.

Components that share a question are composed and checked in one run, so that the
number of runs stays that of the questions asked.
