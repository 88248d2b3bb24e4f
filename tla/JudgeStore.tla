----------------------------- MODULE JudgeStore -----------------------------
(***************************************************************************)
(* The durable store of the Judge (store.py, class JudgeStore): the tables *)
(* tasks, executions and callback_deliveries, and one action per operation *)
(* that changes them.  Each operation is one transaction under the store's *)
(* lock, as it is when one API process owns the SQLite file; the module    *)
(* StoreTransactions splits the operations that are several statements.    *)
(*                                                                         *)
(* Columns are functions over execution ids.  Deadlines are kept as the    *)
(* time left: lease_expires_at = now + lease[e], so a lease of 0 expires   *)
(* now and -1 is in the past.  A refused call changes nothing: it is a     *)
(* stuttering step and has no action.                                      *)
(***************************************************************************)
EXTENDS Integers, FiniteSets

CONSTANTS Executions,     \* execution ids (uuids)
          Workers,        \* worker and dispatcher ids
          Keys,           \* idempotency keys
          TaskRefs,       \* names of tasks
          Capabilities,   \* capability labels
          Requests,       \* the request shapes callers submit
          Offers,         \* what a claiming worker brings
          Scores,         \* published results: score, metrics, artifacts
          LeaseSeconds,   \* run lease, after max(1, lease_seconds)
          CallbackLease,  \* delivery lease (60 s in the code)
          BackoffBase,    \* first retry delay (5 s)
          BackoffMax,     \* longest retry delay
          AttemptsCap,    \* attempts are counted up to here
          NULL

Request ==
    [task_ref : TaskRefs, callback_url : BOOLEAN, priority : Int,
     queue : STRING, resource_class : STRING, required : SUBSET Capabilities]

\* A row of callback_deliveries; deadlines are times left, 0 when over.
DeliveryRow ==
    [attempts : 0 .. AttemptsCap, due : 0 .. BackoffMax, delivered : BOOLEAN,
     lease_owner : Workers \cup {NULL}, lease : 0 .. CallbackLease]

ASSUME StoreAssumption ==
    /\ \A r \in Requests : r \in Request
    /\ \A o \in Offers :
         /\ o.capabilities \subseteq Capabilities
         /\ \A q \in o.queues \cup o.resource_classes : q \in STRING
    /\ LeaseSeconds \in Nat \ {0}
    /\ CallbackLease \in Nat \ {0}
    /\ BackoffBase \in Nat \ {0}
    /\ BackoffMax \in Nat \ {0}
    /\ AttemptsCap \in Nat
    /\ NULL \notin Int
    /\ NULL \notin Workers
    /\ NULL \notin Scores
    /\ NULL \notin Requests
    /\ NULL \notin Keys
    /\ NULL \notin DeliveryRow

VARIABLES
    tasks,             \* task_ref -> its required capabilities, or NULL
    status,            \* executions.status, or "absent": no row
    request,           \* the immutable columns of the request
    idempotency_key,
    created_at,        \* order of insertion
    arrivals,          \* rows inserted so far
    cancel_requested,
    worker_id,
    lease,             \* time left on lease_expires_at
    score,
    callback_deliveries\* execution_id -> outbox row, or NULL

executionVars ==
    <<status, request, idempotency_key, created_at, arrivals,
      cancel_requested, worker_id, lease, score>>
vars == <<tasks, executionVars, callback_deliveries>>

TERMINAL_STATUSES == {"completed", "failed", "canceled"}
Statuses == TERMINAL_STATUSES \cup {"absent", "queued", "running"}

LeaseLeft == -1 .. LeaseSeconds

TypeOK ==
    /\ tasks \in [TaskRefs -> (SUBSET Capabilities) \cup {NULL}]
    /\ status \in [Executions -> Statuses]
    /\ request \in [Executions -> Requests \cup {NULL}]
    /\ idempotency_key \in [Executions -> Keys \cup {NULL}]
    /\ created_at \in [Executions -> Nat]
    /\ arrivals \in Nat
    /\ cancel_requested \in [Executions -> BOOLEAN]
    /\ worker_id \in [Executions -> Workers \cup {NULL}]
    /\ lease \in [Executions -> LeaseLeft \cup {NULL}]
    /\ score \in [Executions -> Scores \cup {NULL}]
    /\ callback_deliveries \in [Executions -> DeliveryRow \cup {NULL}]

Init ==
    /\ tasks = [t \in TaskRefs |-> NULL]
    /\ status = [e \in Executions |-> "absent"]
    /\ request = [e \in Executions |-> NULL]
    /\ idempotency_key = [e \in Executions |-> NULL]
    /\ created_at = [e \in Executions |-> 0]
    /\ arrivals = 0
    /\ cancel_requested = [e \in Executions |-> FALSE]
    /\ worker_id = [e \in Executions |-> NULL]
    /\ lease = [e \in Executions |-> NULL]
    /\ score = [e \in Executions |-> NULL]
    /\ callback_deliveries = [e \in Executions |-> NULL]

-----------------------------------------------------------------------------
Terminal(e) == status[e] \in TERMINAL_STATUSES
HasCallback(e) == request[e] # NULL /\ request[e].callback_url
Smaller(a, b) == IF a <= b THEN a ELSE b
Larger(a, b) == IF a >= b THEN a ELSE b

\* INSERT INTO callback_deliveries ... VALUES(..., now)
Row(attempts, due, delivered, owner, left) ==
    [attempts |-> attempts, due |-> due, delivered |-> delivered,
     lease_owner |-> owner, lease |-> left]
NewDelivery == Row(0, 0, FALSE, NULL, 0)

\* Variant: an UPDATE where the upsert should be.
UpdateWithoutInsert(e) == callback_deliveries[e]

\* The upsert of every writer of the outbox: on conflict it only rewrites the
\* URL and token, which are columns of the execution and never change.
Enqueued(e) ==
    IF callback_deliveries[e] = NULL THEN NewDelivery ELSE callback_deliveries[e]

-----------------------------------------------------------------------------
\* A task reference is immutable: registering it again changes nothing.
RegisterTask(t, manifest) ==
    /\ tasks[t] = NULL
    /\ tasks' = [tasks EXCEPT ![t] = manifest]
    /\ UNCHANGED <<executionVars, callback_deliveries>>

\* An unknown task is refused; a known key returns the row it already names.
Submit(e, k, r) ==
    /\ status[e] = "absent"
    /\ tasks[r.task_ref] # NULL
    /\ \A f \in Executions : idempotency_key[f] # k
    /\ status' = [status EXCEPT ![e] = "queued"]
    /\ request' = [request EXCEPT ![e] = r]
    /\ idempotency_key' = [idempotency_key EXCEPT ![e] = k]
    /\ created_at' = [created_at EXCEPT ![e] = arrivals]
    /\ arrivals' = arrivals + 1
    /\ UNCHANGED <<tasks, cancel_requested, worker_id, lease, score,
                   callback_deliveries>>

-----------------------------------------------------------------------------
\* Variants of the reclaim test: any running row; canceled rows only.
ExpiredAnyway(e) == status[e] = "running"
ExpiredIfCanceled(e) ==
    /\ status[e] = "running" /\ lease[e] # NULL /\ lease[e] <= 0
    /\ cancel_requested[e]

\* claim_next first takes back every run whose lease is over: R are the rows
\* of that UPDATE, N the rows it read as canceled, whose callback is due.
Expired(e) == status[e] = "running" /\ lease[e] # NULL /\ lease[e] <= 0
ExpiredRows == {e \in Executions : Expired(e)}

\* Variants: the flag is forgotten, the lease kept, the callback not inserted.
RequeuedStatus(R) == [e \in Executions |-> IF e \in R THEN "queued" ELSE status[e]]
KeptLease(R) == lease
SilentReclaim(N) == callback_deliveries

ReclaimedStatus(R) ==
    [e \in Executions |->
        IF e \notin R THEN status[e]
        ELSE IF cancel_requested[e] THEN "canceled" ELSE "queued"]
ReclaimedWorker(R) == [e \in Executions |-> IF e \in R THEN NULL ELSE worker_id[e]]
ReclaimedLease(R) == [e \in Executions |-> IF e \in R THEN NULL ELSE lease[e]]
ReclaimedDeliveries(N) ==
    [e \in Executions |->
        IF e \in N /\ HasCallback(e) THEN Enqueued(e) ELSE callback_deliveries[e]]

\* An empty queue or resource-class list does not filter.
Matches(o, r) ==
    /\ o.queues # {} => r.queue \in o.queues
    /\ o.resource_classes # {} => r.resource_class \in o.resource_classes
    /\ tasks[r.task_ref] \cup r.required \subseteq o.capabilities

Claimable(e, o, R) ==
    /\ ReclaimedStatus(R)[e] = "queued"
    /\ ~cancel_requested[e]
    /\ Matches(o, request[e])

\* ORDER BY priority DESC, created_at (insertion order: no two rows tie)
Precedes(e, f) ==
    \/ request[e].priority > request[f].priority
    \/ /\ request[e].priority = request[f].priority
       /\ created_at[e] < created_at[f]

\* Without a match the reclaim pass is still committed.
ReclaimOnly(R) ==
    /\ status' = ReclaimedStatus(R)
    /\ worker_id' = ReclaimedWorker(R)
    /\ lease' = ReclaimedLease(R)

ReclaimAndRun(w, e, R) ==
    /\ status' = [ReclaimedStatus(R) EXCEPT ![e] = "running"]
    /\ worker_id' = [ReclaimedWorker(R) EXCEPT ![e] = w]
    /\ lease' = [ReclaimedLease(R) EXCEPT ![e] = LeaseSeconds]

ReclaimRest(N) ==
    /\ callback_deliveries' = ReclaimedDeliveries(N)
    /\ UNCHANGED <<tasks, request, idempotency_key, created_at, arrivals,
                   cancel_requested, score>>

\* Variant: every reclaimed row gets a callback.
EveryExpiredRow == ExpiredRows

CanceledRows == {e \in ExpiredRows : cancel_requested[e]}

ClaimNothing(o) ==
    /\ \A e \in Executions : ~Claimable(e, o, ExpiredRows)
    /\ ReclaimOnly(ExpiredRows)
    /\ ReclaimRest(CanceledRows)

ClaimExecution(w, o, e) ==
    /\ Claimable(e, o, ExpiredRows)
    /\ \A f \in Executions \ {e} : Claimable(f, o, ExpiredRows) => Precedes(e, f)
    /\ ReclaimAndRun(w, e, ExpiredRows)
    /\ ReclaimRest(CanceledRows)

ClaimNext(w, o) ==
    ClaimNothing(o) \/ \E e \in Executions : ClaimExecution(w, o, e)

-----------------------------------------------------------------------------
\* Variant: the owner is not compared.
AnyLiveLease(e, w) == status[e] = "running" /\ lease[e] # NULL /\ lease[e] >= 0

\* The WHERE clause both finish and renew_lease use.
OwnsLiveLease(e, w) ==
    /\ worker_id[e] = w
    /\ status[e] = "running"
    /\ lease[e] # NULL
    /\ lease[e] >= 0

\* Variants: finish writes what the worker reports.
ReportedStatus(e, s) == s
ReportedScore(e, v) == v

\* A requested cancellation overrides whatever the worker reports.
SettledStatus(e, s) == IF cancel_requested[e] THEN "canceled" ELSE s
SettledScore(e, v) == IF cancel_requested[e] THEN NULL ELSE v

\* The result and its outbox row are one transaction.
Finish(e, w, s, v) ==
    /\ OwnsLiveLease(e, w)
    /\ s \in TERMINAL_STATUSES
    /\ status' = [status EXCEPT ![e] = SettledStatus(e, s)]
    /\ score' = [score EXCEPT ![e] = SettledScore(e, v)]
    /\ worker_id' = [worker_id EXCEPT ![e] = NULL]
    /\ lease' = [lease EXCEPT ![e] = NULL]
    /\ callback_deliveries' =
         IF HasCallback(e)
         THEN [callback_deliveries EXCEPT ![e] = Enqueued(e)]
         ELSE callback_deliveries
    /\ UNCHANGED <<tasks, request, idempotency_key, created_at, arrivals,
                   cancel_requested>>

\* Variant: a canceled run may be renewed.
RenewAnyway(e, w) ==
    /\ OwnsLiveLease(e, w)
    /\ lease' = [lease EXCEPT ![e] = LeaseSeconds]
    /\ UNCHANGED <<tasks, status, request, idempotency_key, created_at, arrivals,
                   cancel_requested, worker_id, score, callback_deliveries>>

RenewLease(e, w) ==
    /\ OwnsLiveLease(e, w)
    /\ ~cancel_requested[e]
    /\ lease' = [lease EXCEPT ![e] = LeaseSeconds]
    /\ UNCHANGED <<tasks, status, request, idempotency_key, created_at, arrivals,
                   cancel_requested, worker_id, score, callback_deliveries>>

\* Variant: cancel overwrites settled rows too.
OverwrittenStatus(s) == IF s = "running" THEN s ELSE "canceled"

\* A queued execution is canceled on the spot; any other is only marked.
CanceledStatus(s) == IF s = "queued" THEN "canceled" ELSE s

Cancel(e) ==
    /\ status[e] # "absent"
    /\ cancel_requested' = [cancel_requested EXCEPT ![e] = TRUE]
    /\ status' = [status EXCEPT ![e] = CanceledStatus(@)]
    /\ callback_deliveries' =
         IF status[e] = "queued" /\ HasCallback(e)
         THEN [callback_deliveries EXCEPT ![e] = Enqueued(e)]
         ELSE callback_deliveries
    /\ UNCHANGED <<tasks, request, idempotency_key, created_at, arrivals,
                   worker_id, lease, score>>

-----------------------------------------------------------------------------
\* The callback outbox.

HasDelivery(e) == callback_deliveries[e] # NULL
DeliveryOwner(e, w) == HasDelivery(e) /\ callback_deliveries[e].lease_owner = w

\* 5 * 2 ** min(8, attempts) seconds, at most 3600
PowersOfTwo == <<1, 2, 4, 8, 16, 32, 64, 128, 256>>
\* Variant: without min(3600, ...).
UncappedBackoff(attempts) == BackoffBase * PowersOfTwo[Smaller(8, attempts) + 1]

Backoff(attempts) ==
    Smaller(BackoffMax, BackoffBase * PowersOfTwo[Smaller(8, attempts) + 1])

UpdateDelivery(e, row) ==
    /\ callback_deliveries' = [callback_deliveries EXCEPT ![e] = row]
    /\ UNCHANGED <<tasks, executionVars>>

\* Called by a LocalWorker after its finish was accepted.
EnqueueCallback(e) ==
    /\ Terminal(e) /\ HasCallback(e)
    /\ UpdateDelivery(e, Enqueued(e))

\* Variant: an abandoned lease is never taken over.
NeverLeased(e) ==
    /\ HasDelivery(e)
    /\ ~callback_deliveries[e].delivered
    /\ callback_deliveries[e].due = 0
    /\ callback_deliveries[e].lease_owner = NULL

\* The row is not checked against the status of its execution.
DeliveryIsFree(e) ==
    /\ HasDelivery(e)
    /\ ~callback_deliveries[e].delivered
    /\ callback_deliveries[e].due = 0
    /\ callback_deliveries[e].lease_owner = NULL \/ callback_deliveries[e].lease = 0

ClaimCallback(e, w) ==
    /\ DeliveryIsFree(e)
    /\ LET row == callback_deliveries[e] IN
         UpdateDelivery(e, Row(row.attempts, row.due, row.delivered, w,
                               CallbackLease))

\* Variants: anyone may acknowledge; the lease survives the acknowledgement.
AnyoneMayAcknowledge(e, w) == HasDelivery(e) /\ ~callback_deliveries[e].delivered
DeliveredKeepsOwner(e, w) ==
    /\ HasDelivery(e) /\ callback_deliveries[e].lease_owner = w
    /\ ~callback_deliveries[e].delivered
    /\ LET row == callback_deliveries[e] IN
         UpdateDelivery(e, Row(row.attempts, row.due, TRUE, w, row.lease))

MayAcknowledge(e, w) == DeliveryOwner(e, w) /\ ~callback_deliveries[e].delivered

MarkCallbackDeliveredByOwner(e, w) ==
    /\ MayAcknowledge(e, w)
    /\ LET row == callback_deliveries[e] IN
         UpdateDelivery(e, Row(row.attempts, row.due, TRUE, NULL, 0))

MarkCallbackFailed(e, w) ==
    /\ DeliveryOwner(e, w)
    /\ LET row == callback_deliveries[e] IN
         UpdateDelivery(e, Row(Smaller(AttemptsCap, row.attempts + 1),
                               Backoff(row.attempts), row.delivered, NULL, 0))

ReplayCallback(e) ==
    /\ Terminal(e) /\ HasCallback(e)
    /\ UpdateDelivery(e, Row(Enqueued(e).attempts, 0, FALSE, NULL, 0))

-----------------------------------------------------------------------------
\* Time passes: every deadline comes one unit closer.
Later(left, floor) == Larger(left - 1, floor)

Tick ==
    /\ lease' = [e \in Executions |->
                    IF lease[e] = NULL THEN NULL ELSE Later(lease[e], -1)]
    /\ callback_deliveries' =
         [e \in Executions |->
            IF ~HasDelivery(e) THEN NULL
            ELSE LET row == callback_deliveries[e] IN
                 Row(row.attempts, Later(row.due, 0), row.delivered,
                     row.lease_owner, Later(row.lease, 0))]
    /\ UNCHANGED <<tasks, status, request, idempotency_key, created_at, arrivals,
                   cancel_requested, worker_id, score>>

ExecutionNext ==
    \/ \E t \in TaskRefs, m \in SUBSET Capabilities : RegisterTask(t, m)
    \/ \E e \in Executions, k \in Keys, r \in Requests : Submit(e, k, r)
    \/ \E w \in Workers, o \in Offers : ClaimNext(w, o)
    \/ \E e \in Executions, w \in Workers, s \in TERMINAL_STATUSES,
          v \in Scores \cup {NULL} : Finish(e, w, s, v)
    \/ \E e \in Executions, w \in Workers : RenewLease(e, w)
    \/ \E e \in Executions : Cancel(e)

DeliveryNext ==
    \/ \E e \in Executions : EnqueueCallback(e)
    \/ \E e \in Executions, w \in Workers : ClaimCallback(e, w)
    \/ \E e \in Executions, w \in Workers : MarkCallbackDeliveredByOwner(e, w)
    \/ \E e \in Executions, w \in Workers : MarkCallbackFailed(e, w)
    \/ \E e \in Executions : ReplayCallback(e)

Next == ExecutionNext \/ DeliveryNext \/ Tick

Spec == Init /\ [][Next]_vars

-----------------------------------------------------------------------------
\* Owner, lease and the running status are set and cleared together by
\* claim_next, its reclaim pass and finish: a run without a lease would never
\* be reclaimed, and a lease on anything else would let a stale worker act.
LeaseHeld ==
    \A e \in Executions :
        /\ status[e] = "running" <=> worker_id[e] # NULL
        /\ status[e] = "running" <=> lease[e] # NULL

\* claim_next never picks a queued row with cancel_requested set and nothing
\* else settles one: cancel and the reclaim pass must leave no such row, or it
\* would stay queued for ever.
NoStuckQueuedRow ==
    \A e \in Executions : status[e] = "queued" => ~cancel_requested[e]

\* "Terminal results with a callback URL are placed in the Judge callback
\* outbox in the same transaction as the result": finish, cancel and the
\* reclaim pass of claim_next all settle executions, and none may forget it.
OutboxComplete ==
    \A e \in Executions : Terminal(e) /\ HasCallback(e) => HasDelivery(e)

\* claim_callback does not look at the execution: only the discipline of the
\* writers keeps an unfinished execution's callback from being claimed, sent
\* and acknowledged.
OutboxOnlyForSettled ==
    \A e \in Executions : HasDelivery(e) => Terminal(e) /\ HasCallback(e)

\* The delivery lease that claim_callback grants is dropped by the same
\* update that records the delivery, so no owner can acknowledge, fail or
\* postpone a callback that is already delivered.
DeliveredIsUnowned ==
    \A e \in Executions :
        HasDelivery(e) /\ callback_deliveries[e].delivered =>
            callback_deliveries[e].lease_owner = NULL

\* What the outbox says of an execution's callback.
Notice(e) ==
    IF ~HasDelivery(e) THEN "none"
    ELSE IF callback_deliveries[e].delivered THEN "delivered" ELSE "owed"

\* Every execution, seen on its own, follows the abstract lifecycle: settled
\* rows are final, a requested cancellation can only end in "canceled"
\* without a score, and the callback is owed from the settling step on.
Life(e) == INSTANCE ExecutionLifecycle WITH
    status <- status[e],
    cancelRequested <- cancel_requested[e],
    owner <- worker_id[e],
    score <- score[e],
    wantsCallback <- HasCallback(e),
    notice <- Notice(e)

FollowsLifecycle ==
    /\ \A e \in Executions : Life(e)!Init
    /\ [][\A e \in Executions :
             [Life(e)!Next]_(Life(e)!lifecycleVars)]_vars

\* finish, cancel, the reclaim pass and every outbox operation leave the
\* status and the result of a settled execution as they are.
TerminalIsFinal ==
    [][\A e \in Executions :
          Terminal(e) => status'[e] = status[e] /\ score'[e] = score[e]]_vars

\* A worker that renews in time keeps its run: claim_next neither requeues a
\* run whose lease is still live nor hands it to somebody else.
LiveLeaseIsExclusive ==
    [][\A e \in Executions :
          status[e] = "running" /\ lease[e] > 0 =>
             /\ status'[e] # "queued"
             /\ status'[e] = "running" => worker_id'[e] = worker_id[e]]_vars
=============================================================================
