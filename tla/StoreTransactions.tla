------------------------- MODULE StoreTransactions --------------------------
(***************************************************************************)
(* The operations of the store that are several SQL statements without a   *)
(* common snapshot, interleaved statement by statement.                    *)
(*                                                                         *)
(*  - cancel reads the status with a plain SELECT and writes afterwards,   *)
(*    in both stores.  JudgeStore's lock serialises the threads of one     *)
(*    process only; an API process and a worker process that share the     *)
(*    SQLite file interleave here, and so do all clients of PostgreSQL.    *)
(*  - claim_next is one transaction (BEGIN IMMEDIATE) on SQLite, but under *)
(*    PostgreSQL's READ COMMITTED its two reclaiming UPDATEs each see what *)
(*    was committed before them.  The first one locks its rows until the   *)
(*    commit; the statements after the second only touch rows this         *)
(*    transaction has locked, so they are one step with it.                *)
(*                                                                         *)
(* finish and renew_lease are single guarded UPDATEs (finish inserts the   *)
(* outbox row under the row lock), so their actions are the ones of        *)
(* JudgeStore once no transaction holds the row.  The updates of the       *)
(* outbox alone never touch an execution and are left to JudgeStore.       *)
(***************************************************************************)
EXTENDS JudgeStore

CONSTANT Cancelers    \* API threads that serve cancel requests

VARIABLES canceling,  \* what each canceler read: [job, seen], or NULL
          claiming    \* open claim_next: [offer, expired, canceled], or NULL

txVars == <<canceling, claiming>>
allTxVars == <<vars, txVars>>

CancelRead == [job : Executions, seen : Statuses]
OpenClaim == [offer : Offers, expired : SUBSET Executions, canceled : SUBSET Executions]

TxTypeOK ==
    /\ TypeOK
    /\ canceling \in [Cancelers -> CancelRead \cup {NULL}]
    /\ claiming \in [Workers -> OpenClaim \cup {NULL}]

TxInit ==
    /\ Init
    /\ canceling = [c \in Cancelers |-> NULL]
    /\ claiming = [w \in Workers |-> NULL]

\* Rows updated and not committed yet: other writers wait for them.
LockedBy(w) == IF claiming[w] = NULL THEN {} ELSE claiming[w].canceled
Unlocked(e) == \A w \in Workers : e \notin LockedBy(w)

-----------------------------------------------------------------------------
\* SELECT status,callback_url ... : the committed row, lock or no lock.
CancelSelect(c, e) ==
    /\ canceling[c] = NULL
    /\ status[e] # "absent"
    /\ canceling' = [canceling EXCEPT ![c] = [job |-> e, seen |-> status[e]]]
    /\ UNCHANGED <<vars, claiming>>

\* Variant: the status is written from the earlier read.
CancelFromRead(c) ==
    /\ canceling[c] # NULL
    /\ LET e == canceling[c].job IN
         /\ Unlocked(e)
         /\ cancel_requested' = [cancel_requested EXCEPT ![e] = TRUE]
         /\ status' = [status EXCEPT ![e] =
                         IF canceling[c].seen = "queued" THEN "canceled" ELSE @]
    /\ canceling' = [canceling EXCEPT ![c] = NULL]
    /\ UNCHANGED <<tasks, request, idempotency_key, created_at, arrivals,
                   worker_id, lease, score, callback_deliveries, claiming>>

\* UPDATE, then the outbox row if the status READ BEFORE was queued.
CancelUpdate(c) ==
    /\ canceling[c] # NULL
    /\ LET e == canceling[c].job IN
         /\ Unlocked(e)
         /\ cancel_requested' = [cancel_requested EXCEPT ![e] = TRUE]
         /\ status' = [status EXCEPT ![e] = CanceledStatus(@)]
         /\ callback_deliveries' =
              IF canceling[c].seen = "queued" /\ HasCallback(e)
              THEN [callback_deliveries EXCEPT ![e] = Enqueued(e)]
              ELSE callback_deliveries
    /\ canceling' = [canceling EXCEPT ![c] = NULL]
    /\ UNCHANGED <<tasks, request, idempotency_key, created_at, arrivals,
                   worker_id, lease, score, claiming>>

-----------------------------------------------------------------------------
\* First UPDATE: expired runs whose cancellation was requested; RETURNING
\* names the rows whose callback this transaction will insert.
ClaimBegins(w, o) ==
    /\ claiming[w] = NULL
    /\ \A e \in CanceledRows : Unlocked(e)
    /\ claiming' = [claiming EXCEPT ![w] =
         [offer |-> o, expired |-> ExpiredRows, canceled |-> CanceledRows]]
    /\ UNCHANGED <<vars, canceling>>

\* Variant: the leases are not looked at again.
ExpiredAtBegin(w) == claiming[w].expired

\* Second UPDATE: whatever was expired at this transaction's "now" and still
\* is, canceled or not by the flag it reads NOW.
StillExpired(w) == {e \in claiming[w].expired : Expired(e)}

\* SELECT ... FOR UPDATE SKIP LOCKED, then the claim and the commit.
ClaimCommits(w) ==
    /\ claiming[w] # NULL
    /\ \A v \in Workers \ {w} : StillExpired(w) \cap LockedBy(v) = {}
    /\ LET R == StillExpired(w)
           o == claiming[w].offer
           Seen == {e \in Executions :
                      \A v \in Workers \ {w} : e \notin LockedBy(v)}
       IN \/ /\ \A e \in Seen : ~Claimable(e, o, R)
             /\ ReclaimOnly(R)
          \/ \E e \in Seen :
               /\ Claimable(e, o, R)
               /\ \A f \in Seen \ {e} : Claimable(f, o, R) => Precedes(e, f)
               /\ ReclaimAndRun(w, e, R)
    /\ ReclaimRest(claiming[w].canceled)
    /\ claiming' = [claiming EXCEPT ![w] = NULL]
    /\ UNCHANGED canceling

\* The client dies or the connection breaks: the transaction rolls back.
ClaimRollsBack(w) ==
    /\ claiming[w] # NULL
    /\ claiming' = [claiming EXCEPT ![w] = NULL]
    /\ UNCHANGED <<vars, canceling>>

-----------------------------------------------------------------------------
\* Operations that decide and write under one lock.
TxRegisterTask == \E t \in TaskRefs : RegisterTask(t, {})

TxSubmit ==
    \E e \in Executions, k \in Keys, r \in Requests : Submit(e, k, r)

TxFinish ==
    \E e \in Executions, w \in Workers, s \in TERMINAL_STATUSES,
       v \in Scores \cup {NULL} : Unlocked(e) /\ Finish(e, w, s, v)

TxRenewLease ==
    \E e \in Executions, w \in Workers : Unlocked(e) /\ RenewLease(e, w)

SingleStatements ==
    /\ TxRegisterTask \/ TxSubmit \/ TxFinish \/ TxRenewLease \/ Tick
    /\ UNCHANGED txVars

Cancels ==
    \/ \E c \in Cancelers, e \in Executions : CancelSelect(c, e)
    \/ \E c \in Cancelers : CancelUpdate(c)

PostgresNext ==
    \/ SingleStatements
    \/ Cancels
    \/ \E w \in Workers, o \in Offers : ClaimBegins(w, o)
    \/ \E w \in Workers : ClaimCommits(w) \/ ClaimRollsBack(w)

PostgresSpec == TxInit /\ [][PostgresNext]_allTxVars

-----------------------------------------------------------------------------
\* Whatever the interleaving, a completed or failed result with a callback
\* URL has its outbox row: finish writes both under the row lock.
ResultsAreNotified ==
    \A e \in Executions :
        status[e] \in {"completed", "failed"} /\ HasCallback(e) => HasDelivery(e)

\* When an expired run is canceled by a claim_next, its callback is in the
\* outbox in that same transaction.
ReclaimNotifies ==
    [][\A e \in Executions :
          status[e] = "running" /\ status'[e] = "canceled" /\ HasCallback(e) =>
             callback_deliveries'[e] # NULL]_allTxVars
=============================================================================
