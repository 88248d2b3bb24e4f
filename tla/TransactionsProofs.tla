------------------------- MODULE TransactionsProofs -------------------------
(***************************************************************************)
(* The store under statement-level interleaving, for any number of         *)
(* executions, workers and cancelers.  The outbox guarantees of JudgeStore *)
(* do not survive it (the run on ReclaimNotifies shows how); the leases,   *)
(* the queue, finality and the callbacks of results do.                    *)
(***************************************************************************)
EXTENDS StoreTransactions, JudgeStoreProofs

\* What is left of the invariant of a row when cancel decides on an older
\* status and claim_next on two snapshots.
TxRowInv(e) ==
    /\ status[e] = "absent" <=> request[e] = NULL
    /\ score[e] # NULL => Terminal(e)
    /\ cancel_requested[e] => status[e] # "absent"
    /\ status[e] = "running" <=> worker_id[e] # NULL
    /\ status[e] = "running" <=> lease[e] # NULL
    /\ status[e] = "queued" => ~cancel_requested[e]
    /\ status[e] \in {"completed", "failed"} /\ HasCallback(e) => HasDelivery(e)

TxInv ==
    /\ TxTypeOK
    /\ \A e \in Executions : TxRowInv(e)
    /\ \A c \in Cancelers : canceling[c] # NULL => status[canceling[c].job] # "absent"

-----------------------------------------------------------------------------
\* What the second half of a claim_next does to a row: it leaves it alone,
\* takes an expired run back by the flag it reads now, or starts a free one.
LEMMA CommitRow ==
    ASSUME TxInv, NEW w \in Workers, ClaimCommits(w), NEW f \in Executions
    PROVE  /\ UNCHANGED <<tasks, request, idempotency_key, created_at, arrivals, cancel_requested, score, canceling>>
           /\ callback_deliveries'[f] \in {Enqueued(f), callback_deliveries[f]}
           /\ \/ status'[f] = status[f] /\ worker_id'[f] = worker_id[f] /\ lease'[f] = lease[f]
              \/ /\ Expired(f) /\ worker_id'[f] = NULL /\ lease'[f] = NULL
                 /\ status'[f] = IF cancel_requested[f] THEN "canceled" ELSE "queued"
              \/ /\ status[f] = "queued" \/ Expired(f)
                 /\ ~cancel_requested[f]
                 /\ status'[f] = "running" /\ worker_id'[f] = w /\ lease'[f] = LeaseSeconds
  <1> DEFINE R == StillExpired(w)
  <1>1. R \subseteq ExpiredRows
    BY DEF StillExpired, ExpiredRows, TxInv, TxTypeOK, OpenClaim, ClaimCommits
  <1>2. /\ ReclaimedStatus(R)[f] = IF f \notin R THEN status[f]
                                   ELSE IF cancel_requested[f] THEN "canceled" ELSE "queued"
        /\ ReclaimedWorker(R)[f] = IF f \in R THEN NULL ELSE worker_id[f]
        /\ ReclaimedLease(R)[f] = IF f \in R THEN NULL ELSE lease[f]
        /\ f \in R => Expired(f)
    BY <1>1 DEF ReclaimedStatus, ReclaimedWorker, ReclaimedLease, ExpiredRows
  <1>3. UNCHANGED <<tasks, request, idempotency_key, created_at, arrivals, cancel_requested, score, canceling>>
    BY DEF ClaimCommits, ReclaimRest
  <1>4. callback_deliveries'[f] \in {Enqueued(f), callback_deliveries[f]}
    BY DEF ClaimCommits, ReclaimRest, ReclaimedDeliveries
  <1> HIDE DEF R
  <1>5. CASE ReclaimOnly(R)
    BY <1>2, <1>3, <1>4, <1>5 DEF ReclaimOnly
  <1>6. ASSUME NEW e \in Executions, Claimable(e, claiming[w].offer, R), ReclaimAndRun(w, e, R)
        PROVE  \/ status'[f] = status[f] /\ worker_id'[f] = worker_id[f] /\ lease'[f] = lease[f]
               \/ /\ Expired(f) /\ worker_id'[f] = NULL /\ lease'[f] = NULL
                  /\ status'[f] = IF cancel_requested[f] THEN "canceled" ELSE "queued"
               \/ /\ status[f] = "queued" \/ Expired(f)
                  /\ ~cancel_requested[f]
                  /\ status'[f] = "running" /\ worker_id'[f] = w /\ lease'[f] = LeaseSeconds
    <2>1. CASE e # f
      <3>1. /\ status'[f] = ReclaimedStatus(R)[f] /\ worker_id'[f] = ReclaimedWorker(R)[f]
            /\ lease'[f] = ReclaimedLease(R)[f]
        BY <1>6, <2>1 DEF ReclaimAndRun, ReclaimedStatus, ReclaimedWorker, ReclaimedLease
      <3> QED BY <1>2, <3>1
    <2>2. CASE e = f
      <3>1. status'[f] = "running" /\ worker_id'[f] = w /\ lease'[f] = LeaseSeconds
        BY <1>6, <2>2 DEF ReclaimAndRun, ReclaimedStatus, ReclaimedWorker, ReclaimedLease
      <3>2. (status[f] = "queued" \/ Expired(f)) /\ ~cancel_requested[f]
        BY <1>2, <1>6, <2>2 DEF Claimable
      <3> QED BY <3>1, <3>2
    <2> QED BY <2>1, <2>2
  <1>7. \/ ReclaimOnly(R)
        \/ \E e \in Executions : Claimable(e, claiming[w].offer, R) /\ ReclaimAndRun(w, e, R)
    BY DEF ClaimCommits, R
  <1> QED BY <1>3, <1>4, <1>5, <1>6, <1>7

\* What the statements of cancel do to a row: the flag is set, and the row is
\* settled exactly when it is queued NOW, whatever the SELECT saw.
LEMMA CancelRow ==
    ASSUME TxInv, NEW c \in Cancelers, CancelUpdate(c), NEW f \in Executions
    PROVE  /\ UNCHANGED <<tasks, request, idempotency_key, created_at, arrivals, worker_id, lease, score, claiming>>
           /\ callback_deliveries'[f] \in {Enqueued(f), callback_deliveries[f]}
           /\ \/ status'[f] = status[f] /\ cancel_requested'[f] = cancel_requested[f]
              \/ /\ status[f] # "absent" /\ cancel_requested'[f] = TRUE
                 /\ status'[f] = CanceledStatus(status[f])
  <1>1. canceling[c].job \in Executions /\ status[canceling[c].job] # "absent" /\ TypeOK
    BY DEF TxInv, TxTypeOK, CancelRead, CancelUpdate
  <1> QED BY <1>1 DEF CancelUpdate, TypeOK

\* The statements that decide and write under one lock are operations of the
\* store.
LEMMA SinglesUseTheStore == SingleStatements => Next
  BY DEF SingleStatements, TxRegisterTask, TxSubmit, TxFinish, TxRenewLease, Next, ExecutionNext

\* Every statement keeps tables and open transactions well typed.
LEMMA TxTypeStep ==
    ASSUME TxInv, [PostgresNext]_allTxVars PROVE TxTypeOK'
  <1>0. TypeOK /\ TxTypeOK
    BY DEF TxInv, TxTypeOK
  <1>1. CASE SingleStatements
    <2>1. TypeOK'
      BY <1>0, <1>1, SinglesUseTheStore, TypeStep
    <2> QED BY <1>0, <1>1, <2>1 DEF SingleStatements, TxTypeOK, txVars
  <1>2. CASE UNCHANGED vars
    <2>1. TypeOK'
      BY <1>0, <1>2, TypeStep
    <2>2. ASSUME NEW c \in Cancelers, NEW e \in Executions, CancelSelect(c, e) PROVE TxTypeOK'
      <3>1. [job |-> e, seen |-> status[e]] \in CancelRead
        BY <1>0 DEF CancelRead, TypeOK
      <3> QED BY <1>0, <2>1, <2>2, <3>1 DEF CancelSelect, TxTypeOK
    <2>3. ASSUME NEW w \in Workers, NEW o \in Offers, ClaimBegins(w, o) PROVE TxTypeOK'
      <3>1. [offer |-> o, expired |-> ExpiredRows, canceled |-> CanceledRows] \in OpenClaim
        BY DEF OpenClaim, ExpiredRows, CanceledRows
      <3> QED BY <1>0, <2>1, <2>3, <3>1 DEF ClaimBegins, TxTypeOK
    <2>4. ASSUME NEW w \in Workers, ClaimRollsBack(w) PROVE TxTypeOK'
      BY <1>0, <2>1, <2>4 DEF ClaimRollsBack, TxTypeOK
    <2>5. ASSUME NEW w \in Workers, ClaimCommits(w) PROVE TxTypeOK'
      BY <1>0, <2>1, <2>5 DEF ClaimCommits, TxTypeOK
    <2>6. ASSUME NEW c \in Cancelers, CancelUpdate(c) PROVE TxTypeOK'
      BY <1>0, <2>1, <2>6 DEF CancelUpdate, TxTypeOK
    <2>7. CASE UNCHANGED allTxVars
      BY <1>0, <2>1, <2>7 DEF allTxVars, txVars, TxTypeOK
    <2> QED BY <1>1, <2>2, <2>3, <2>4, <2>5, <2>6, <2>7 DEF PostgresNext, Cancels
  <1>3. \A e \in Executions : Enqueued(e) \in DeliveryRow
    BY <1>0, EnqueuedType
  <1>4. ASSUME NEW w \in Workers, ClaimCommits(w) PROVE TxTypeOK'
    <2>1. DOMAIN status' = Executions /\ DOMAIN worker_id' = Executions /\ DOMAIN lease' = Executions
      BY <1>4
      DEF ClaimCommits, ReclaimOnly, ReclaimAndRun, ReclaimedStatus, ReclaimedWorker, ReclaimedLease
    <2>2. callback_deliveries' \in [Executions -> DeliveryRow \cup {NULL}]
      BY <1>0, <1>3, <1>4 DEF ClaimCommits, ReclaimRest, ReclaimedDeliveries, TypeOK
    <2> DEFINE P == StillExpired(w)
    <2>3. /\ ReclaimedStatus(P) \in [Executions -> Statuses]
          /\ ReclaimedWorker(P) \in [Executions -> Workers \cup {NULL}]
          /\ ReclaimedLease(P) \in [Executions -> LeaseLeft \cup {NULL}]
      BY <1>0
      DEF ReclaimedStatus, ReclaimedWorker, ReclaimedLease, TypeOK, Statuses, TERMINAL_STATUSES
    <2>4. LeaseSeconds \in LeaseLeft
      BY StoreAssumption DEF LeaseLeft
    <2> HIDE DEF P
    <2>5. ReclaimOnly(P) \/ \E e \in Executions : ReclaimAndRun(w, e, P)
      BY <1>4 DEF ClaimCommits, P
    <2>6. /\ status' \in [Executions -> Statuses] /\ worker_id' \in [Executions -> Workers \cup {NULL}]
          /\ lease' \in [Executions -> LeaseLeft \cup {NULL}]
      BY <2>3, <2>4, <2>5 DEF ReclaimOnly, ReclaimAndRun, Statuses
    <2>7. TypeOK'
      BY <1>0, <1>4, <2>2, <2>6 DEF ClaimCommits, ReclaimRest, TypeOK
    <2> QED BY <1>0, <1>4, <2>7 DEF ClaimCommits, TxTypeOK
  <1>5. ASSUME NEW c \in Cancelers, CancelUpdate(c) PROVE TxTypeOK'
    <2>1. canceling[c].job \in Executions
      BY <1>0, <1>5 DEF TxTypeOK, CancelRead, CancelUpdate
    <2>2. callback_deliveries' \in [Executions -> DeliveryRow \cup {NULL}]
      BY <1>0, <1>3, <1>5, <2>1 DEF CancelUpdate, TypeOK
    <2>3. status' \in [Executions -> Statuses] /\ cancel_requested' \in [Executions -> BOOLEAN]
      BY <1>0, <1>5, <2>1 DEF CancelUpdate, CanceledStatus, TypeOK, Statuses, TERMINAL_STATUSES
    <2>4. TypeOK'
      BY <1>0, <1>5, <2>2, <2>3 DEF CancelUpdate, TypeOK
    <2> QED BY <1>0, <1>5, <2>4 DEF CancelUpdate, TxTypeOK
  <1> QED
    BY <1>1, <1>2, <1>4, <1>5
    DEF PostgresNext, Cancels, CancelSelect, ClaimBegins, ClaimRollsBack, allTxVars

-----------------------------------------------------------------------------
\* A step that is allowed on a row: it keeps the row consistent, never undoes
\* its insertion, leaves a settled one alone and a leased run with its owner.
RowMoves(e) ==
    /\ TxRowInv(e)'
    /\ status[e] # "absent" => status'[e] # "absent"
    /\ Terminal(e) => status'[e] = status[e] /\ score'[e] = score[e]
    /\ status[e] = "running" /\ lease[e] > 0 =>
         /\ status'[e] # "queued"
         /\ status'[e] = "running" => worker_id'[e] = worker_id[e]

\* A step that leaves the execution alone may only touch its outbox row.
LEMMA ExecutionUntouched ==
    ASSUME TxInv, NEW f \in Executions, HasDelivery(f) => HasDelivery(f)',
           status'[f] = status[f], request'[f] = request[f], score'[f] = score[f],
           cancel_requested'[f] = cancel_requested[f], worker_id'[f] = worker_id[f], lease'[f] = lease[f]
    PROVE  RowMoves(f)
  <1>1. TxRowInv(f)
    BY DEF TxInv
  <1>2. (Terminal(f)' <=> Terminal(f)) /\ (HasCallback(f)' <=> HasCallback(f))
    BY DEF Terminal, HasCallback
  <1>3. TxRowInv(f)'
    BY <1>1, <1>2 DEF TxRowInv
  <1> QED BY <1>3, Zenon DEF RowMoves

\* No upsert makes an outbox row disappear.
LEMMA UpsertKeeps ==
    ASSUME TypeOK, NEW f \in Executions, callback_deliveries'[f] \in {Enqueued(f), callback_deliveries[f]}
    PROVE  HasDelivery(f) => HasDelivery(f)'
  BY EnqueuedType, StoreAssumption DEF HasDelivery, Enqueued

\* The second half of claim_next moves a row as it may.
LEMMA CommitMoves ==
    ASSUME TxInv, NEW w \in Workers, ClaimCommits(w), NEW f \in Executions PROVE RowMoves(f)
  <1>0. TypeOK /\ TxRowInv(f)
    BY DEF TxInv, TxTypeOK
  <1>1. /\ UNCHANGED <<tasks, request, idempotency_key, created_at, arrivals, cancel_requested, score, canceling>>
        /\ HasDelivery(f) => HasDelivery(f)'
    BY <1>0, CommitRow, UpsertKeeps
  <1>2. CASE status'[f] = status[f] /\ worker_id'[f] = worker_id[f] /\ lease'[f] = lease[f]
    <2>1. request'[f] = request[f] /\ score'[f] = score[f]
      BY <1>1
    <2>2. cancel_requested'[f] = cancel_requested[f] /\ worker_id'[f] = worker_id[f] /\ lease'[f] = lease[f]
      BY <1>1, <1>2
    <2> QED BY <1>1, <1>2, <2>1, <2>2, ExecutionUntouched
  <1>3. CASE /\ Expired(f) /\ worker_id'[f] = NULL /\ lease'[f] = NULL
             /\ status'[f] = IF cancel_requested[f] THEN "canceled" ELSE "queued"
    <2>1. status[f] = "running" /\ ~(lease[f] > 0) /\ lease[f] # NULL
      BY <1>0, <1>3, StoreAssumption DEF Expired, TypeOK, LeaseLeft
    <2>2. score[f] = NULL /\ request[f] # NULL /\ ~Terminal(f)
      BY <1>0, <2>1 DEF TxRowInv, Terminal, TERMINAL_STATUSES
    <2>3. \/ cancel_requested[f] /\ status'[f] = "canceled"
          \/ ~cancel_requested[f] /\ status'[f] = "queued"
      BY <1>3
    <2>4. TxRowInv(f)'
      BY <1>1, <1>3, <2>2, <2>3 DEF TxRowInv, Terminal, TERMINAL_STATUSES
    <2> QED BY <2>1, <2>2, <2>3, <2>4 DEF RowMoves
  <1>4. CASE /\ status[f] = "queued" \/ Expired(f)
             /\ ~cancel_requested[f]
             /\ status'[f] = "running" /\ worker_id'[f] = w /\ lease'[f] = LeaseSeconds
    <2>1. /\ status[f] \in {"queued", "running"}
          /\ ~(status[f] = "running" /\ lease[f] > 0)
      BY <1>0, <1>4, StoreAssumption DEF Expired, TypeOK, LeaseLeft
    <2>2. score[f] = NULL /\ request[f] # NULL /\ ~Terminal(f)
      BY <1>0, <2>1 DEF TxRowInv, Terminal, TERMINAL_STATUSES
    <2>3. w # NULL /\ LeaseSeconds # NULL
      BY StoreAssumption
    <2>4. TxRowInv(f)'
      BY <1>1, <1>4, <2>2, <2>3 DEF TxRowInv, Terminal, TERMINAL_STATUSES
    <2> QED BY <1>4, <2>1, <2>2, <2>4 DEF RowMoves
  <1> QED BY <1>2, <1>3, <1>4, CommitRow

\* The second half of cancel moves a row as it may.
LEMMA CancelMoves ==
    ASSUME TxInv, NEW c \in Cancelers, CancelUpdate(c), NEW f \in Executions PROVE RowMoves(f)
  <1>0. TypeOK /\ TxRowInv(f)
    BY DEF TxInv, TxTypeOK
  <1>1. /\ UNCHANGED <<tasks, request, idempotency_key, created_at, arrivals, worker_id, lease, score, claiming>>
        /\ HasDelivery(f) => HasDelivery(f)'
    BY <1>0, CancelRow, UpsertKeeps
  <1>2. CASE status'[f] = status[f] /\ cancel_requested'[f] = cancel_requested[f]
    <2>1. request'[f] = request[f] /\ score'[f] = score[f]
      BY <1>1
    <2>2. cancel_requested'[f] = cancel_requested[f] /\ worker_id'[f] = worker_id[f] /\ lease'[f] = lease[f]
      BY <1>1, <1>2
    <2> QED BY <1>1, <1>2, <2>1, <2>2, ExecutionUntouched
  <1>3. CASE /\ status[f] # "absent" /\ cancel_requested'[f] = TRUE
             /\ status'[f] = CanceledStatus(status[f])
    <2>1. CASE status[f] = "queued"
      <3>1. status'[f] = "canceled"
        BY <1>3, <2>1 DEF CanceledStatus
      <3> QED BY <1>0, <1>1, <1>3, <2>1, <3>1 DEF TxRowInv, RowMoves, Terminal, TERMINAL_STATUSES
    <2>2. CASE status[f] # "queued"
      <3>1. status'[f] = status[f]
        BY <1>3, <2>2 DEF CanceledStatus
      <3> QED BY <1>0, <1>1, <1>3, <2>2, <3>1 DEF TxRowInv, RowMoves, Terminal, HasCallback
    <2> QED BY <2>1, <2>2
  <1> QED BY <1>2, <1>3, CancelRow

\* The single-statement operations move a row as they may.
LEMMA SingleMoves ==
    ASSUME TxInv, SingleStatements, NEW f \in Executions PROVE RowMoves(f)
  <1>0. TypeOK /\ TxRowInv(f)
    BY DEF TxInv, TxTypeOK
  <1> USE <1>0
  <1>1. ASSUME NEW t \in TaskRefs, RegisterTask(t, {}) PROVE RowMoves(f)
    BY <1>1, ExecutionUntouched DEF RegisterTask, executionVars, HasDelivery
  <1>2. ASSUME NEW e \in Executions, NEW k \in Keys, NEW r \in Requests, Submit(e, k, r)
        PROVE  RowMoves(f)
    <2>1. CASE e # f
      <3>1. status'[f] = status[f] /\ request'[f] = request[f]
        BY <1>2, <2>1 DEF Submit, TypeOK
      <3> QED BY <1>2, <3>1, ExecutionUntouched DEF Submit, HasDelivery
    <2>2. CASE e = f
      <3>1. status[f] = "absent" /\ status'[f] = "queued" /\ request'[f] = r /\ r # NULL
        BY <1>2, <2>2, StoreAssumption DEF Submit, TypeOK
      <3>2. score[f] = NULL /\ ~cancel_requested[f] /\ worker_id[f] = NULL /\ lease[f] = NULL
        BY <3>1 DEF TxRowInv, Terminal, TERMINAL_STATUSES
      <3>3. TxRowInv(f)'
        BY <1>2, <3>1, <3>2 DEF Submit, TxRowInv
      <3> QED BY <3>1, <3>3 DEF RowMoves, Terminal, TERMINAL_STATUSES
    <2> QED BY <2>1, <2>2
  <1>3. ASSUME NEW e \in Executions, NEW w \in Workers, NEW s \in TERMINAL_STATUSES,
               NEW v \in Scores \cup {NULL}, Finish(e, w, s, v)
        PROVE  RowMoves(f)
    <2>1. CASE e # f
      <3>1. /\ status'[f] = status[f] /\ score'[f] = score[f] /\ worker_id'[f] = worker_id[f]
            /\ lease'[f] = lease[f] /\ callback_deliveries'[f] = callback_deliveries[f]
        BY <1>3, <2>1 DEF Finish, TypeOK
      <3> QED BY <1>3, <3>1, ExecutionUntouched DEF Finish, HasDelivery
    <2>2. CASE e = f
      <3>1. status[f] = "running" /\ worker_id'[f] = NULL /\ lease'[f] = NULL
        BY <1>3, <2>2 DEF Finish, OwnsLiveLease, TypeOK
      <3>2. status'[f] = SettledStatus(f, s) /\ SettledStatus(f, s) \in TERMINAL_STATUSES
        BY <1>3, <2>2 DEF Finish, SettledStatus, TypeOK, TERMINAL_STATUSES
      <3>3. HasCallback(f) => callback_deliveries'[f] = Enqueued(f)
        BY <1>3, <2>2 DEF Finish, TypeOK
      <3>4. HasCallback(f) => HasDelivery(f)'
        BY <3>3, EnqueuedType, StoreAssumption DEF HasDelivery
      <3>5. request'[f] = request[f] /\ request[f] # NULL
        BY <1>3, <3>1 DEF Finish, TxRowInv
      <3>6. (HasCallback(f)' <=> HasCallback(f)) /\ status'[f] \notin {"absent", "queued", "running"}
        BY <3>2, <3>5 DEF HasCallback, TERMINAL_STATUSES
      <3>7. TxRowInv(f)'
        BY <3>1, <3>2, <3>4, <3>5, <3>6 DEF TxRowInv, Terminal
      <3> QED BY <3>1, <3>6, <3>7 DEF RowMoves, Terminal, TERMINAL_STATUSES
    <2> QED BY <2>1, <2>2
  <1>4. ASSUME NEW e \in Executions, NEW w \in Workers, RenewLease(e, w) PROVE RowMoves(f)
    <2>1. CASE e # f
      <3>1. lease'[f] = lease[f]
        BY <1>4, <2>1 DEF RenewLease, TypeOK
      <3> QED BY <1>4, <3>1, ExecutionUntouched DEF RenewLease, HasDelivery
    <2>2. CASE e = f
      <3>1. status[f] = "running" /\ lease'[f] = LeaseSeconds /\ LeaseSeconds # NULL
        BY <1>4, <2>2, StoreAssumption DEF RenewLease, OwnsLiveLease, TypeOK
      <3>2. TxRowInv(f)'
        BY <1>4, <3>1 DEF RenewLease, TxRowInv, Terminal, HasCallback, HasDelivery
      <3> QED BY <1>4, <3>1, <3>2 DEF RenewLease, RowMoves, Terminal, TERMINAL_STATUSES
    <2> QED BY <2>1, <2>2
  <1>5. CASE Tick
    <2>1. lease'[f] = NULL <=> lease[f] = NULL
      BY <1>5, StoreAssumption DEF Tick, TypeOK, Later, Larger, LeaseLeft
    <2>2. HasDelivery(f) => HasDelivery(f)'
      <3> SUFFICES ASSUME HasDelivery(f) PROVE HasDelivery(f)'
        OBVIOUS
      <3> DEFINE row == callback_deliveries[f]
      <3>1. row \in DeliveryRow
        BY DEF HasDelivery, TypeOK
      <3>2. Later(row.due, 0) \in 0 .. BackoffMax /\ Later(row.lease, 0) \in 0 .. CallbackLease
        BY <3>1, StoreAssumption DEF DeliveryRow, Later, Larger
      <3>3. Row(row.attempts, Later(row.due, 0), row.delivered,
                row.lease_owner, Later(row.lease, 0)) # NULL
        BY <3>1, <3>2, RowNotNull DEF DeliveryRow
      <3> QED BY <1>5, <3>3 DEF Tick, HasDelivery
    <2>3. (Terminal(f)' <=> Terminal(f)) /\ (HasCallback(f)' <=> HasCallback(f))
      BY <1>5 DEF Tick, Terminal, HasCallback
    <2>4. TxRowInv(f)'
      BY <1>5, <2>1, <2>2, <2>3 DEF Tick, TxRowInv
    <2> QED BY <1>5, <2>4 DEF Tick, RowMoves
  <1> QED
    BY <1>1, <1>2, <1>3, <1>4, <1>5
    DEF SingleStatements, TxRegisterTask, TxSubmit, TxFinish, TxRenewLease

\* Every step of the statement-level system moves every row as it may.
LEMMA EveryRowMoves ==
    ASSUME TxInv, [PostgresNext]_allTxVars, NEW f \in Executions PROVE RowMoves(f)
  <1>1. CASE UNCHANGED vars
    <2>1. /\ status'[f] = status[f] /\ request'[f] = request[f] /\ score'[f] = score[f]
          /\ cancel_requested'[f] = cancel_requested[f] /\ worker_id'[f] = worker_id[f]
          /\ lease'[f] = lease[f] /\ callback_deliveries'[f] = callback_deliveries[f]
      BY <1>1 DEF vars, executionVars
    <2> QED BY <2>1, ExecutionUntouched DEF HasDelivery
  <1> QED
    BY <1>1, SingleMoves, CommitMoves, CancelMoves
    DEF PostgresNext, Cancels, CancelSelect, ClaimBegins, ClaimRollsBack, allTxVars

\* The inductive step: rows by EveryRowMoves, and a cancellation that was read
\* from a row still has that row, because no statement deletes one.
LEMMA TxInvStep == TxInv /\ [PostgresNext]_allTxVars => TxInv'
  <1> SUFFICES ASSUME TxInv, [PostgresNext]_allTxVars PROVE TxInv'
    OBVIOUS
  <1>1. TxTypeOK'
    BY TxTypeStep
  <1>2. \A f \in Executions : TxRowInv(f)' /\ (status[f] # "absent" => status'[f] # "absent")
    BY EveryRowMoves DEF RowMoves
  <1>3. ASSUME NEW c \in Cancelers, canceling'[c] # NULL PROVE status'[canceling'[c].job] # "absent"
    <2>1. canceling'[c] \in CancelRead /\ canceling'[c].job \in Executions
      BY <1>1, <1>3 DEF TxTypeOK, CancelRead
    <2>2. CASE canceling'[c] = canceling[c]
      BY <1>2, <1>3, <2>1, <2>2 DEF TxInv
    <2>3. CASE canceling'[c] # canceling[c]
      <3>1. canceling \in [Cancelers -> CancelRead \cup {NULL}]
        BY DEF TxInv, TxTypeOK
      <3>2. ASSUME NEW d \in Cancelers, CancelUpdate(d) PROVE FALSE
        BY <1>3, <2>3, <3>1, <3>2 DEF CancelUpdate
      <3>3. PICK e \in Executions : CancelSelect(c, e)
        BY <2>3, <3>1, <3>2
        DEF PostgresNext, SingleStatements, Cancels, CancelSelect, ClaimBegins, ClaimCommits,
            ClaimRollsBack, txVars, allTxVars
      <3>4. canceling'[c].job = e /\ status[e] # "absent"
        BY <3>1, <3>3 DEF CancelSelect
      <3> QED BY <1>2, <3>4
    <2> QED BY <2>2, <2>3
  <1> QED BY <1>1, <1>2, <1>3 DEF TxInv

\* A fresh database without open transactions satisfies it.
LEMMA TxInvInit == TxInit => TxInv
  <1> SUFFICES ASSUME TxInit PROVE TxInv
    OBVIOUS
  <1>1. TypeOK
    BY StoreAssumption DEF TxInit, Init, TypeOK, Statuses
  <1>2. TxTypeOK
    BY <1>1 DEF TxInit, TxTypeOK
  <1>3. \A e \in Executions : TxRowInv(e)
    BY DEF TxInit, Init, TxRowInv, Terminal, TERMINAL_STATUSES
  <1> QED BY <1>2, <1>3 DEF TxInit, TxInv

\* The invariant that survives statement-level interleaving.
THEOREM TxInvariance == PostgresSpec => []TxInv
  BY TxInvInit, TxInvStep, PTL DEF PostgresSpec

\* However the statements of cancel and claim_next interleave with finish, a
\* completed or failed execution with a callback URL has its outbox row.
THEOREM ResultsReachTheOutbox == PostgresSpec => []ResultsAreNotified
  <1>1. TxInv => ResultsAreNotified
    BY DEF TxInv, TxRowInv, ResultsAreNotified
  <1> QED BY <1>1, TxInvariance, PTL

\* The queue holds no row that every claim_next would skip.
THEOREM NothingIsStuckUnderInterleaving == PostgresSpec => []NoStuckQueuedRow
  <1>1. TxInv => NoStuckQueuedRow
    BY DEF TxInv, TxRowInv, NoStuckQueuedRow
  <1> QED BY <1>1, TxInvariance, PTL

\* Owner, lease and the running status stay together.
THEOREM LeaseHeldUnderInterleaving == PostgresSpec => []LeaseHeld
  <1>1. TxInv => LeaseHeld
    BY DEF TxInv, TxRowInv, LeaseHeld
  <1> QED BY <1>1, TxInvariance, PTL

\* A settled execution keeps its status and result although cancel writes
\* long after it read the row and claim_next reclaims in two statements.
THEOREM FinalityUnderInterleaving == PostgresSpec => TerminalIsFinal
  <1>1. TxInv /\ [PostgresNext]_allTxVars =>
          [\A e \in Executions :
             Terminal(e) => status'[e] = status[e] /\ score'[e] = score[e]]_vars
    BY EveryRowMoves DEF RowMoves
  <1> QED BY <1>1, TxInvariance, PTL DEF PostgresSpec, TerminalIsFinal

\* A run that renews in time is not taken from its worker, although the rows
\* a claim_next reclaims were selected by an earlier statement.
THEOREM ExclusivityUnderInterleaving == PostgresSpec => LiveLeaseIsExclusive
  <1>1. TxInv /\ [PostgresNext]_allTxVars =>
          [\A e \in Executions :
             status[e] = "running" /\ lease[e] > 0 =>
               /\ status'[e] # "queued"
               /\ status'[e] = "running" => worker_id'[e] = worker_id[e]]_vars
    BY EveryRowMoves DEF RowMoves
  <1> QED BY <1>1, TxInvariance, PTL DEF PostgresSpec, LiveLeaseIsExclusive
=============================================================================
