-------------------------- MODULE JudgeStoreProofs --------------------------
(***************************************************************************)
(* What JudgeStore guarantees for any number of executions, workers, keys, *)
(* tasks and requests, and any lease, backoff and attempt bounds.          *)
(***************************************************************************)
EXTENDS JudgeStore, TLAPS

\* The retry delay never exceeds BackoffMax (mark_callback_failed).
LEMMA BackoffType ==
    ASSUME NEW n \in 0 .. AttemptsCap
    PROVE  Backoff(n) \in 0 .. BackoffMax
<1>1. Smaller(8, n) + 1 \in 1 .. 9
  BY StoreAssumption DEF Smaller
<1>2. PowersOfTwo[Smaller(8, n) + 1] \in Nat
  <2> DEFINE i == Smaller(8, n) + 1
  <2>1. i \in {1, 2, 3, 4, 5, 6, 7, 8, 9}
    BY <1>1
  <2> HIDE DEF i
  <2>2. PowersOfTwo[i] \in Nat
    BY <2>1 DEF PowersOfTwo
  <2> QED
    BY <2>2 DEF i
<1>3. BackoffBase * PowersOfTwo[Smaller(8, n) + 1] \in Nat
  BY <1>2, StoreAssumption
<1> QED
  BY <1>3, StoreAssumption DEF Backoff, Smaller

\* Writers of the outbox produce well-typed rows.
LEMMA EnqueuedType ==
    ASSUME TypeOK, NEW e \in Executions
    PROVE  Enqueued(e) \in DeliveryRow
BY StoreAssumption DEF TypeOK, Enqueued, NewDelivery, Row, DeliveryRow

\* An outbox row built from well-typed columns is well typed.
LEMMA RowType ==
    ASSUME NEW a \in 0 .. AttemptsCap, NEW d \in 0 .. BackoffMax,
           NEW b \in BOOLEAN, NEW w \in Workers \cup {NULL},
           NEW l \in 0 .. CallbackLease
    PROVE  Row(a, d, b, w, l) \in DeliveryRow
BY DEF Row, DeliveryRow

\* A row that an outbox operation writes is never mistaken for a missing one.
LEMMA RowNotNull ==
    ASSUME NEW a \in 0 .. AttemptsCap, NEW d \in 0 .. BackoffMax,
           NEW b \in BOOLEAN, NEW w \in Workers \cup {NULL},
           NEW l \in 0 .. CallbackLease
    PROVE  Row(a, d, b, w, l) # NULL
BY RowType, StoreAssumption

-----------------------------------------------------------------------------
\* Every operation of the store keeps the tables well typed: deadlines stay
\* within their bounds and owners are workers or nobody.
LEMMA TypeStep == TypeOK /\ [Next]_vars => TypeOK'
<1> SUFFICES ASSUME TypeOK, [Next]_vars PROVE TypeOK'
  OBVIOUS
<1> USE StoreAssumption
<1>1. ASSUME NEW t \in TaskRefs, NEW m \in SUBSET Capabilities, RegisterTask(t, m)
      PROVE  TypeOK'
  BY <1>1 DEF RegisterTask, TypeOK, executionVars
<1>2. ASSUME NEW e \in Executions, NEW k \in Keys, NEW r \in Requests, Submit(e, k, r)
      PROVE  TypeOK'
  BY <1>2 DEF Submit, TypeOK, Statuses
<1>3. ASSUME NEW w \in Workers, NEW o \in Offers, ClaimNext(w, o)
      PROVE  TypeOK'
  <2>1. ReclaimedStatus(ExpiredRows) \in [Executions -> Statuses]
    BY DEF TypeOK, ReclaimedStatus, Statuses, TERMINAL_STATUSES
  <2>2. ReclaimedWorker(ExpiredRows) \in [Executions -> Workers \cup {NULL}]
    BY DEF TypeOK, ReclaimedWorker
  <2>3. ReclaimedLease(ExpiredRows) \in [Executions -> LeaseLeft \cup {NULL}]
    BY DEF TypeOK, ReclaimedLease
  <2>4. ReclaimedDeliveries(CanceledRows) \in [Executions -> DeliveryRow \cup {NULL}]
    BY EnqueuedType DEF TypeOK, ReclaimedDeliveries
  <2>5. CASE ClaimNothing(o)
    BY <2>1, <2>2, <2>3, <2>4, <2>5 DEF ClaimNothing, ReclaimOnly, ReclaimRest, TypeOK
  <2>6. ASSUME NEW e \in Executions, ClaimExecution(w, o, e)
        PROVE  TypeOK'
    <3>1. LeaseSeconds \in LeaseLeft
      BY DEF LeaseLeft
    <3> QED
      BY <2>1, <2>2, <2>3, <2>4, <2>6, <3>1
      DEF ClaimExecution, ReclaimAndRun, ReclaimRest, TypeOK, Statuses
  <2> QED
    BY <1>3, <2>5, <2>6 DEF ClaimNext
<1>4. ASSUME NEW e \in Executions, NEW w \in Workers, NEW s \in TERMINAL_STATUSES,
             NEW v \in Scores \cup {NULL}, Finish(e, w, s, v)
      PROVE  TypeOK'
  BY <1>4, EnqueuedType DEF Finish, SettledStatus, SettledScore, TypeOK, Statuses, TERMINAL_STATUSES
<1>5. ASSUME NEW e \in Executions, NEW w \in Workers, RenewLease(e, w)
      PROVE  TypeOK'
  BY <1>5 DEF RenewLease, TypeOK, LeaseLeft
<1>6. ASSUME NEW e \in Executions, Cancel(e)
      PROVE  TypeOK'
  BY <1>6, EnqueuedType DEF Cancel, CanceledStatus, TypeOK, Statuses, TERMINAL_STATUSES
<1>7. ASSUME NEW e \in Executions, NEW row \in DeliveryRow, UpdateDelivery(e, row)
      PROVE  TypeOK'
  BY <1>7 DEF UpdateDelivery, TypeOK, executionVars
<1>8. ASSUME NEW e \in Executions, EnqueueCallback(e)
      PROVE  TypeOK'
  BY <1>8, <1>7, EnqueuedType DEF EnqueueCallback
<1>9. ASSUME NEW e \in Executions, HasDelivery(e)
      PROVE  callback_deliveries[e] \in DeliveryRow
  BY <1>9 DEF HasDelivery, TypeOK
<1>10. ASSUME NEW e \in Executions, NEW w \in Workers, ClaimCallback(e, w)
       PROVE  TypeOK'
  <2> DEFINE row == callback_deliveries[e]
  <2>1. row \in DeliveryRow
    BY <1>10, <1>9 DEF ClaimCallback, DeliveryIsFree
  <2>2. Row(row.attempts, row.due, row.delivered, w, CallbackLease) \in DeliveryRow
    BY <2>1 DEF DeliveryRow, Row
  <2> QED
    BY <1>10, <2>2, <1>7 DEF ClaimCallback
<1>11. ASSUME NEW e \in Executions, NEW w \in Workers, MarkCallbackDeliveredByOwner(e, w)
       PROVE  TypeOK'
  <2> DEFINE row == callback_deliveries[e]
  <2>1. row \in DeliveryRow
    BY <1>11, <1>9 DEF MarkCallbackDeliveredByOwner, MayAcknowledge, DeliveryOwner
  <2>2. Row(row.attempts, row.due, TRUE, NULL, 0) \in DeliveryRow
    BY <2>1 DEF DeliveryRow, Row
  <2> QED
    BY <1>11, <2>2, <1>7 DEF MarkCallbackDeliveredByOwner
<1>12. ASSUME NEW e \in Executions, NEW w \in Workers, MarkCallbackFailed(e, w)
       PROVE  TypeOK'
  <2> DEFINE row == callback_deliveries[e]
  <2>1. row \in DeliveryRow
    BY <1>12, <1>9 DEF MarkCallbackFailed, DeliveryOwner
  <2>2. row.attempts \in 0 .. AttemptsCap /\ row.delivered \in BOOLEAN
    BY <2>1 DEF DeliveryRow
  <2>3. Smaller(AttemptsCap, row.attempts + 1) \in 0 .. AttemptsCap
    BY <2>2 DEF Smaller
  <2>4. Backoff(row.attempts) \in 0 .. BackoffMax
    BY <2>2, BackoffType
  <2>5. Row(Smaller(AttemptsCap, row.attempts + 1), Backoff(row.attempts),
            row.delivered, NULL, 0) \in DeliveryRow
    <3>1. 0 \in 0 .. CallbackLease
      OBVIOUS
    <3> QED
      BY <2>2, <2>3, <2>4, <3>1, RowType
  <2> QED
    BY <1>12, <2>5, <1>7 DEF MarkCallbackFailed
<1>13. ASSUME NEW e \in Executions, ReplayCallback(e)
       PROVE  TypeOK'
  <2>1. Row(Enqueued(e).attempts, 0, FALSE, NULL, 0) \in DeliveryRow
    BY EnqueuedType DEF DeliveryRow, Row
  <2> QED
    BY <1>13, <2>1, <1>7 DEF ReplayCallback
<1>14. CASE Tick
  <2>1. lease' \in [Executions -> LeaseLeft \cup {NULL}]
    BY <1>14 DEF Tick, TypeOK, LeaseLeft, Later, Larger
  <2>2. callback_deliveries' \in [Executions -> DeliveryRow \cup {NULL}]
    <3>1. ASSUME NEW e \in Executions, HasDelivery(e)
          PROVE  LET row == callback_deliveries[e] IN
                 Row(row.attempts, Later(row.due, 0), row.delivered,
                     row.lease_owner, Later(row.lease, 0)) \in DeliveryRow
      BY <1>9, <3>1 DEF DeliveryRow, Row, Later, Larger
    <3> QED
      BY <1>14, <3>1 DEF Tick
  <2> QED
    BY <1>14, <2>1, <2>2 DEF Tick, TypeOK
<1>15. CASE UNCHANGED vars
  BY <1>15 DEF vars, executionVars, TypeOK
<1> QED
  BY <1>1, <1>2, <1>3, <1>4, <1>5, <1>6, <1>8, <1>10, <1>11, <1>12, <1>13, <1>14, <1>15
  DEF Next, ExecutionNext, DeliveryNext

\* The tables of the store are well typed in every reachable state.
THEOREM TypeCorrect == Spec => []TypeOK
<1>1. Init => TypeOK
  BY StoreAssumption DEF Init, TypeOK, Statuses
<1> QED
  BY <1>1, TypeStep, PTL DEF Spec

-----------------------------------------------------------------------------
(***************************************************************************)
(* The inductive invariant.  The safety invariants lean on one another:    *)
(* cancel settles a queued row without touching its owner, so LeaseHeld is *)
(* needed to know there is none; a claim must not start a settled row that *)
(* already has a callback; and the outbox is complete only because a row   *)
(* without a request has not been submitted yet.                           *)
(***************************************************************************)
RowsConsistent ==
    \A e \in Executions :
        /\ status[e] = "absent" <=> request[e] = NULL
        /\ score[e] # NULL => Terminal(e)
        /\ cancel_requested[e] => status[e] # "absent"

StoreInv ==
    /\ TypeOK
    /\ RowsConsistent
    /\ LeaseHeld
    /\ NoStuckQueuedRow
    /\ OutboxComplete
    /\ OutboxOnlyForSettled
    /\ DeliveredIsUnowned

\* The reclaim pass of claim_next on the rows R it updates and the rows N whose
\* callback it inserts, seen from one row: a run that is over is released or,
\* when canceled, settled with its callback; every other row is left alone.
LEMMA ReclaimPass ==
    ASSUME StoreInv, NEW e \in Executions
    PROVE  /\ ReclaimedStatus(ExpiredRows)[e] =
                IF ~Expired(e) THEN status[e]
                ELSE IF cancel_requested[e] THEN "canceled" ELSE "queued"
           /\ ReclaimedWorker(ExpiredRows)[e] = IF Expired(e) THEN NULL ELSE worker_id[e]
           /\ ReclaimedLease(ExpiredRows)[e] = IF Expired(e) THEN NULL ELSE lease[e]
           /\ ReclaimedDeliveries(CanceledRows)[e] =
                IF Expired(e) /\ cancel_requested[e] /\ HasCallback(e)
                THEN Enqueued(e) ELSE callback_deliveries[e]
BY DEF ReclaimedStatus, ReclaimedWorker, ReclaimedLease, ReclaimedDeliveries,
       ExpiredRows, CanceledRows

\* An upserted outbox row exists; it is new and unowned, or it was there before.
LEMMA EnqueuedRow ==
    ASSUME TypeOK, NEW e \in Executions
    PROVE  /\ Enqueued(e) # NULL
           /\ callback_deliveries[e] # NULL => Enqueued(e) = callback_deliveries[e]
           /\ callback_deliveries[e] = NULL =>
                Enqueued(e).delivered = FALSE /\ Enqueued(e).lease_owner = NULL
BY EnqueuedType, StoreAssumption DEF Enqueued, NewDelivery, Row

\* The part of StoreInv that is about one row, so that a step is judged row by
\* row.
RowInv(e) ==
    /\ status[e] = "absent" <=> request[e] = NULL
    /\ score[e] # NULL => Terminal(e)
    /\ cancel_requested[e] => status[e] # "absent"
    /\ status[e] = "running" <=> worker_id[e] # NULL
    /\ status[e] = "running" <=> lease[e] # NULL
    /\ status[e] = "queued" => ~cancel_requested[e]
    /\ HasDelivery(e) <=> Terminal(e) /\ HasCallback(e)
    /\ HasDelivery(e) /\ callback_deliveries[e].delivered =>
         callback_deliveries[e].lease_owner = NULL

\* Apart from types, the invariant speaks of one execution at a time: a step
\* has to be examined only at the rows it touches.
LEMMA StoreInvByRow == StoreInv <=> TypeOK /\ \A e \in Executions : RowInv(e)
BY DEF StoreInv, RowsConsistent, LeaseHeld, NoStuckQueuedRow, OutboxComplete,
       OutboxOnlyForSettled, DeliveredIsUnowned, RowInv

\* A row no column of which changes keeps its invariant.
LEMMA RowUntouched ==
    ASSUME NEW e \in Executions, RowInv(e),
           status'[e] = status[e], request'[e] = request[e], score'[e] = score[e],
           cancel_requested'[e] = cancel_requested[e],
           worker_id'[e] = worker_id[e], lease'[e] = lease[e],
           callback_deliveries'[e] = callback_deliveries[e]
    PROVE  RowInv(e)'
BY DEF RowInv, Terminal, HasDelivery, HasCallback

\* Every operation of the store preserves the inductive invariant.
LEMMA StoreInvStep == StoreInv /\ [Next]_vars => StoreInv'
<1> SUFFICES ASSUME StoreInv, [Next]_vars, NEW f \in Executions
             PROVE  RowInv(f)'
  BY TypeStep
  DEF StoreInv, RowsConsistent, LeaseHeld, NoStuckQueuedRow, OutboxComplete,
      OutboxOnlyForSettled, DeliveredIsUnowned, RowInv
<1> USE StoreAssumption
<1>0. TypeOK /\ RowInv(f)
  BY StoreInvByRow
<1>1. ASSUME NEW t \in TaskRefs, NEW m \in SUBSET Capabilities, RegisterTask(t, m)
      PROVE  RowInv(f)'
  BY <1>0, <1>1, RowUntouched DEF RegisterTask, executionVars
<1>2. ASSUME NEW e \in Executions, NEW k \in Keys, NEW r \in Requests, Submit(e, k, r)
      PROVE  RowInv(f)'
  <2>1. CASE f = e
    <3>1. /\ status[f] = "absent" /\ status'[f] = "queued"
          /\ request'[f] = r /\ request'[f] # NULL
      BY <1>0, <1>2, <2>1 DEF Submit, TypeOK
    <3>2. /\ UNCHANGED <<score, cancel_requested, worker_id, lease, callback_deliveries>>
      BY <1>2 DEF Submit
    <3> QED
      BY <1>0, <3>1, <3>2
      DEF RowInv, Terminal, TERMINAL_STATUSES, HasDelivery, HasCallback
  <2>2. CASE f # e
    BY <1>0, <1>2, <2>2, RowUntouched DEF Submit, TypeOK
  <2> QED
    BY <2>1, <2>2
<1>3. ASSUME NEW w \in Workers, NEW o \in Offers, ClaimNext(w, o)
      PROVE  RowInv(f)'
  <2>1. UNCHANGED <<request, cancel_requested, score>>
    BY <1>3 DEF ClaimNext, ClaimNothing, ClaimExecution, ReclaimRest
  <2>2. callback_deliveries'[f] =
          IF Expired(f) /\ cancel_requested[f] /\ HasCallback(f)
          THEN Enqueued(f) ELSE callback_deliveries[f]
    BY <1>3, ReclaimPass DEF ClaimNext, ClaimNothing, ClaimExecution, ReclaimRest
  <2>3. CASE /\ status'[f] = ReclaimedStatus(ExpiredRows)[f]
             /\ worker_id'[f] = ReclaimedWorker(ExpiredRows)[f]
             /\ lease'[f] = ReclaimedLease(ExpiredRows)[f]
    <3>1. CASE ~Expired(f)
      BY <1>0, <2>1, <2>2, <2>3, <3>1, ReclaimPass, RowUntouched
    <3>2. CASE Expired(f) /\ ~cancel_requested[f]
      <4>1. status'[f] = "queued" /\ worker_id'[f] = NULL /\ lease'[f] = NULL
        BY <2>3, <3>2, ReclaimPass
      <4>2. callback_deliveries'[f] = callback_deliveries[f]
        BY <2>2, <3>2
      <4> QED
        BY <1>0, <2>1, <3>2, <4>1, <4>2
        DEF Expired, RowInv, Terminal, TERMINAL_STATUSES, HasDelivery, HasCallback
    <3>3. CASE Expired(f) /\ cancel_requested[f]
      <4>1. status'[f] = "canceled" /\ worker_id'[f] = NULL /\ lease'[f] = NULL
        BY <2>3, <3>3, ReclaimPass
      <4>2. callback_deliveries[f] = NULL
        BY <1>0, <3>3 DEF Expired, RowInv, Terminal, TERMINAL_STATUSES, HasDelivery
      <4>3. CASE HasCallback(f)
        <5>1. /\ callback_deliveries'[f] # NULL
              /\ callback_deliveries'[f].lease_owner = NULL
          BY <1>0, <2>2, <3>3, <4>2, <4>3, EnqueuedRow
        <5> QED
          BY <1>0, <2>1, <3>3, <4>1, <4>3, <5>1
          DEF Expired, RowInv, Terminal, TERMINAL_STATUSES, HasDelivery, HasCallback
      <4>4. CASE ~HasCallback(f)
        BY <1>0, <2>1, <2>2, <3>3, <4>1, <4>2, <4>4
        DEF Expired, RowInv, Terminal, TERMINAL_STATUSES, HasDelivery, HasCallback
      <4> QED
        BY <4>3, <4>4
    <3> QED
      BY <3>1, <3>2, <3>3
  <2>4. CASE /\ Claimable(f, o, ExpiredRows)
             /\ status'[f] = "running" /\ worker_id'[f] = w /\ lease'[f] = LeaseSeconds
    <3>1. status[f] \in {"queued", "running"} /\ ~cancel_requested[f]
      BY <2>4, ReclaimPass DEF Claimable, Expired
    <3>2. callback_deliveries'[f] = callback_deliveries[f]
      BY <2>2, <3>1
    <3> QED
      BY <1>0, <2>1, <2>4, <3>1, <3>2
      DEF RowInv, Terminal, TERMINAL_STATUSES, HasDelivery, HasCallback
  <2>5. ASSUME NEW e \in Executions, ClaimExecution(w, o, e)
        PROVE  RowInv(f)'
    BY <2>3, <2>4, <2>5
    DEF ClaimExecution, ReclaimAndRun, ReclaimedStatus, ReclaimedWorker, ReclaimedLease
  <2>6. ASSUME ClaimNothing(o)
        PROVE  RowInv(f)'
    BY <2>3, <2>6 DEF ClaimNothing, ReclaimOnly
  <2> QED
    BY <1>3, <2>5, <2>6 DEF ClaimNext
<1>4. ASSUME NEW e \in Executions, NEW w \in Workers, NEW s \in TERMINAL_STATUSES,
             NEW v \in Scores \cup {NULL}, Finish(e, w, s, v)
      PROVE  RowInv(f)'
  <2>1. CASE f = e
    <3>1. /\ status[f] = "running"
          /\ status'[f] \in TERMINAL_STATUSES
          /\ worker_id'[f] = NULL /\ lease'[f] = NULL
      BY <1>0, <1>4, <2>1
      DEF Finish, OwnsLiveLease, SettledStatus, TypeOK, TERMINAL_STATUSES
    <3>2. UNCHANGED <<request, cancel_requested>>
      BY <1>4 DEF Finish
    <3>3. callback_deliveries[f] = NULL
      BY <1>0, <3>1 DEF RowInv, Terminal, TERMINAL_STATUSES, HasDelivery
    <3>4. CASE HasCallback(f)
      <4>1. /\ callback_deliveries'[f] # NULL
            /\ callback_deliveries'[f].lease_owner = NULL
        BY <1>0, <1>4, <2>1, <3>3, <3>4, EnqueuedRow DEF Finish, TypeOK
      <4> QED
        BY <1>0, <3>1, <3>2, <3>4, <4>1
        DEF RowInv, Terminal, TERMINAL_STATUSES, HasDelivery, HasCallback
    <3>5. CASE ~HasCallback(f)
      <4>1. callback_deliveries'[f] = NULL
        BY <1>4, <2>1, <3>3, <3>5 DEF Finish
      <4> QED
        BY <1>0, <3>1, <3>2, <3>5, <4>1
        DEF RowInv, Terminal, TERMINAL_STATUSES, HasDelivery, HasCallback
    <3> QED
      BY <3>4, <3>5
  <2>2. CASE f # e
    BY <1>0, <1>4, <2>2, RowUntouched DEF Finish, TypeOK
  <2> QED
    BY <2>1, <2>2
<1>5. ASSUME NEW e \in Executions, NEW w \in Workers, RenewLease(e, w)
      PROVE  RowInv(f)'
  BY <1>0, <1>5
  DEF RenewLease, OwnsLiveLease, TypeOK, RowInv, Terminal, HasDelivery, HasCallback
<1>6. ASSUME NEW e \in Executions, Cancel(e)
      PROVE  RowInv(f)'
  <2>1. CASE f = e /\ status[e] = "queued"
    <3>1. /\ status'[f] = "canceled" /\ cancel_requested'[f] = TRUE
          /\ UNCHANGED <<request, worker_id, lease, score>>
      BY <1>0, <1>6, <2>1 DEF Cancel, CanceledStatus, TypeOK
    <3>2. callback_deliveries[f] = NULL
      BY <1>0, <2>1 DEF RowInv, Terminal, TERMINAL_STATUSES, HasDelivery
    <3>3. CASE HasCallback(f)
      <4>1. /\ callback_deliveries'[f] # NULL
            /\ callback_deliveries'[f].lease_owner = NULL
        BY <1>0, <1>6, <2>1, <3>2, <3>3, EnqueuedRow DEF Cancel, TypeOK
      <4> QED
        BY <1>0, <2>1, <3>1, <3>3, <4>1
        DEF RowInv, Terminal, TERMINAL_STATUSES, HasDelivery, HasCallback
    <3>4. CASE ~HasCallback(f)
      <4>1. callback_deliveries'[f] = NULL
        BY <1>6, <2>1, <3>2, <3>4 DEF Cancel
      <4> QED
        BY <1>0, <2>1, <3>1, <3>4, <4>1
        DEF RowInv, Terminal, TERMINAL_STATUSES, HasDelivery, HasCallback
    <3> QED
      BY <3>3, <3>4
  <2>2. CASE f = e /\ status[e] # "queued"
    <3>1. /\ status[f] # "absent" /\ status'[f] = status[f]
          /\ cancel_requested'[f] = TRUE
          /\ UNCHANGED <<request, worker_id, lease, score, callback_deliveries>>
      BY <1>0, <1>6, <2>2 DEF Cancel, CanceledStatus, TypeOK
    <3> QED
      BY <1>0, <2>2, <3>1 DEF RowInv, Terminal, HasDelivery, HasCallback
  <2>3. CASE f # e
    BY <1>0, <1>6, <2>3, RowUntouched DEF Cancel, TypeOK
  <2> QED
    BY <2>1, <2>2, <2>3
<1>7. ASSUME NEW e \in Executions, NEW row, UpdateDelivery(e, row),
             row # NULL, Terminal(e) /\ HasCallback(e),
             row.delivered => row.lease_owner = NULL
      PROVE  RowInv(f)'
  <2>1. UNCHANGED <<status, request, score, cancel_requested, worker_id, lease>>
    BY <1>7 DEF UpdateDelivery, executionVars
  <2>2. CASE f = e
    <3>1. callback_deliveries'[f] = row
      BY <1>0, <1>7, <2>2 DEF UpdateDelivery, TypeOK
    <3> QED
      BY <1>0, <1>7, <2>1, <2>2, <3>1 DEF RowInv, Terminal, HasDelivery, HasCallback
  <2>3. CASE f # e
    BY <1>0, <1>7, <2>1, <2>3, RowUntouched DEF UpdateDelivery, TypeOK
  <2> QED
    BY <2>2, <2>3
<1>8. ASSUME NEW a, NEW d, NEW b, NEW w, NEW l
      PROVE  Row(a, d, b, w, l).delivered = b /\ Row(a, d, b, w, l).lease_owner = w
  BY DEF Row
<1>9. ASSUME NEW e \in Executions, HasDelivery(e)
      PROVE  /\ Terminal(e) /\ HasCallback(e)
             /\ callback_deliveries[e] \in DeliveryRow
             /\ callback_deliveries[e].delivered =>
                  callback_deliveries[e].lease_owner = NULL
  BY <1>9, StoreInvByRow DEF RowInv, HasDelivery, TypeOK
<1>10. ASSUME NEW e \in Executions, EnqueueCallback(e)
       PROVE  RowInv(f)'
  <2>1. Enqueued(e) # NULL /\ (Enqueued(e).delivered => Enqueued(e).lease_owner = NULL)
    BY <1>0, <1>9, EnqueuedRow DEF HasDelivery
  <2> QED
    BY <1>7, <1>10, <2>1 DEF EnqueueCallback
<1>11. ASSUME NEW e \in Executions, NEW w \in Workers, ClaimCallback(e, w)
       PROVE  RowInv(f)'
  <2> DEFINE row == callback_deliveries[e]
             new == Row(row.attempts, row.due, row.delivered, w, CallbackLease)
  <2>1. HasDelivery(e) /\ ~row.delivered
    BY <1>11 DEF ClaimCallback, DeliveryIsFree
  <2>2. new # NULL
    <3>1. /\ row.attempts \in 0 .. AttemptsCap /\ row.due \in 0 .. BackoffMax
          /\ row.delivered \in BOOLEAN
      BY <2>1, <1>9 DEF DeliveryRow
    <3>2. CallbackLease \in 0 .. CallbackLease
      OBVIOUS
    <3> QED
      BY <3>1, <3>2, RowNotNull
  <2>3. ~new.delivered
    BY <2>1 DEF Row
  <2> QED
    BY <1>7, <1>9, <1>11, <2>1, <2>2, <2>3 DEF ClaimCallback
<1>12. ASSUME NEW e \in Executions, NEW w \in Workers, MarkCallbackDeliveredByOwner(e, w)
       PROVE  RowInv(f)'
  <2> DEFINE row == callback_deliveries[e]
             new == Row(row.attempts, row.due, TRUE, NULL, 0)
  <2>1. HasDelivery(e)
    BY <1>12 DEF MarkCallbackDeliveredByOwner, MayAcknowledge, DeliveryOwner
  <2>2. new # NULL
    <3>1. row.attempts \in 0 .. AttemptsCap /\ row.due \in 0 .. BackoffMax
      BY <2>1, <1>9 DEF DeliveryRow
    <3>2. 0 \in 0 .. CallbackLease
      OBVIOUS
    <3> QED
      BY <3>1, <3>2, RowNotNull
  <2>3. new.lease_owner = NULL
    BY DEF Row
  <2> QED
    BY <1>7, <1>9, <1>12, <2>1, <2>2, <2>3 DEF MarkCallbackDeliveredByOwner
<1>13. ASSUME NEW e \in Executions, NEW w \in Workers, MarkCallbackFailed(e, w)
       PROVE  RowInv(f)'
  <2> DEFINE row == callback_deliveries[e]
             new == Row(Smaller(AttemptsCap, row.attempts + 1), Backoff(row.attempts),
                        row.delivered, NULL, 0)
  <2>1. HasDelivery(e)
    BY <1>13 DEF MarkCallbackFailed, DeliveryOwner
  <2>2. new # NULL
    <3>1. row.attempts \in 0 .. AttemptsCap /\ row.delivered \in BOOLEAN
      BY <2>1, <1>9 DEF DeliveryRow
    <3>2. Smaller(AttemptsCap, row.attempts + 1) \in 0 .. AttemptsCap
      BY <3>1 DEF Smaller
    <3>3. Backoff(row.attempts) \in 0 .. BackoffMax
      BY <3>1, BackoffType
    <3>4. 0 \in 0 .. CallbackLease
      OBVIOUS
    <3> QED
      BY <3>1, <3>2, <3>3, <3>4, RowNotNull
  <2>3. new.delivered => new.lease_owner = NULL
    BY <1>8
  <2> QED
    BY <1>7, <1>9, <1>13, <2>1, <2>2, <2>3 DEF MarkCallbackFailed
<1>14. ASSUME NEW e \in Executions, ReplayCallback(e)
       PROVE  RowInv(f)'
  <2> DEFINE new == Row(Enqueued(e).attempts, 0, FALSE, NULL, 0)
  <2>1. new # NULL
    <3>1. Enqueued(e).attempts \in 0 .. AttemptsCap
      BY <1>0, EnqueuedType DEF DeliveryRow
    <3>2. 0 \in 0 .. BackoffMax /\ 0 \in 0 .. CallbackLease
      OBVIOUS
    <3> QED
      BY <3>1, <3>2, RowNotNull
  <2>2. ~new.delivered
    BY DEF Row
  <2> QED
    BY <1>7, <1>14, <2>1, <2>2 DEF ReplayCallback
<1>15. CASE Tick
  <2>1. UNCHANGED <<status, request, score, cancel_requested, worker_id>>
    BY <1>15 DEF Tick
  <2>2. lease'[f] = NULL <=> lease[f] = NULL
    BY <1>0, <1>15 DEF Tick, TypeOK, LeaseLeft, Later, Larger
  <2>3. HasDelivery(f)' <=> HasDelivery(f)
    <3>1. CASE HasDelivery(f)
      <4> DEFINE row == callback_deliveries[f]
      <4>1. row \in DeliveryRow
        BY <1>9, <3>1
      <4>2. Later(row.due, 0) \in 0 .. BackoffMax /\ Later(row.lease, 0) \in 0 .. CallbackLease
        BY <4>1 DEF DeliveryRow, Later, Larger
      <4>3. Row(row.attempts, Later(row.due, 0), row.delivered,
                row.lease_owner, Later(row.lease, 0)) # NULL
        BY <4>1, <4>2, RowNotNull DEF DeliveryRow
      <4> QED
        BY <1>15, <3>1, <4>3 DEF Tick, HasDelivery
    <3>2. CASE ~HasDelivery(f)
      BY <1>15, <3>2 DEF Tick, HasDelivery
    <3> QED
      BY <3>1, <3>2
  <2>4. HasDelivery(f) =>
          /\ callback_deliveries'[f].delivered = callback_deliveries[f].delivered
          /\ callback_deliveries'[f].lease_owner = callback_deliveries[f].lease_owner
    BY <1>8, <1>15 DEF Tick
  <2> QED
    BY <1>0, <2>1, <2>2, <2>3, <2>4 DEF RowInv, Terminal, HasCallback
<1>16. CASE UNCHANGED vars
  BY <1>0, <1>16, RowUntouched DEF vars, executionVars
<1> QED
  BY <1>1, <1>2, <1>3, <1>4, <1>5, <1>6, <1>10, <1>11, <1>12, <1>13, <1>14, <1>15, <1>16
  DEF Next, ExecutionNext, DeliveryNext

\* A fresh database satisfies the invariant.
LEMMA StoreInvInit == Init => StoreInv
<1> SUFFICES ASSUME Init PROVE StoreInv
  OBVIOUS
<1>1. TypeOK
  BY StoreAssumption DEF Init, TypeOK, Statuses
<1>2. ASSUME NEW e \in Executions PROVE RowInv(e)
  BY DEF Init, RowInv, Terminal, TERMINAL_STATUSES, HasDelivery, HasCallback
<1> QED
  BY <1>1, <1>2, StoreInvByRow

\* StoreInv holds in every reachable state.
THEOREM StoreInvariant == Spec => []StoreInv
BY StoreInvInit, StoreInvStep, PTL DEF Spec

\* Owner, lease and the running status come and go together (claim_next, its
\* reclaim pass, finish, cancel).
THEOREM LeaseDiscipline == Spec => []LeaseHeld
BY StoreInvariant, PTL DEF StoreInv

\* No execution is left queued with its cancellation requested, where no
\* operation would ever settle it.
THEOREM QueuedIsClaimable == Spec => []NoStuckQueuedRow
BY StoreInvariant, PTL DEF StoreInv

\* However finish, cancel and the reclaim pass interleave, a settled execution
\* with a callback URL has its outbox row.
THEOREM EveryResultHasItsCallback == Spec => []OutboxComplete
BY StoreInvariant, PTL DEF StoreInv

\* And nothing else has one, so claim_callback need not look at the execution.
THEOREM NoCallbackBeforeItsResult == Spec => []OutboxOnlyForSettled
BY StoreInvariant, PTL DEF StoreInv

\* A delivered callback has no lease owner left who could postpone it.
THEOREM DeliveredIsReleased == Spec => []DeliveredIsUnowned
BY StoreInvariant, PTL DEF StoreInv

-----------------------------------------------------------------------------
\* No operation touches the status or the result of a settled execution.
LEMMA SettledStays ==
    ASSUME StoreInv, [Next]_vars, NEW e \in Executions, Terminal(e)
    PROVE  status'[e] = status[e] /\ score'[e] = score[e]
<1>1. status[e] \notin {"absent", "queued", "running"} /\ ~Expired(e)
  BY DEF Terminal, TERMINAL_STATUSES, Expired
<1>2. ReclaimedStatus(ExpiredRows)[e] = status[e]
  BY <1>1, ReclaimPass
<1>3. TypeOK
  BY DEF StoreInv
<1>4. ASSUME NEW w \in Workers, NEW o \in Offers, ClaimNext(w, o)
      PROVE  status'[e] = status[e] /\ score'[e] = score[e]
  <2>1. ~Claimable(e, o, ExpiredRows)
    BY <1>1, <1>2 DEF Claimable
  <2> QED
    BY <1>2, <1>4, <2>1
    DEF ClaimNext, ClaimNothing, ClaimExecution, ReclaimOnly, ReclaimAndRun,
        ReclaimRest, ReclaimedStatus
<1>5. CASE \E t \in TaskRefs, m \in SUBSET Capabilities : RegisterTask(t, m)
  BY <1>5 DEF RegisterTask, executionVars
<1>6. CASE \E f \in Executions, k \in Keys, r \in Requests : Submit(f, k, r)
  BY <1>1, <1>3, <1>6 DEF Submit, TypeOK
<1>7. CASE \E f \in Executions, w \in Workers, s \in TERMINAL_STATUSES,
              v \in Scores \cup {NULL} : Finish(f, w, s, v)
  BY <1>1, <1>3, <1>7 DEF Finish, OwnsLiveLease, TypeOK
<1>8. CASE \E f \in Executions, w \in Workers : RenewLease(f, w)
  BY <1>8 DEF RenewLease
<1>9. CASE \E f \in Executions : Cancel(f)
  BY <1>1, <1>3, <1>9 DEF Cancel, CanceledStatus, TypeOK
<1>10. CASE DeliveryNext
  BY <1>10
  DEF DeliveryNext, EnqueueCallback, ClaimCallback, MarkCallbackDeliveredByOwner,
      MarkCallbackFailed, ReplayCallback, UpdateDelivery, executionVars
<1>11. CASE Tick \/ UNCHANGED vars
  BY <1>11 DEF Tick, vars, executionVars
<1> QED
  BY <1>4, <1>5, <1>6, <1>7, <1>8, <1>9, <1>10, <1>11 DEF Next, ExecutionNext

\* The status and the result of a settled execution never change again.
THEOREM Finality == Spec => TerminalIsFinal
<1>1. StoreInv /\ [Next]_vars =>
        [\A e \in Executions :
            Terminal(e) => status'[e] = status[e] /\ score'[e] = score[e]]_vars
  BY SettledStays
<1> QED
  BY <1>1, StoreInvariant, PTL DEF Spec, TerminalIsFinal

\* A run whose lease is live is neither requeued nor given to another worker.
THEOREM Exclusivity == Spec => LiveLeaseIsExclusive
<1>1. ASSUME StoreInv, [Next]_vars, NEW e \in Executions,
             status[e] = "running", lease[e] > 0
      PROVE  /\ status'[e] # "queued"
             /\ status'[e] = "running" => worker_id'[e] = worker_id[e]
  <2>1. TypeOK
    BY <1>1 DEF StoreInv
  <2>2. ~Expired(e)
    <3>1. lease[e] # NULL
      BY <1>1 DEF StoreInv, LeaseHeld
    <3>2. lease[e] \in Int
      BY <2>1, <3>1, StoreAssumption DEF TypeOK, LeaseLeft
    <3> QED
      BY <1>1, <3>2 DEF Expired
  <2>3. /\ ReclaimedStatus(ExpiredRows)[e] = "running"
        /\ ReclaimedWorker(ExpiredRows)[e] = worker_id[e]
    BY <1>1, <2>2, ReclaimPass
  <2>4. ASSUME NEW w \in Workers, NEW o \in Offers, ClaimNext(w, o)
        PROVE  status'[e] = "running" /\ worker_id'[e] = worker_id[e]
    <3>1. ~Claimable(e, o, ExpiredRows)
      BY <2>3 DEF Claimable
    <3> QED
      BY <2>3, <2>4, <3>1
      DEF ClaimNext, ClaimNothing, ClaimExecution, ReclaimOnly, ReclaimAndRun,
          ReclaimedStatus, ReclaimedWorker
  <2>5. CASE \E t \in TaskRefs, m \in SUBSET Capabilities : RegisterTask(t, m)
    BY <1>1, <2>5 DEF RegisterTask, executionVars
  <2>6. CASE \E f \in Executions, k \in Keys, r \in Requests : Submit(f, k, r)
    BY <1>1, <2>1, <2>6 DEF Submit, TypeOK
  <2>7. CASE \E f \in Executions, w \in Workers, s \in TERMINAL_STATUSES,
                v \in Scores \cup {NULL} : Finish(f, w, s, v)
    BY <1>1, <2>1, <2>7 DEF Finish, SettledStatus, TERMINAL_STATUSES, TypeOK
  <2>8. CASE \E f \in Executions, w \in Workers : RenewLease(f, w)
    BY <1>1, <2>8 DEF RenewLease
  <2>9. CASE \E f \in Executions : Cancel(f)
    BY <1>1, <2>1, <2>9 DEF Cancel, CanceledStatus, TypeOK
  <2>10. CASE DeliveryNext
    BY <1>1, <2>10
    DEF DeliveryNext, EnqueueCallback, ClaimCallback, MarkCallbackDeliveredByOwner,
        MarkCallbackFailed, ReplayCallback, UpdateDelivery, executionVars
  <2>11. CASE Tick \/ UNCHANGED vars
    BY <1>1, <2>11 DEF Tick, vars, executionVars
  <2> QED
    BY <1>1, <2>4, <2>5, <2>6, <2>7, <2>8, <2>9, <2>10, <2>11 DEF Next, ExecutionNext
<1>2. StoreInv /\ [Next]_vars =>
        [\A e \in Executions :
            status[e] = "running" /\ lease[e] > 0 =>
               /\ status'[e] # "queued"
               /\ status'[e] = "running" => worker_id'[e] = worker_id[e]]_vars
  BY <1>1
<1> QED
  BY <1>2, StoreInvariant, PTL DEF Spec, LiveLeaseIsExclusive

-----------------------------------------------------------------------------
(***************************************************************************)
(* The store implements the abstract lifecycle of every execution: each    *)
(* operation is, for each execution, one abstract step or none.            *)
(***************************************************************************)

\* What an operation may show of one execution: a lifecycle step or nothing.
LifeStep(e) == [Life(e)!Next]_(Life(e)!lifecycleVars)

\* Nothing the lifecycle shows of an execution changed.
LEMMA LifeStutter ==
    ASSUME NEW e, status'[e] = status[e], cancel_requested'[e] = cancel_requested[e],
           worker_id'[e] = worker_id[e], score'[e] = score[e],
           request'[e] = request[e], Notice(e)' = Notice(e)
    PROVE  LifeStep(e)
BY DEF LifeStep, Life!lifecycleVars, HasCallback

\* An outbox row that did not change still says the same.
LEMMA NoticeKept ==
    ASSUME NEW e, callback_deliveries'[e] = callback_deliveries[e]
    PROVE  Notice(e)' = Notice(e)
BY DEF Notice, HasDelivery

\* A row that settles with its callback enqueued owes exactly that callback.
LEMMA NoticeOnSettling ==
    ASSUME TypeOK, NEW e \in Executions, callback_deliveries[e] = NULL,
           callback_deliveries'[e] =
             IF HasCallback(e) THEN Enqueued(e) ELSE callback_deliveries[e]
    PROVE  Notice(e)' = IF HasCallback(e) THEN "owed" ELSE "none"
<1>1. Enqueued(e) # NULL /\ ~Enqueued(e).delivered
  BY EnqueuedRow
<1> QED
  BY <1>1 DEF Notice, HasDelivery

\* Acknowledging, retrying and replaying a callback, and the passing of time,
\* show of an execution at most that its callback was delivered or is owed.
LEMMA NoticeOf ==
    ASSUME NEW e, NEW a, NEW d, NEW b \in BOOLEAN, NEW w, NEW l,
           callback_deliveries'[e] = Row(a, d, b, w, l), Row(a, d, b, w, l) # NULL
    PROVE  Notice(e)' = IF b THEN "delivered" ELSE "owed"
BY DEF Notice, HasDelivery, Row

\* Every operation of the store shows, of every execution, a lifecycle step or
\* nothing.
LEMMA EveryStepIsALifeStep ==
    ASSUME StoreInv, [Next]_vars, NEW f \in Executions
    PROVE  LifeStep(f)
<1> USE StoreAssumption
<1>0. TypeOK /\ RowInv(f)
  BY StoreInvByRow
<1>00. StoreInv'
  BY StoreInvStep
<1>1. ASSUME NEW t \in TaskRefs, NEW m \in SUBSET Capabilities, RegisterTask(t, m)
      PROVE  LifeStep(f)
  BY <1>1, LifeStutter, NoticeKept DEF RegisterTask, executionVars
<1>2. ASSUME NEW e \in Executions, NEW k \in Keys, NEW r \in Requests, Submit(e, k, r)
      PROVE  LifeStep(f)
  <2>1. CASE f = e
    <3>1. HasCallback(f)' \in BOOLEAN
      BY <1>0, <1>2, <2>1 DEF HasCallback, Submit, TypeOK, Request
    <3>2. Notice(f)' = Notice(f)
      BY <1>2, NoticeKept DEF Submit
    <3>3. Life(f)!Submit
      BY <1>0, <1>2, <2>1, <3>1, <3>2 DEF Submit, TypeOK, Life!Submit
    <3> QED
      BY <3>3 DEF LifeStep, Life!Next
  <2>2. CASE f # e
    BY <1>0, <1>2, <2>2, LifeStutter, NoticeKept DEF Submit, TypeOK
  <2> QED
    BY <2>1, <2>2
<1>3. ASSUME NEW w \in Workers, NEW o \in Offers, ClaimNext(w, o)
      PROVE  LifeStep(f)
  <2>1. UNCHANGED <<request, cancel_requested, score>> /\ HasCallback(f)' = HasCallback(f)
    BY <1>3 DEF ClaimNext, ClaimNothing, ClaimExecution, ReclaimRest, HasCallback
  <2>2. callback_deliveries'[f] =
          IF Expired(f) /\ cancel_requested[f] /\ HasCallback(f)
          THEN Enqueued(f) ELSE callback_deliveries[f]
    BY <1>3, ReclaimPass DEF ClaimNext, ClaimNothing, ClaimExecution, ReclaimRest
  <2>3. CASE /\ status'[f] = ReclaimedStatus(ExpiredRows)[f]
             /\ worker_id'[f] = ReclaimedWorker(ExpiredRows)[f]
    <3>1. CASE ~Expired(f)
      BY <2>1, <2>2, <2>3, <3>1, ReclaimPass, LifeStutter, NoticeKept
    <3>2. CASE Expired(f) /\ ~cancel_requested[f]
      <4>1. status'[f] = "queued" /\ worker_id'[f] = NULL /\ Notice(f)' = Notice(f)
        BY <2>2, <2>3, <3>2, ReclaimPass, NoticeKept
      <4>2. Life(f)!Release
        BY <2>1, <3>2, <4>1 DEF Life!Release, Expired
      <4> QED
        BY <4>2 DEF LifeStep, Life!Next
    <3>3. CASE Expired(f) /\ cancel_requested[f]
      <4>1. status'[f] = "canceled" /\ worker_id'[f] = NULL
        BY <2>3, <3>3, ReclaimPass
      <4>2. callback_deliveries[f] = NULL /\ score[f] = NULL
        BY <1>0, <3>3 DEF Expired, RowInv, Terminal, TERMINAL_STATUSES, HasDelivery
      <4>3. Notice(f)' = IF HasCallback(f) THEN "owed" ELSE "none"
        BY <1>0, <2>2, <3>3, <4>2, NoticeOnSettling
      <4>4. cancel_requested'[f] = TRUE
        BY <1>0, <2>1, <3>3 DEF TypeOK
      <4>5. Life(f)!Abort
        BY <2>1, <3>3, <4>1, <4>2, <4>3, <4>4 DEF Life!Abort, Life!Settle, Expired
      <4> QED
        BY <4>5 DEF LifeStep, Life!Next
    <3> QED
      BY <3>1, <3>2, <3>3
  <2>4. CASE /\ Claimable(f, o, ExpiredRows)
             /\ status'[f] = "running" /\ worker_id'[f] = w
    <3>1. status[f] \in {"queued", "running"} /\ ~cancel_requested[f]
      BY <2>4, ReclaimPass DEF Claimable, Expired
    <3>2. Notice(f)' = Notice(f)
      BY <2>2, <3>1, NoticeKept
    <3>3. Life(f)!Start
      BY <2>1, <2>4, <3>1, <3>2 DEF Life!Start
    <3> QED
      BY <3>3 DEF LifeStep, Life!Next
  <2>5. ASSUME NEW e \in Executions, ClaimExecution(w, o, e)
        PROVE  LifeStep(f)
    BY <2>3, <2>4, <2>5
    DEF ClaimExecution, ReclaimAndRun, ReclaimedStatus, ReclaimedWorker
  <2>6. ASSUME ClaimNothing(o)
        PROVE  LifeStep(f)
    BY <2>3, <2>6 DEF ClaimNothing, ReclaimOnly
  <2> QED
    BY <1>3, <2>5, <2>6 DEF ClaimNext
<1>4. ASSUME NEW e \in Executions, NEW w \in Workers, NEW s \in TERMINAL_STATUSES,
             NEW v \in Scores \cup {NULL}, Finish(e, w, s, v)
      PROVE  LifeStep(f)
  <2>1. CASE f = e
    <3>1. /\ status[f] = "running"
          /\ status'[f] = SettledStatus(f, s) /\ score'[f] = SettledScore(f, v)
          /\ worker_id'[f] = NULL /\ cancel_requested'[f] = cancel_requested[f]
          /\ HasCallback(f)' = HasCallback(f)
      BY <1>0, <1>4, <2>1 DEF Finish, OwnsLiveLease, TypeOK, HasCallback
    <3>2. callback_deliveries[f] = NULL
      BY <1>0, <3>1 DEF RowInv, Terminal, TERMINAL_STATUSES, HasDelivery
    <3>3. Notice(f)' = IF HasCallback(f) THEN "owed" ELSE "none"
      <4>1. callback_deliveries'[f] =
              IF HasCallback(f) THEN Enqueued(f) ELSE callback_deliveries[f]
        BY <1>0, <1>4, <2>1 DEF Finish, TypeOK
      <4> QED
        BY <1>0, <3>2, <4>1, NoticeOnSettling
    <3>4. CASE cancel_requested[f]
      <4>1. cancel_requested'[f] = TRUE
        BY <1>0, <3>1, <3>4 DEF TypeOK
      <4>2. Life(f)!Abort
        BY <3>1, <3>3, <3>4, <4>1 DEF SettledStatus, SettledScore, Life!Abort, Life!Settle
      <4> QED
        BY <4>2 DEF LifeStep, Life!Next
    <3>5. CASE ~cancel_requested[f]
      <4>1. Life(f)!Publish
        BY <3>1, <3>3, <3>5
        DEF SettledStatus, SettledScore, Life!Publish, Life!Settle, Life!Settled,
            TERMINAL_STATUSES
      <4> QED
        BY <4>1 DEF LifeStep, Life!Next
    <3> QED
      BY <3>4, <3>5
  <2>2. CASE f # e
    BY <1>0, <1>4, <2>2, LifeStutter, NoticeKept DEF Finish, TypeOK
  <2> QED
    BY <2>1, <2>2
<1>5. ASSUME NEW e \in Executions, NEW w \in Workers, RenewLease(e, w)
      PROVE  LifeStep(f)
  BY <1>5, LifeStutter, NoticeKept DEF RenewLease
<1>6. ASSUME NEW e \in Executions, Cancel(e)
      PROVE  LifeStep(f)
  <2>1. CASE f = e /\ status[e] = "queued"
    <3>1. /\ status'[f] = "canceled" /\ cancel_requested'[f] = TRUE
          /\ UNCHANGED <<request, worker_id, score>> /\ HasCallback(f)' = HasCallback(f)
      BY <1>0, <1>6, <2>1 DEF Cancel, CanceledStatus, TypeOK, HasCallback
    <3>2. /\ callback_deliveries[f] = NULL /\ score[f] = NULL
          /\ worker_id[f] = NULL /\ ~cancel_requested[f]
      BY <1>0, <2>1 DEF RowInv, Terminal, TERMINAL_STATUSES, HasDelivery
    <3>3. Notice(f)' = IF HasCallback(f) THEN "owed" ELSE "none"
      <4>1. callback_deliveries'[f] =
              IF HasCallback(f) THEN Enqueued(f) ELSE callback_deliveries[f]
        BY <1>0, <1>6, <2>1 DEF Cancel, TypeOK
      <4> QED
        BY <1>0, <3>2, <4>1, NoticeOnSettling
    <3>4. Life(f)!Abort
      BY <2>1, <3>1, <3>2, <3>3 DEF Life!Abort, Life!Settle
    <3> QED
      BY <3>4 DEF LifeStep, Life!Next
  <2>2. CASE f = e /\ status[e] # "queued"
    <3>1. /\ status[f] \in TERMINAL_STATUSES \cup {"running"} /\ status'[f] = status[f]
          /\ cancel_requested'[f] = TRUE
          /\ UNCHANGED <<request, worker_id, score, callback_deliveries>>
      BY <1>0, <1>6, <2>2 DEF Cancel, CanceledStatus, TypeOK, Statuses
    <3>2. Notice(f)' = Notice(f) /\ HasCallback(f)' = HasCallback(f)
      BY <3>1, NoticeKept DEF HasCallback
    <3>3. Life(f)!RequestCancel
      BY <3>1, <3>2 DEF Life!RequestCancel, Life!Settled, TERMINAL_STATUSES
    <3> QED
      BY <3>3 DEF LifeStep, Life!Next
  <2>3. CASE f # e
    BY <1>0, <1>6, <2>3, LifeStutter, NoticeKept DEF Cancel, TypeOK
  <2> QED
    BY <2>1, <2>2, <2>3
<1>7. ASSUME NEW e \in Executions, NEW row, UpdateDelivery(e, row)
      PROVE  /\ UNCHANGED <<status, request, cancel_requested, worker_id, score>>
             /\ HasCallback(f)' = HasCallback(f)
             /\ f = e => callback_deliveries'[f] = row
             /\ f # e => LifeStep(f)
  <2>1. UNCHANGED <<status, request, cancel_requested, worker_id, score>>
    BY <1>7 DEF UpdateDelivery, executionVars
  <2>2. f # e => callback_deliveries'[f] = callback_deliveries[f]
    BY <1>0, <1>7 DEF UpdateDelivery, TypeOK
  <2>3. f = e => callback_deliveries'[f] = row
    BY <1>0, <1>7 DEF UpdateDelivery, TypeOK
  <2> QED
    BY <2>1, <2>2, <2>3, LifeStutter, NoticeKept DEF HasCallback
<1>8. ASSUME NEW e \in Executions, EnqueueCallback(e)
      PROVE  LifeStep(f)
  <2>1. UpdateDelivery(e, Enqueued(e)) /\ Terminal(e) /\ HasCallback(e)
    BY <1>8 DEF EnqueueCallback
  <2>2. CASE f = e
    <3>1. Enqueued(f) = callback_deliveries[f]
      BY <1>0, <2>1, <2>2, EnqueuedRow DEF RowInv, HasDelivery
    <3> QED
      BY <1>7, <2>1, <2>2, <3>1, LifeStutter, NoticeKept
  <2> QED
    BY <1>7, <2>1, <2>2
<1>9. ASSUME HasDelivery(f), NEW a, NEW d, NEW b \in BOOLEAN, NEW w, NEW l,
             UpdateDelivery(f, Row(a, d, b, w, l))
      PROVE  Notice(f)' = IF b THEN "delivered" ELSE "owed"
  <2>1. UNCHANGED <<status, request>> /\ callback_deliveries'[f] = Row(a, d, b, w, l)
    BY <1>7, <1>9
  <2>2. HasDelivery(f)'
    BY <1>0, <1>00, <1>9, <2>1 DEF StoreInv, OutboxComplete, RowInv, Terminal, HasCallback
  <2> QED
    BY <2>1, <2>2, NoticeOf DEF HasDelivery
<1>10. ASSUME HasDelivery(f)
       PROVE  /\ callback_deliveries[f].delivered \in BOOLEAN
              /\ Notice(f) = IF callback_deliveries[f].delivered THEN "delivered" ELSE "owed"
  BY <1>0, <1>10 DEF HasDelivery, TypeOK, DeliveryRow, Notice
<1>11. ASSUME NEW e \in Executions, NEW w \in Workers, ClaimCallback(e, w)
       PROVE  LifeStep(f)
  <2> DEFINE row == callback_deliveries[e]
  <2>1. /\ HasDelivery(e)
        /\ UpdateDelivery(e, Row(row.attempts, row.due, row.delivered, w, CallbackLease))
    BY <1>11 DEF ClaimCallback, DeliveryIsFree
  <2>2. CASE f = e
    <3>1. Notice(f)' = Notice(f)
      BY <1>9, <1>10, <2>1, <2>2
    <3> QED
      BY <1>7, <2>1, <3>1, LifeStutter
  <2> QED
    BY <1>7, <2>1, <2>2
<1>12. ASSUME NEW e \in Executions, NEW w \in Workers, MarkCallbackDeliveredByOwner(e, w)
       PROVE  LifeStep(f)
  <2> DEFINE row == callback_deliveries[e]
  <2>1. /\ HasDelivery(e) /\ ~row.delivered
        /\ UpdateDelivery(e, Row(row.attempts, row.due, TRUE, NULL, 0))
    BY <1>12 DEF MarkCallbackDeliveredByOwner, MayAcknowledge, DeliveryOwner
  <2>2. CASE f = e
    <3>1. Notice(f) = "owed" /\ Notice(f)' = "delivered"
      BY <1>9, <1>10, <2>1, <2>2
    <3>2. Life(f)!Deliver
      BY <1>7, <2>1, <3>1 DEF Life!Deliver
    <3> QED
      BY <3>2 DEF LifeStep, Life!Next
  <2> QED
    BY <1>7, <2>1, <2>2
<1>13. ASSUME NEW e \in Executions, NEW w \in Workers, MarkCallbackFailed(e, w)
       PROVE  LifeStep(f)
  <2> DEFINE row == callback_deliveries[e]
  <2>1. /\ HasDelivery(e)
        /\ UpdateDelivery(e, Row(Smaller(AttemptsCap, row.attempts + 1),
                                 Backoff(row.attempts), row.delivered, NULL, 0))
    BY <1>13 DEF MarkCallbackFailed, DeliveryOwner
  <2>2. CASE f = e
    <3>1. Notice(f)' = Notice(f)
      BY <1>9, <1>10, <2>1, <2>2
    <3> QED
      BY <1>7, <2>1, <3>1, LifeStutter
  <2> QED
    BY <1>7, <2>1, <2>2
<1>14. ASSUME NEW e \in Executions, ReplayCallback(e)
       PROVE  LifeStep(f)
  <2>1. /\ Terminal(e) /\ HasCallback(e)
        /\ UpdateDelivery(e, Row(Enqueued(e).attempts, 0, FALSE, NULL, 0))
    BY <1>14 DEF ReplayCallback
  <2>2. CASE f = e
    <3>1. HasDelivery(f)
      BY <1>0, <2>1, <2>2 DEF RowInv
    <3>2. Notice(f)' = "owed" /\ Notice(f) \in {"delivered", "owed"}
      BY <1>9, <1>10, <2>1, <2>2, <3>1
    <3>3. CASE Notice(f) = "delivered"
      <4>1. Life(f)!Replay
        BY <1>7, <2>1, <3>2, <3>3 DEF Life!Replay
      <4> QED
        BY <4>1 DEF LifeStep, Life!Next
    <3>4. CASE Notice(f) = "owed"
      BY <1>7, <2>1, <3>2, <3>4, LifeStutter
    <3> QED
      BY <3>2, <3>3, <3>4
  <2> QED
    BY <1>7, <2>1, <2>2
<1>15. CASE Tick
  <2>1. UNCHANGED <<status, request, cancel_requested, worker_id, score>>
    BY <1>15 DEF Tick
  <2>2. CASE HasDelivery(f)
    <3> DEFINE row == callback_deliveries[f]
    <3>1. callback_deliveries'[f] = Row(row.attempts, Later(row.due, 0), row.delivered,
                                        row.lease_owner, Later(row.lease, 0))
      BY <1>15, <2>2 DEF Tick
    <3>2. HasDelivery(f)'
      BY <1>0, <1>00, <2>1, <2>2 DEF StoreInv, OutboxComplete, RowInv, Terminal, HasCallback
    <3>3. Notice(f)' = Notice(f)
      BY <1>10, <2>2, <3>1, <3>2, NoticeOf DEF HasDelivery
    <3> QED
      BY <2>1, <3>3, LifeStutter
  <2>3. CASE ~HasDelivery(f)
    BY <1>15, <2>1, <2>3, LifeStutter, NoticeKept DEF Tick, HasDelivery
  <2> QED
    BY <2>2, <2>3
<1>16. CASE UNCHANGED vars
  BY <1>16, LifeStutter, NoticeKept DEF vars, executionVars
<1> QED
  BY <1>1, <1>2, <1>3, <1>4, <1>5, <1>6, <1>8, <1>11, <1>12, <1>13, <1>14, <1>15, <1>16
  DEF Next, ExecutionNext, DeliveryNext

\* The store refines the lifecycle of every execution.
THEOREM StoreRefinesLifecycle == Spec => FollowsLifecycle
<1>1. Init => \A e \in Executions : Life(e)!Init
  BY DEF Init, Life!Init, HasCallback, Notice, HasDelivery
<1>2. StoreInv /\ [Next]_vars =>
        [\A e \in Executions : [Life(e)!Next]_(Life(e)!lifecycleVars)]_vars
  BY EveryStepIsALifeStep DEF LifeStep
<1> QED
  BY <1>1, <1>2, StoreInvariant, PTL DEF Spec, FollowsLifecycle
=============================================================================
