--------------------------- MODULE DeliveryProofs ---------------------------
(***************************************************************************)
(* Callback delivery for any number of dispatchers, remote workers,        *)
(* executions and replays: what arrives is the final result, and what is   *)
(* marked delivered has arrived.                                           *)
(***************************************************************************)
EXTENDS CallbackDelivery, JudgeStoreProofs

\* What any sender holds, in hand or in memory, is the result of a settled
\* execution, and it stays so because settled rows never change.
GoodLetter(l) ==
    /\ l \in Letters
    /\ Terminal(l.job)
    /\ l.payload = Payload(l.job)

LettersGood(w) ==
    /\ at[w] \in {"claim", "send", "ack", "fail"} => GoodLetter(letter[w])
    /\ \A l \in memory[w] : GoodLetter(l)

\* Nothing is received before it is final.
ReceivedSettled(e) == received[e] \subseteq {Payload(e)} /\ (received[e] # {} => Terminal(e))

\* A sender about to acknowledge holds the row only if its POST was accepted
\* since the last replay: a replay takes the row away from it, and it cannot
\* claim it again before it has acknowledged.
AckIsEarned(w) ==
    at[w] = "ack" /\ DeliveryOwner(letter[w].job, w) => answered[letter[w].job]

DeliveryInv ==
    /\ StoreInv
    /\ DeliveryTypeOK
    /\ DeliveredWasReceived
    /\ \A e \in Executions : ReceivedSettled(e)
    /\ \A w \in Workers : LettersGood(w) /\ AckIsEarned(w)

-----------------------------------------------------------------------------
\* Every sender is a worker of the store.
LEMMA SendersAreWorkers ==
    \A w : w \in Dispatchers \/ w \in Remotes => w \in Workers
  BY DeliveryAssumption

\* A sender that has a letter has one about an execution that exists.
LEMMA LetterJob ==
    ASSUME DeliveryInv, NEW w \in Workers, at[w] \in {"claim", "send", "ack", "fail"}
    PROVE  letter[w] \in Letters /\ letter[w].job \in Executions /\ letter[w].payload \in Payloads
  BY DEF DeliveryInv, LettersGood, GoodLetter, Letters

\* What a sender, an administrator or a worker does to the tables is one
\* operation of the store.
LEMMA SendersUseTheStore ==
    ASSUME DeliveryInv, [DeliveryNextAll]_deliveryVars PROVE [Next]_vars
  <1> USE SendersAreWorkers DEF Next, ExecutionNext, DeliveryNext
  <1>1. CASE Around
    BY <1>1 DEF Around
  <1>2. ASSUME NEW e \in Executions, Replay(e) PROVE [Next]_vars
    BY <1>2 DEF Replay
  <1>3. ASSUME NEW d \in Dispatchers, NEW e \in Executions, ClaimRow(d, e) PROVE [Next]_vars
    BY <1>3 DEF ClaimRow
  <1>4. ASSUME NEW r \in Remotes, RemoteReports(r) PROVE [Next]_vars
    BY <1>4 DEF RemoteReports, RemoteFinish
  <1>5. ASSUME NEW r \in Remotes, RemoteClaim(r) PROVE [Next]_vars
    <2>1. letter[r].job \in Executions
      BY <1>5, LetterJob DEF RemoteClaim
    <2> QED BY <1>5, <2>1 DEF RemoteClaim
  <1>6. ASSUME NEW w \in Workers, Acknowledge(w) \/ Postpone(w) PROVE [Next]_vars
    <2>1. letter[w].job \in Executions
      BY <1>6, LetterJob DEF Acknowledge, Postpone, Move
    <2> QED BY <1>6, <2>1 DEF Acknowledge, Postpone
  <1> HIDE DEF Next, ExecutionNext, DeliveryNext
  <1>7. CASE UNCHANGED vars
    BY <1>7
  <1>8. ASSUME NEW d \in Dispatchers, DispatcherStep(d) \/ SenderCrash(d) PROVE [Next]_vars
    BY <1>3, <1>6, <1>7, <1>8
    DEF DispatcherStep, ListPending, PageDone, NotifyAccepted, NotifyFails, AcknowledgeMissed, SenderCrash
  <1>9. ASSUME NEW r \in Remotes, RemoteReports(r) \/ RemoteSends(r) \/ RemoteRetry(r) \/ SenderCrash(r)
        PROVE  [Next]_vars
    BY <1>4, <1>5, <1>6, <1>7, <1>9
    DEF RemoteSends, NotifyAccepted, NotifyFails, AcknowledgeMissed, RemoteRetry, SenderCrash
  <1> QED BY <1>1, <1>2, <1>7, <1>8, <1>9 DEF DeliveryNextAll, deliveryVars

-----------------------------------------------------------------------------
\* The final result of an execution is never rewritten, so a letter that was
\* right when it was written is right whenever it is sent.
LEMMA GoodLetterStays ==
    ASSUME StoreInv, [Next]_vars, NEW l, GoodLetter(l) PROVE GoodLetter(l)'
  <1>1. l.job \in Executions /\ Terminal(l.job)
    BY DEF GoodLetter, Letters
  <1>2. status'[l.job] = status[l.job] /\ score'[l.job] = score[l.job]
    BY <1>1, SettledStays
  <1> QED BY <1>1, <1>2 DEF GoodLetter, Payload, Terminal

\* The letter of a row, written when the row is claimed.
LEMMA RowLetter ==
    ASSUME StoreInv, NEW e \in Executions, HasDelivery(e)
    PROVE  GoodLetter([job |-> e, payload |-> Payload(e)])
  <1>1. Terminal(e) /\ Payload(e) \in Payloads
    BY DEF StoreInv, OutboxOnlyForSettled, TypeOK, Payload, Payloads
  <1> QED BY <1>1 DEF GoodLetter, Letters

\* The memory of the senders stays well typed.
LEMMA DeliveryTypeStep ==
    ASSUME DeliveryInv, [DeliveryNextAll]_deliveryVars PROVE DeliveryTypeOK'
  <1>0. TypeOK'
    BY SendersUseTheStore, TypeStep DEF DeliveryInv, StoreInv
  <1>00. StoreInv /\ TypeOK
    BY DEF DeliveryInv, StoreInv
  <1> USE <1>0, SendersAreWorkers DEF DeliveryInv, DeliveryTypeOK, ReceiverQuiet
  <1>1. CASE UNCHANGED senderVars
    BY <1>1 DEF senderVars
  <1>2. ASSUME NEW e \in Executions, Replay(e) PROVE DeliveryTypeOK'
    BY <1>2, DeliveryAssumption DEF Replay
  <1>3. ASSUME NEW w \in Workers, ListPending(w) \/ PageDone(w) PROVE DeliveryTypeOK'
    BY <1>3 DEF ListPending, PageDone, Move
  <1>4. ASSUME NEW d \in Dispatchers, NEW e \in Executions, ClaimRow(d, e) PROVE DeliveryTypeOK'
    <2>1. [job |-> e, payload |-> Payload(e)] \in Letters
      BY <1>00 DEF Letters, Payloads, Payload, TypeOK
    <2>2. page' \in [Workers -> SUBSET Executions]
      BY <1>4 DEF ClaimRow
    <2> QED BY <1>4, <2>1, <2>2 DEF ClaimRow, Move
  <1>5. ASSUME NEW r \in Remotes, RemoteReports(r) PROVE DeliveryTypeOK'
    <2>1. PICK e \in Executions, s \in TERMINAL_STATUSES, v \in Scores \cup {NULL} : RemoteFinish(r, e, s, v)
      BY <1>5 DEF RemoteReports
    <2>2. [job |-> e, payload |-> [status |-> SettledStatus(e, s), score |-> SettledScore(e, v)]] \in Letters
      BY DEF Letters, Payloads, SettledStatus, SettledScore, Statuses, TERMINAL_STATUSES
    <2> QED BY <2>1, <2>2 DEF RemoteFinish, Move
  <1>6. ASSUME NEW r \in Remotes, RemoteClaim(r) PROVE DeliveryTypeOK'
    BY <1>6 DEF RemoteClaim, Move
  <1>7. ASSUME NEW r \in Remotes, RemoteRetry(r) PROVE DeliveryTypeOK'
    <2>1. PICK l \in memory[r] : /\ letter' = [letter EXCEPT ![r] = l]
                                 /\ memory' = [memory EXCEPT ![r] = @ \ {l}]
      BY <1>7 DEF RemoteRetry
    <2>2. letter' \in [Workers -> Letters \cup {NULL}] /\ memory' \in [Workers -> SUBSET Letters]
      BY <2>1
    <2> QED BY <1>7, <2>2 DEF RemoteRetry, Move
  <1>8. ASSUME NEW l \in Letters, Accept(l)
        PROVE  /\ received' \in [Executions -> SUBSET Payloads]
               /\ answered' \in [Executions -> BOOLEAN] /\ replays' \in 0 .. MaxReplays
    <2>1. l.job \in Executions /\ l.payload \in Payloads
      BY DEF Letters
    <2> QED BY <1>8, <2>1 DEF Accept
  <1>9. ASSUME NEW w \in Workers, NotifyAccepted(w) PROVE DeliveryTypeOK'
    <2>1. letter[w] \in Letters
      BY <1>9, LetterJob DEF NotifyAccepted, Move
    <2> QED BY <1>8, <1>9, <2>1 DEF NotifyAccepted, Move
  <1>10. ASSUME NEW w \in Workers, NotifyFails(w) PROVE DeliveryTypeOK'
    <2>1. letter[w] \in Letters
      BY <1>10, LetterJob DEF NotifyFails, Move
    <2>2. /\ received' \in [Executions -> SUBSET Payloads]
          /\ answered' \in [Executions -> BOOLEAN] /\ replays' \in 0 .. MaxReplays
      BY <1>8, <1>10, <2>1 DEF NotifyFails
    <2>3. memory' \in [Workers -> SUBSET Letters]
      BY <1>10, <2>1 DEF NotifyFails
    <2> QED BY <1>10, <2>2, <2>3 DEF NotifyFails, Move
  <1>11. ASSUME NEW w \in Workers, Acknowledge(w) \/ AcknowledgeMissed(w) \/ Postpone(w) PROVE DeliveryTypeOK'
    BY <1>11 DEF Acknowledge, AcknowledgeMissed, Postpone, Move, NextRow
  <1>12. ASSUME NEW w \in Workers, SenderCrash(w) PROVE DeliveryTypeOK'
    BY <1>12 DEF SenderCrash
  <1> HIDE DEF DeliveryInv, DeliveryTypeOK
  <1>13. ASSUME NEW d \in Dispatchers, DispatcherStep(d) PROVE DeliveryTypeOK'
    BY <1>3, <1>4, <1>9, <1>10, <1>11, <1>13 DEF DispatcherStep
  <1>14. ASSUME NEW r \in Remotes, RemoteReports(r) \/ RemoteSends(r) \/ RemoteRetry(r) PROVE DeliveryTypeOK'
    BY <1>5, <1>6, <1>7, <1>9, <1>10, <1>11, <1>14 DEF RemoteSends
  <1> QED BY <1>1, <1>2, <1>12, <1>13, <1>14 DEF DeliveryNextAll, Around, deliveryVars

-----------------------------------------------------------------------------
\* Letters are written from settled rows and stay right, also those a remote
\* worker keeps in memory and sends again without a claim.
LEMMA LettersGoodStep ==
    ASSUME DeliveryInv, [DeliveryNextAll]_deliveryVars, NEW v \in Workers PROVE LettersGood(v)'
  <1>0. StoreInv /\ TypeOK /\ DeliveryTypeOK /\ LettersGood(v) /\ [Next]_vars
    BY SendersUseTheStore DEF DeliveryInv, StoreInv
  <1>1. \A l : GoodLetter(l) => GoodLetter(l)'
    BY <1>0, GoodLetterStays
  <1>2. ASSUME at'[v] \in {"claim", "send", "ack", "fail"} =>
                 \E l : letter'[v] = l /\ GoodLetter(l),
               \A l \in memory'[v] : GoodLetter(l)
        PROVE  LettersGood(v)'
    BY <1>0, <1>1, <1>2 DEF LettersGood
  <1> USE DEF DeliveryTypeOK
  <1>3. ASSUME UNCHANGED <<letter, memory>>,
               at'[v] \in {"claim", "send", "ack", "fail"} => at[v] \in {"claim", "send", "ack", "fail"}
        PROVE  LettersGood(v)'
    BY <1>0, <1>2, <1>3 DEF LettersGood
  <1>4. ASSUME NEW w \in Workers, NEW from, NEW to, Move(w, from, to), UNCHANGED <<letter, memory>>,
               from \in {"claim", "send", "ack", "fail"} \/ to \notin {"claim", "send", "ack", "fail"}
        PROVE  LettersGood(v)'
    BY <1>0, <1>3, <1>4 DEF Move
  <1>5. ASSUME NEW w \in Workers, w # v, NEW to, at' = [at EXCEPT ![w] = to],
               letter'[v] = letter[v], memory'[v] = memory[v]
        PROVE  LettersGood(v)'
    BY <1>0, <1>2, <1>5 DEF LettersGood
  <1>6. ASSUME NEW d \in Dispatchers, d \in Workers, NEW e \in Executions, ClaimRow(d, e) PROVE LettersGood(v)'
    <2>1. CASE d # v
      <3>1. letter'[v] = letter[v] /\ UNCHANGED memory /\ \E to : at' = [at EXCEPT ![d] = to]
        BY <1>0, <1>6, <2>1 DEF ClaimRow, Move
      <3> QED BY <1>5, <1>6, <2>1, <3>1
    <2>2. CASE d = v /\ ~DeliveryIsFree(e) /\ Move(d, "paging", "paging") /\ UNCHANGED letter
      BY <1>4, <1>6, <2>2 DEF ClaimRow
    <2>3. CASE d = v /\ ClaimCallback(e, d) /\ letter' = [letter EXCEPT ![d] = [job |-> e, payload |-> Payload(e)]]
      <3>1. letter'[v] = [job |-> e, payload |-> Payload(e)]
        BY <1>0, <2>3
      <3>2. \E l : letter'[v] = l /\ GoodLetter(l)
        BY <1>0, <2>3, <3>1, RowLetter DEF ClaimCallback, DeliveryIsFree
      <3> QED BY <1>0, <1>2, <1>6, <3>2 DEF ClaimRow, LettersGood
    <2> QED BY <1>6, <2>1, <2>2, <2>3 DEF ClaimRow
  <1>7. ASSUME NEW r \in Remotes, r \in Workers, RemoteReports(r) PROVE LettersGood(v)'
    <2>1. PICK e \in Executions, s \in TERMINAL_STATUSES, x \in Scores \cup {NULL} : RemoteFinish(r, e, s, x)
      BY <1>7 DEF RemoteReports
    <2>2. CASE r # v
      <3>1. letter'[v] = letter[v] /\ UNCHANGED memory /\ \E to : at' = [at EXCEPT ![r] = to]
        BY <1>0, <2>1, <2>2 DEF RemoteFinish, Move
      <3> QED BY <1>5, <1>7, <2>2, <3>1
    <2>3. CASE r = v
      <3> DEFINE l == [job |-> e, payload |-> [status |-> SettledStatus(e, s), score |-> SettledScore(e, x)]]
      <3>1. letter'[v] = l
        BY <1>0, <2>1, <2>3 DEF RemoteFinish
      <3>2. status'[e] = SettledStatus(e, s) /\ score'[e] = SettledScore(e, x)
        BY <1>0, <2>1 DEF RemoteFinish, Finish, TypeOK
      <3>3. l \in Letters /\ SettledStatus(e, s) \in TERMINAL_STATUSES
        BY DEF Letters, Payloads, SettledStatus, SettledScore, Statuses, TERMINAL_STATUSES
      <3>4. (letter[v] \in Letters /\ Terminal(letter[v].job) /\ letter[v].payload = Payload(letter[v].job))'
        BY <3>1, <3>2, <3>3 DEF Terminal, Payload
      <3>5. GoodLetter(letter[v])'
        BY <3>4 DEF GoodLetter
      <3>6. \A k \in memory'[v] : GoodLetter(k)'
        BY <1>0, <1>1, <2>1 DEF RemoteFinish, LettersGood
      <3> QED BY <3>5, <3>6 DEF LettersGood
    <2> QED BY <2>2, <2>3
  <1>8. ASSUME NEW r \in Remotes, RemoteClaim(r), r \in Workers PROVE LettersGood(v)'
    BY <1>4, <1>8 DEF RemoteClaim
  <1>9. ASSUME NEW r \in Remotes, RemoteRetry(r), r \in Workers PROVE LettersGood(v)'
    <2>1. PICK l \in memory[r] : /\ letter' = [letter EXCEPT ![r] = l]
                                 /\ memory' = [memory EXCEPT ![r] = @ \ {l}]
      BY <1>9 DEF RemoteRetry
    <2>2. CASE r # v
      BY <1>0, <1>5, <1>9, <2>1, <2>2 DEF RemoteRetry, Move
    <2>3. CASE r = v
      <3>1. letter'[v] = l /\ GoodLetter(l)
        BY <1>0, <2>1, <2>3 DEF LettersGood
      <3>2. \A k \in memory'[v] : GoodLetter(k)
        BY <1>0, <2>1, <2>3 DEF LettersGood
      <3> QED BY <1>2, <3>1, <3>2
    <2> QED BY <2>2, <2>3
  <1>10. ASSUME NEW w \in Workers, NotifyFails(w) PROVE LettersGood(v)'
    <2>1. CASE w # v
      <3>1. memory'[v] = memory[v]
        BY <1>0, <1>10, <2>1 DEF NotifyFails
      <3> QED BY <1>5, <1>10, <2>1, <3>1 DEF NotifyFails, Move
    <2>2. CASE w = v
      <3>1. GoodLetter(letter[v])
        BY <1>0, <1>10, <2>2 DEF NotifyFails, Move, LettersGood
      <3>2. memory'[v] \subseteq memory[v] \cup {letter[v]}
        BY <1>0, <1>10, <2>2 DEF NotifyFails
      <3> QED BY <1>0, <1>2, <1>10, <3>1, <3>2 DEF LettersGood, NotifyFails
    <2> QED BY <2>1, <2>2
  <1>11. ASSUME NEW w \in Workers, SenderCrash(w) PROVE LettersGood(v)'
    <2>1. CASE w # v
      BY <1>0, <1>5, <1>11, <2>1 DEF SenderCrash
    <2>2. CASE w = v
      BY <1>0, <1>2, <1>11, <2>2 DEF SenderCrash
    <2> QED BY <2>1, <2>2
  <1> HIDE DEF DeliveryTypeOK
  <1>12. ASSUME NEW w \in Workers, ListPending(w) \/ PageDone(w) PROVE LettersGood(v)'
    BY <1>4, <1>12 DEF ListPending, PageDone
  <1>13. ASSUME NEW w \in Workers,
                NotifyAccepted(w) \/ Acknowledge(w) \/ AcknowledgeMissed(w) \/ Postpone(w)
         PROVE  LettersGood(v)'
    BY <1>4, <1>13 DEF NotifyAccepted, Acknowledge, AcknowledgeMissed, Postpone
  <1>14. ASSUME UNCHANGED <<at, letter, memory>> PROVE LettersGood(v)'
    BY <1>3, <1>14
  <1>15. ASSUME NEW d \in Dispatchers, DispatcherStep(d) \/ SenderCrash(d) PROVE LettersGood(v)'
    BY <1>6, <1>10, <1>11, <1>12, <1>13, <1>15, SendersAreWorkers DEF DispatcherStep
  <1>16. ASSUME NEW r \in Remotes, RemoteReports(r) \/ RemoteSends(r) \/ RemoteRetry(r) \/ SenderCrash(r)
         PROVE  LettersGood(v)'
    BY <1>7, <1>8, <1>9, <1>10, <1>11, <1>13, <1>16, SendersAreWorkers DEF RemoteSends
  <1> QED BY <1>14, <1>15, <1>16 DEF DeliveryNextAll, Around, Replay, deliveryVars, senderVars

\* The receiver gets nothing but letters, and what it got stays final.
LEMMA ReceivedSettledStep ==
    ASSUME DeliveryInv, [DeliveryNextAll]_deliveryVars, NEW e \in Executions PROVE ReceivedSettled(e)'
  <1>0. StoreInv /\ DeliveryTypeOK /\ ReceivedSettled(e) /\ [Next]_vars
    BY SendersUseTheStore DEF DeliveryInv
  <1>1. Terminal(e) => Terminal(e)' /\ Payload(e)' = Payload(e)
    BY <1>0, SettledStays DEF Terminal, Payload
  <1>2. ASSUME UNCHANGED received PROVE ReceivedSettled(e)'
    BY <1>0, <1>1, <1>2 DEF ReceivedSettled
  <1>3. ASSUME NEW w \in Workers, at[w] = "send", Accept(letter[w]) PROVE ReceivedSettled(e)'
    <2>1. GoodLetter(letter[w])
      BY <1>3 DEF DeliveryInv, LettersGood
    <2>2. received'[e] = IF letter[w].job = e THEN received[e] \cup {letter[w].payload} ELSE received[e]
      BY <1>0, <1>3 DEF Accept, DeliveryTypeOK
    <2> QED BY <1>0, <1>1, <2>1, <2>2 DEF ReceivedSettled, GoodLetter
  <1>4. ASSUME NEW w \in Workers, NotifyAccepted(w) \/ NotifyFails(w) PROVE ReceivedSettled(e)'
    BY <1>2, <1>3, <1>4 DEF NotifyAccepted, NotifyFails, Move, ReceiverQuiet
  <1>5. ASSUME NEW d \in Dispatchers, DispatcherStep(d) \/ SenderCrash(d) PROVE ReceivedSettled(e)'
    BY <1>2, <1>4, <1>5, SendersAreWorkers
    DEF DispatcherStep, ListPending, PageDone, ClaimRow, Acknowledge, AcknowledgeMissed, Postpone, SenderCrash,
        ReceiverQuiet
  <1>6. ASSUME NEW r \in Remotes, RemoteReports(r) \/ RemoteSends(r) \/ RemoteRetry(r) \/ SenderCrash(r)
        PROVE  ReceivedSettled(e)'
    BY <1>2, <1>4, <1>6, SendersAreWorkers
    DEF RemoteReports, RemoteFinish, RemoteSends, RemoteClaim, Acknowledge, AcknowledgeMissed, RemoteRetry,
        SenderCrash, ReceiverQuiet
  <1> QED BY <1>2, <1>5, <1>6 DEF DeliveryNextAll, Around, Replay, deliveryVars, senderVars

-----------------------------------------------------------------------------
\* Most steps leave the delivery lease and the delivered mark of a row alone,
\* drop the lease, or write a row that is neither leased nor delivered.
NothingGained(e) ==
    HasDelivery(e)' =>
        \/ /\ HasDelivery(e)
           /\ callback_deliveries'[e].delivered = callback_deliveries[e].delivered
           /\ callback_deliveries'[e].lease_owner \in {callback_deliveries[e].lease_owner, NULL}
        \/ callback_deliveries'[e].delivered = FALSE /\ callback_deliveries'[e].lease_owner = NULL

\* Only claim_callback and the acknowledgement gain anything.
LEMMA OnlyClaimsGain ==
    ASSUME StoreInv, NEW e \in Executions,
           \/ ExecutionNext \/ Tick \/ UNCHANGED vars
           \/ \E f \in Executions, w \in Workers : MarkCallbackFailed(f, w)
           \/ \E f \in Executions : ReplayCallback(f)
    PROVE  NothingGained(e)
  <1>0. TypeOK
    BY DEF StoreInv
  <1>1. ASSUME callback_deliveries'[e] = callback_deliveries[e] PROVE NothingGained(e)
    BY <1>1 DEF NothingGained, HasDelivery
  <1>2. ASSUME callback_deliveries'[e] = Enqueued(e) PROVE NothingGained(e)
    BY <1>0, <1>2, EnqueuedRow DEF NothingGained, HasDelivery
  <1>3. ASSUME NEW a, NEW d, NEW b, NEW w, NEW l
        PROVE  Row(a, d, b, w, l).delivered = b /\ Row(a, d, b, w, l).lease_owner = w
    BY DEF Row
  <1>4. ASSUME NEW w \in Workers, NEW o \in Offers, ClaimNext(w, o) PROVE NothingGained(e)
    <2>1. callback_deliveries' = ReclaimedDeliveries(CanceledRows)
      BY <1>4 DEF ClaimNext, ClaimNothing, ClaimExecution, ReclaimRest
    <2>2. callback_deliveries'[e] \in {Enqueued(e), callback_deliveries[e]}
      BY <2>1 DEF ReclaimedDeliveries
    <2> QED BY <1>1, <1>2, <2>2
  <1>5. ASSUME NEW f \in Executions, NEW w, NEW s, NEW v, Finish(f, w, s, v) PROVE NothingGained(e)
    <2>1. callback_deliveries'[e] \in {Enqueued(e), callback_deliveries[e]}
      BY <1>0, <1>5 DEF Finish, TypeOK
    <2> QED BY <1>1, <1>2, <2>1
  <1>6. ASSUME NEW f \in Executions, Cancel(f) PROVE NothingGained(e)
    <2>1. callback_deliveries'[e] \in {Enqueued(e), callback_deliveries[e]}
      BY <1>0, <1>6 DEF Cancel, TypeOK
    <2> QED BY <1>1, <1>2, <2>1
  <1>7. CASE ExecutionNext
    BY <1>1, <1>4, <1>5, <1>6, <1>7 DEF ExecutionNext, RegisterTask, Submit, RenewLease
  <1>8. CASE Tick
    BY <1>1, <1>3, <1>8 DEF Tick, NothingGained, HasDelivery
  <1>9. ASSUME NEW f \in Executions, NEW w \in Workers, MarkCallbackFailed(f, w) PROVE NothingGained(e)
    <2>1. CASE e # f
      BY <1>0, <1>1, <1>9, <2>1 DEF MarkCallbackFailed, UpdateDelivery, TypeOK
    <2>2. CASE e = f
      BY <1>0, <1>3, <1>9, <2>2
      DEF MarkCallbackFailed, UpdateDelivery, DeliveryOwner, HasDelivery, NothingGained, TypeOK
    <2> QED BY <2>1, <2>2
  <1>10. ASSUME NEW f \in Executions, ReplayCallback(f) PROVE NothingGained(e)
    <2>1. CASE e # f
      BY <1>0, <1>1, <1>10, <2>1 DEF ReplayCallback, UpdateDelivery, TypeOK
    <2>2. CASE e = f
      <3>1. callback_deliveries'[e] = Row(Enqueued(e).attempts, 0, FALSE, NULL, 0)
        BY <1>0, <1>10, <2>2 DEF ReplayCallback, UpdateDelivery, TypeOK
      <3>2. callback_deliveries'[e].delivered = FALSE /\ callback_deliveries'[e].lease_owner = NULL
        BY <3>1 DEF Row
      <3> QED BY <3>2 DEF NothingGained
    <2> QED BY <2>1, <2>2
  <1> QED BY <1>1, <1>7, <1>8, <1>9, <1>10 DEF vars

\* claim_callback gives the row to its caller, undelivered.
LEMMA ClaimGains ==
    ASSUME StoreInv, NEW e \in Executions, NEW f \in Executions, NEW w \in Workers, ClaimCallback(f, w)
    PROVE  /\ e # f => callback_deliveries'[e] = callback_deliveries[e]
           /\ e = f => callback_deliveries'[e].delivered = FALSE /\ callback_deliveries'[e].lease_owner = w
  <1>1. TypeOK /\ HasDelivery(f) /\ ~callback_deliveries[f].delivered
    BY DEF StoreInv, ClaimCallback, DeliveryIsFree
  <1>2. callback_deliveries[f] \in DeliveryRow
    BY <1>1 DEF TypeOK, HasDelivery
  <1>3. callback_deliveries[f].delivered = FALSE
    BY <1>1, <1>2 DEF DeliveryRow
  <1> QED BY <1>1, <1>3 DEF ClaimCallback, UpdateDelivery, Row, TypeOK

\* A POST is acknowledged only by the sender that owns the row and only since
\* the last replay, so a row marked delivered was received.
LEMMA AckStep ==
    ASSUME DeliveryInv, [DeliveryNextAll]_deliveryVars
    PROVE  DeliveredWasReceived' /\ \A v \in Workers : AckIsEarned(v)'
  <1>0. StoreInv /\ TypeOK /\ DeliveryTypeOK /\ DeliveredWasReceived
    BY DEF DeliveryInv, StoreInv
  <1>1. ASSUME NEW v \in Workers, at[v] = "ack"
        PROVE  letter[v].job \in Executions /\ AckIsEarned(v) /\ v # NULL
    BY <1>1, LetterJob, StoreAssumption DEF DeliveryInv
  <1> USE DEF DeliveryTypeOK
  <1> DEFINE Goal == DeliveredWasReceived' /\ \A v \in Workers : AckIsEarned(v)'
  <1>2. ASSUME \A e \in Executions : NothingGained(e),
               \A e \in Executions : answered[e] => answered'[e],
               \A v \in Workers : at'[v] = "ack" =>
                 /\ letter'[v] = letter[v]
                 /\ at[v] = "ack" \/ (letter[v].job \in Executions /\ answered'[letter[v].job])
        PROVE  Goal
    <2>1. DeliveredWasReceived'
      BY <1>0, <1>2 DEF DeliveredWasReceived, NothingGained
    <2>2. ASSUME NEW v \in Workers PROVE AckIsEarned(v)'
      BY <1>1, <1>2, <2>2 DEF AckIsEarned, NothingGained, DeliveryOwner
    <2> QED BY <2>1, <2>2
  <1>3. ASSUME NEW w \in Workers, NEW f \in Executions, ClaimCallback(f, w), at'[w] = "send",
               \A v \in Workers : at'[v] = "ack" => at[v] = "ack" /\ letter'[v] = letter[v],
               UNCHANGED answered
        PROVE  Goal
    <2>1. DeliveredWasReceived'
      BY <1>0, <1>3, ClaimGains DEF DeliveredWasReceived, HasDelivery
    <2>2. ASSUME NEW v \in Workers PROVE AckIsEarned(v)'
      <3> SUFFICES ASSUME at'[v] = "ack", DeliveryOwner(letter[v].job, v)'
                   PROVE  answered'[letter'[v].job]
        BY DEF AckIsEarned
      <3>1. at[v] = "ack" /\ letter'[v] = letter[v] /\ letter[v].job \in Executions /\ w # v
        BY <1>1, <1>3
      <3>2. letter[v].job # f
        <4>1. callback_deliveries'[letter[v].job].lease_owner = v
          BY <3>1 DEF DeliveryOwner
        <4>2. callback_deliveries'[f].lease_owner = w
          BY <1>0, <1>3, ClaimGains
        <4> QED BY <3>1, <4>1, <4>2
      <3>3. callback_deliveries'[letter[v].job] = callback_deliveries[letter[v].job]
        BY <1>0, <1>3, <3>1, <3>2, ClaimGains
      <3> QED BY <1>1, <1>3, <3>1, <3>3 DEF AckIsEarned, DeliveryOwner, HasDelivery
    <2> QED BY <2>1, <2>2
  <1>4. ASSUME NEW w \in Workers, Acknowledge(w) PROVE Goal
    <2>1. /\ at[w] = "ack" /\ MarkCallbackDeliveredByOwner(letter[w].job, w) /\ letter[w].job \in Executions
          /\ DeliveryOwner(letter[w].job, w)
      BY <1>1, <1>4 DEF Acknowledge, Move, MarkCallbackDeliveredByOwner, MayAcknowledge
    <2>2. answered[letter[w].job] /\ UNCHANGED <<answered, letter>>
      BY <1>1, <1>4, <2>1 DEF AckIsEarned, Acknowledge, ReceiverQuiet
    <2>3. \A v \in Workers : at'[v] = "ack" => at[v] = "ack"
      BY <1>0, <1>4 DEF Acknowledge, Move, NextRow
    <2>4. \A e \in Executions : e # letter[w].job => callback_deliveries'[e] = callback_deliveries[e]
      BY <1>0, <2>1 DEF MarkCallbackDeliveredByOwner, UpdateDelivery, TypeOK
    <2>5. DeliveredWasReceived'
      BY <1>0, <2>2, <2>4 DEF DeliveredWasReceived, HasDelivery
    <2>6. ASSUME NEW v \in Workers PROVE AckIsEarned(v)'
      BY <1>1, <2>2, <2>3, <2>4, <2>6 DEF AckIsEarned, DeliveryOwner, HasDelivery
    <2> QED BY <2>5, <2>6
  <1>5. ASSUME NEW e \in Executions, Replay(e) PROVE Goal
    <2>1. UNCHANGED <<at, letter>> /\ ReplayCallback(e)
      BY <1>5 DEF Replay
    <2>2. \A f \in Executions : f # e => answered'[f] = answered[f] /\ callback_deliveries'[f] = callback_deliveries[f]
      BY <1>0, <1>5 DEF Replay, ReplayCallback, UpdateDelivery, TypeOK
    <2>3. callback_deliveries'[e] = Row(Enqueued(e).attempts, 0, FALSE, NULL, 0)
      BY <1>0, <2>1 DEF ReplayCallback, UpdateDelivery, TypeOK
    <2>4. callback_deliveries'[e].delivered = FALSE /\ callback_deliveries'[e].lease_owner = NULL
      BY <2>3 DEF Row
    <2>5. DeliveredWasReceived'
      BY <1>0, <2>2, <2>4 DEF DeliveredWasReceived, HasDelivery
    <2>6. ASSUME NEW v \in Workers PROVE AckIsEarned(v)'
      BY <1>1, <2>1, <2>2, <2>4, <2>6 DEF AckIsEarned, DeliveryOwner, HasDelivery
    <2> QED BY <2>5, <2>6
  <1>6. ASSUME UNCHANGED vars PROVE \A e \in Executions : NothingGained(e)
    BY <1>0, <1>6, OnlyClaimsGain
  <1>7. ASSUME NEW w \in Workers, NEW l, l = letter[w], l \in Letters, Accept(l)
        PROVE  answered'[l.job] /\ \A e \in Executions : answered[e] => answered'[e]
    BY <1>0, <1>7 DEF Accept, Letters
  <1>8. ASSUME NEW w \in Workers, NotifyAccepted(w) PROVE Goal
    <2>1. letter[w] \in Letters /\ letter[w].job \in Executions
      BY <1>8, LetterJob DEF NotifyAccepted, Move
    <2>2. answered'[letter[w].job] /\ \A e \in Executions : answered[e] => answered'[e]
      BY <1>7, <1>8, <2>1 DEF NotifyAccepted
    <2>3. \A v \in Workers : at'[v] = "ack" => at[v] = "ack" \/ v = w
      BY <1>0, <1>8 DEF NotifyAccepted, Move
    <2> QED BY <1>2, <1>6, <1>8, <2>1, <2>2, <2>3 DEF NotifyAccepted
  <1>9. ASSUME NEW w \in Workers, NotifyFails(w) PROVE Goal
    <2>1. letter[w] \in Letters
      BY <1>9, LetterJob DEF NotifyFails, Move
    <2>2. \A e \in Executions : answered[e] => answered'[e]
      BY <1>7, <1>9, <2>1 DEF NotifyFails, ReceiverQuiet
    <2>3. \A v \in Workers : at'[v] = "ack" => at[v] = "ack"
      BY <1>0, <1>9 DEF NotifyFails, Move
    <2> QED BY <1>2, <1>6, <1>9, <2>2, <2>3 DEF NotifyFails
  <1>10. ASSUME NEW w \in Workers, ReceiverQuiet, \A e \in Executions : NothingGained(e),
                \E to \in {"idle", "paging", "claim", "send"} : at' = [at EXCEPT ![w] = to],
                \A v \in Workers : v # w => letter'[v] = letter[v]
         PROVE  Goal
    <2>1. \A v \in Workers : at'[v] = "ack" => at[v] = "ack" /\ v # w
      BY <1>0, <1>10
    <2> QED BY <1>2, <1>10, <2>1 DEF ReceiverQuiet
  <1>11. ASSUME NEW w \in Workers,
                ListPending(w) \/ PageDone(w) \/ AcknowledgeMissed(w) \/ RemoteRetry(w) \/ SenderCrash(w)
         PROVE  Goal
    <2>1. ReceiverQuiet /\ UNCHANGED vars
      BY <1>11 DEF ListPending, PageDone, AcknowledgeMissed, RemoteRetry, SenderCrash
    <2>2. \E to \in {"idle", "paging", "claim", "send"} : at' = [at EXCEPT ![w] = to]
      BY <1>11 DEF ListPending, PageDone, AcknowledgeMissed, RemoteRetry, SenderCrash, Move, NextRow
    <2>3. \A v \in Workers : v # w => letter'[v] = letter[v]
      BY <1>0, <1>11 DEF ListPending, PageDone, AcknowledgeMissed, RemoteRetry, SenderCrash
    <2> QED BY <1>6, <1>10, <2>1, <2>2, <2>3
  <1>12. ASSUME NEW w \in Workers, Postpone(w) PROVE Goal
    <2>1. letter[w].job \in Executions
      BY <1>12, LetterJob DEF Postpone, Move
    <2>2. \A e \in Executions : NothingGained(e)
      BY <1>0, <1>6, <1>12, <2>1, OnlyClaimsGain DEF Postpone
    <2> QED BY <1>10, <1>12, <2>2 DEF Postpone, Move, NextRow
  <1>13. ASSUME NEW r \in Workers, RemoteReports(r) PROVE Goal
    <2>1. PICK e \in Executions, s \in TERMINAL_STATUSES, x \in Scores \cup {NULL} : RemoteFinish(r, e, s, x)
      BY <1>13 DEF RemoteReports
    <2>2. ExecutionNext
      BY <2>1 DEF RemoteFinish, ExecutionNext
    <2>3. \A f \in Executions : NothingGained(f)
      BY <1>0, <2>2, OnlyClaimsGain
    <2>4. \A v \in Workers : v # r => letter'[v] = letter[v]
      BY <1>0, <2>1 DEF RemoteFinish
    <2> QED BY <1>10, <2>1, <2>3, <2>4 DEF RemoteFinish, Move
  <1>14. ASSUME NEW d \in Workers, NEW e \in Executions, ClaimRow(d, e) PROVE Goal
    <2>1. UNCHANGED answered /\ ReceiverQuiet
      BY <1>14 DEF ClaimRow, ReceiverQuiet
    <2>2. CASE ~DeliveryIsFree(e) /\ Move(d, "paging", "paging") /\ UNCHANGED <<vars, letter>>
      BY <1>6, <1>10, <2>1, <2>2 DEF Move
    <2>3. CASE /\ ClaimCallback(e, d) /\ Move(d, "paging", "send")
               /\ letter' = [letter EXCEPT ![d] = [job |-> e, payload |-> Payload(e)]]
      <3>1. at'[d] = "send" /\ \A v \in Workers : at'[v] = "ack" => at[v] = "ack" /\ letter'[v] = letter[v]
        BY <1>0, <2>3 DEF Move
      <3> QED BY <1>3, <2>1, <2>3, <3>1
    <2> QED BY <1>14, <2>2, <2>3 DEF ClaimRow
  <1>15. ASSUME NEW r \in Workers, RemoteClaim(r) PROVE Goal
    <2>1. letter[r].job \in Executions
      BY <1>15, LetterJob DEF RemoteClaim
    <2>2. UNCHANGED <<answered, letter>> /\ ReceiverQuiet
      BY <1>15 DEF RemoteClaim, ReceiverQuiet
    <2>3. CASE Move(r, "claim", "idle") /\ UNCHANGED vars
      BY <1>6, <1>10, <2>2, <2>3 DEF Move
    <2>4. CASE ClaimCallback(letter[r].job, r) /\ Move(r, "claim", "send")
      <3>1. at'[r] = "send" /\ \A v \in Workers : at'[v] = "ack" => at[v] = "ack" /\ letter'[v] = letter[v]
        BY <1>0, <2>2, <2>4 DEF Move
      <3> QED BY <1>3, <2>1, <2>2, <2>4, <3>1
    <2> QED BY <1>15, <2>3, <2>4 DEF RemoteClaim
  <1>16. ASSUME Around PROVE Goal
    <2>1. ExecutionNext \/ Tick
      BY <1>16, SendersAreWorkers DEF Around, ExecutionNext
    <2>2. \A e \in Executions : NothingGained(e)
      BY <1>0, <2>1, OnlyClaimsGain
    <2> QED BY <1>2, <1>16, <2>2 DEF Around, senderVars
  <1>17. ASSUME UNCHANGED deliveryVars PROVE Goal
    BY <1>2, <1>6, <1>17 DEF deliveryVars, senderVars
  <1> HIDE DEF Goal, DeliveryTypeOK
  <1>18. ASSUME NEW d \in Dispatchers, DispatcherStep(d) \/ SenderCrash(d) PROVE Goal
    BY <1>4, <1>8, <1>9, <1>11, <1>12, <1>14, <1>18, SendersAreWorkers DEF DispatcherStep
  <1>19. ASSUME NEW r \in Remotes, RemoteReports(r) \/ RemoteSends(r) \/ RemoteRetry(r) \/ SenderCrash(r)
         PROVE  Goal
    BY <1>4, <1>8, <1>9, <1>11, <1>13, <1>15, <1>19, SendersAreWorkers DEF RemoteSends
  <1>20. Goal
    BY <1>5, <1>16, <1>17, <1>18, <1>19 DEF DeliveryNextAll
  <1> QED BY <1>20 DEF Goal

-----------------------------------------------------------------------------
\* The invariant of store, senders and receiver holds in every reachable state,
\* for crashes, lost answers, expired leases and replays in any order.
THEOREM DeliveryInvariance == DeliverySpec => []DeliveryInv
  <1>1. DeliveryInit => DeliveryInv
    <2> SUFFICES ASSUME DeliveryInit PROVE DeliveryInv
      OBVIOUS
    <2>1. StoreInv
      BY StoreInvInit DEF DeliveryInit
    <2>2. DeliveryTypeOK
      BY <2>1, DeliveryAssumption DEF DeliveryInit, DeliveryTypeOK, StoreInv
    <2>3. DeliveredWasReceived
      BY DEF DeliveryInit, Init, DeliveredWasReceived, HasDelivery
    <2>4. \A e \in Executions : ReceivedSettled(e)
      BY DEF DeliveryInit, ReceivedSettled
    <2>5. \A w \in Workers : LettersGood(w) /\ AckIsEarned(w)
      BY DEF DeliveryInit, LettersGood, AckIsEarned
    <2> QED BY <2>1, <2>2, <2>3, <2>4, <2>5 DEF DeliveryInv
  <1>2. DeliveryInv /\ [DeliveryNextAll]_deliveryVars => DeliveryInv'
    <2> SUFFICES ASSUME DeliveryInv, [DeliveryNextAll]_deliveryVars PROVE DeliveryInv'
      OBVIOUS
    <2>1. StoreInv'
      BY SendersUseTheStore, StoreInvStep DEF DeliveryInv
    <2> QED
      BY <2>1, DeliveryTypeStep, LettersGoodStep, ReceivedSettledStep, AckStep DEF DeliveryInv
  <1> QED BY <1>1, <1>2, PTL DEF DeliverySpec

\* Dispatchers and remote workers are correct clients of the store: with them
\* it behaves as it does on its own, and all that is proved of it holds.
THEOREM DeliveryImplementsStore == DeliverySpec => Spec
  <1>1. DeliveryInit => Init
    BY DEF DeliveryInit
  <1>2. DeliveryInv /\ [DeliveryNextAll]_deliveryVars => [Next]_vars
    BY SendersUseTheStore
  <1> QED BY <1>1, <1>2, DeliveryInvariance, PTL DEF DeliverySpec, Spec

\* Whatever the receiver accepted for an execution is that execution's final
\* result, from whichever sender, however often and however late.
THEOREM ReceiversSeeFinalResults == DeliverySpec => []ReceivedIsFinal
  <1>1. DeliveryInv => ReceivedIsFinal
    BY DEF DeliveryInv, ReceivedSettled, ReceivedIsFinal
  <1> QED BY <1>1, DeliveryInvariance, PTL

\* No row is marked delivered on the strength of a POST that was not accepted,
\* or that was accepted before an administrator asked for a replay.
THEOREM DeliveredMeansReceived == DeliverySpec => []DeliveredWasReceived
  BY DeliveryInvariance, PTL DEF DeliveryInv
=============================================================================
