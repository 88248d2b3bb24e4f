-------------------------- MODULE CallbackDelivery --------------------------
(***************************************************************************)
(* Delivery of result callbacks from the outbox (worker.py).  Dispatchers  *)
(* and LocalWorkers loop over _deliver_callbacks: list the pending rows,   *)
(* claim one, read the execution, POST it, acknowledge or postpone it.  A  *)
(* RemoteWorker sends the callback of the execution it just finished, and  *)
(* keeps what it could not send in memory to retry it WITHOUT claiming it. *)
(* The receiver may refuse, accept, or accept and have its answer lost;    *)
(* senders crash between any two steps.                                    *)
(*                                                                         *)
(* The receiver is external.  A page of pending_callbacks holds 20 rows:   *)
(* the instances have fewer, so a page is all that is pending.             *)
(***************************************************************************)
EXTENDS JudgeStore

CONSTANTS Dispatchers,  \* senders that loop over _deliver_callbacks
          Remotes,      \* RemoteWorkers
          MaxReplays    \* bound on replays an administrator asks for

ASSUME DeliveryAssumption ==
    /\ Dispatchers \subseteq Workers
    /\ Remotes \subseteq Workers
    /\ Dispatchers \cap Remotes = {}
    /\ MaxReplays \in Nat

VARIABLES at,        \* where each sender is
          page,      \* rows of its pending_callbacks page still to do
          letter,    \* [job, payload] it is sending, or NULL
          memory,    \* _pending_callbacks of each RemoteWorker: letters
          received,  \* payloads the receiver accepted, per execution
          answered,  \* ghost: accepted since the last replay
          replays    \* replays so far

senderVars == <<at, page, letter, memory, received, answered, replays>>
deliveryVars == <<vars, senderVars>>

Payload(e) == [status |-> status[e], score |-> score[e]]
Payloads == [status : Statuses, score : Scores \cup {NULL}]
Letters == [job : Executions, payload : Payloads]

DeliveryTypeOK ==
    /\ TypeOK
    /\ at \in [Workers -> {"idle", "paging", "claim", "send", "ack", "fail"}]
    /\ page \in [Workers -> SUBSET Executions]
    /\ letter \in [Workers -> Letters \cup {NULL}]
    /\ memory \in [Workers -> SUBSET Letters]
    /\ received \in [Executions -> SUBSET Payloads]
    /\ answered \in [Executions -> BOOLEAN]
    /\ replays \in 0 .. MaxReplays

DeliveryInit ==
    /\ Init
    /\ at = [w \in Workers |-> "idle"]
    /\ page = [w \in Workers |-> {}]
    /\ letter = [w \in Workers |-> NULL]
    /\ memory = [w \in Workers |-> {}]
    /\ received = [e \in Executions |-> {}]
    /\ answered = [e \in Executions |-> FALSE]
    /\ replays = 0

Move(w, from, to) ==
    /\ at[w] = from
    /\ at' = [at EXCEPT ![w] = to]

\* After a row a dispatcher goes on with its page, a RemoteWorker is done.
NextRow(w) == IF w \in Dispatchers THEN "paging" ELSE "idle"

ReceiverQuiet == UNCHANGED <<received, answered, replays>>

-----------------------------------------------------------------------------
\* pending_callbacks: undelivered, settled and due; leased rows are listed.
Pending(e) ==
    /\ HasDelivery(e)
    /\ ~callback_deliveries[e].delivered
    /\ Terminal(e)
    /\ callback_deliveries[e].due = 0

ListPending(d) ==
    /\ d \in Dispatchers
    /\ Move(d, "idle", "paging")
    /\ page' = [page EXCEPT ![d] = {e \in Executions : Pending(e)}]
    /\ UNCHANGED <<vars, letter, memory>> /\ ReceiverQuiet

PageDone(d) ==
    /\ page[d] = {}
    /\ Move(d, "paging", "idle")
    /\ UNCHANGED <<vars, page, letter, memory>> /\ ReceiverQuiet

\* claim_callback, then get_execution; a refused claim skips the row.
ClaimRow(d, e) ==
    /\ e \in page[d]
    /\ page' = [page EXCEPT ![d] = @ \ {e}]
    /\ \/ /\ ClaimCallback(e, d)
          /\ Move(d, "paging", "send")
          /\ letter' = [letter EXCEPT ![d] = [job |-> e, payload |-> Payload(e)]]
       \/ /\ ~DeliveryIsFree(e)
          /\ Move(d, "paging", "paging")
          /\ UNCHANGED <<vars, letter>>
    /\ UNCHANGED memory /\ ReceiverQuiet

-----------------------------------------------------------------------------
\* A RemoteWorker's finish is answered with the settled execution, which it
\* then wants to send itself.
RemoteFinish(r, e, s, v) ==
    /\ r \in Remotes
    /\ Finish(e, r, s, v)
    /\ Move(r, "idle", IF HasCallback(e) THEN "claim" ELSE "idle")
    /\ letter' = [letter EXCEPT ![r] =
         [job |-> e, payload |-> [status |-> SettledStatus(e, s),
                                  score |-> SettledScore(e, v)]]]
    /\ UNCHANGED <<page, memory>> /\ ReceiverQuiet

RemoteClaim(r) ==
    /\ at[r] = "claim"
    /\ \/ ClaimCallback(letter[r].job, r) /\ Move(r, "claim", "send")
       \/ /\ ~DeliveryIsFree(letter[r].job)
          /\ Move(r, "claim", "idle")
          /\ UNCHANGED vars
    /\ UNCHANGED <<page, letter, memory>> /\ ReceiverQuiet

\* _deliver_pending_callbacks: the remembered letter goes out unclaimed.
RemoteRetry(r) ==
    /\ Move(r, "idle", "send")
    /\ \E l \in memory[r] :
         /\ letter' = [letter EXCEPT ![r] = l]
         /\ memory' = [memory EXCEPT ![r] = @ \ {l}]
    /\ UNCHANGED <<vars, page>> /\ ReceiverQuiet

-----------------------------------------------------------------------------
\* _notify: one POST.
Accept(l) ==
    /\ received' = [received EXCEPT ![l.job] = @ \cup {l.payload}]
    /\ answered' = [answered EXCEPT ![l.job] = TRUE]
    /\ UNCHANGED replays

NotifyAccepted(w) ==
    /\ Move(w, "send", "ack")
    /\ Accept(letter[w])
    /\ UNCHANGED <<vars, page, letter, memory>>

\* Refused, unreachable, or accepted with the answer lost.
NotifyFails(w) ==
    /\ Move(w, "send", IF w \in Dispatchers THEN "fail" ELSE "idle")
    /\ ReceiverQuiet \/ Accept(letter[w])
    /\ memory' = IF w \in Remotes
                 THEN [memory EXCEPT ![w] = @ \cup {letter[w]}] ELSE memory
    /\ UNCHANGED <<vars, page, letter>>

Acknowledge(w) ==
    /\ Move(w, "ack", NextRow(w))
    /\ MarkCallbackDeliveredByOwner(letter[w].job, w)
    /\ UNCHANGED <<page, letter, memory>> /\ ReceiverQuiet

\* Not the owner any more; a RemoteWorker also shrugs off a failed request.
AcknowledgeMissed(w) ==
    /\ Move(w, "ack", NextRow(w))
    /\ w \in Remotes \/ ~MayAcknowledge(letter[w].job, w)
    /\ UNCHANGED <<vars, page, letter, memory>> /\ ReceiverQuiet

Postpone(w) ==
    /\ Move(w, "fail", NextRow(w))
    /\ \/ MarkCallbackFailed(letter[w].job, w)
       \/ ~DeliveryOwner(letter[w].job, w) /\ UNCHANGED vars
    /\ UNCHANGED <<page, letter, memory>> /\ ReceiverQuiet

\* The process dies, or a store call raises out of the delivery loop.
SenderCrash(w) ==
    /\ at[w] # "idle" \/ memory[w] # {}
    /\ at' = [at EXCEPT ![w] = "idle"]
    /\ page' = [page EXCEPT ![w] = {}]
    /\ letter' = [letter EXCEPT ![w] = NULL]
    /\ memory' = [memory EXCEPT ![w] = {}]
    /\ UNCHANGED vars /\ ReceiverQuiet

-----------------------------------------------------------------------------
\* Submissions, claims, cancellations, replays and the clock.
Replay(e) ==
    /\ replays < MaxReplays
    /\ ReplayCallback(e)
    /\ replays' = replays + 1
    /\ answered' = [answered EXCEPT ![e] = FALSE]
    /\ UNCHANGED <<at, page, letter, memory, received>>

Around ==
    /\ \/ \E t \in TaskRefs : RegisterTask(t, {})
       \/ \E e \in Executions, k \in Keys, r \in Requests : Submit(e, k, r)
       \/ \E e \in Executions : Cancel(e)
       \/ \E w \in Remotes, o \in Offers : at[w] = "idle" /\ ClaimNext(w, o)
       \/ \E e \in Executions, w \in Remotes : RenewLease(e, w)
       \/ Tick
    /\ UNCHANGED senderVars

DispatcherStep(d) ==
    \/ ListPending(d) \/ PageDone(d)
    \/ \E e \in Executions : ClaimRow(d, e)
    \/ NotifyAccepted(d) \/ NotifyFails(d)
    \/ Acknowledge(d) \/ AcknowledgeMissed(d) \/ Postpone(d)

RemoteReports(r) ==
    \E e \in Executions, s \in TERMINAL_STATUSES, v \in Scores \cup {NULL} :
        RemoteFinish(r, e, s, v)

RemoteSends(r) ==
    \/ RemoteClaim(r)
    \/ NotifyAccepted(r) \/ NotifyFails(r) \/ Acknowledge(r) \/ AcknowledgeMissed(r)

DeliveryNextAll ==
    \/ Around
    \/ \E e \in Executions : Replay(e)
    \/ \E d \in Dispatchers : DispatcherStep(d) \/ SenderCrash(d)
    \/ \E r \in Remotes :
         RemoteReports(r) \/ RemoteSends(r) \/ RemoteRetry(r) \/ SenderCrash(r)

DeliverySpec == DeliveryInit /\ [][DeliveryNextAll]_deliveryVars

(***************************************************************************)
(* Fairness: dispatchers loop for ever; a receiver that is asked again and *)
(* again accepts one day within the delivery lease (a POST times out long  *)
(* before it), and a dispatcher does not crash every single time between   *)
(* the accepted POST and its acknowledgement.  Remote workers get through  *)
(* what they send and poll for work.  No worker has to report: it may      *)
(* renew its lease for as long as the store lets it.                       *)
(***************************************************************************)
InLease(d) == letter[d] # NULL /\ DeliveryOwner(letter[d].job, d)

DeliveryFairness ==
    /\ WF_deliveryVars(Tick /\ UNCHANGED senderVars)
    /\ \A d \in Dispatchers :
         /\ WF_deliveryVars(DispatcherStep(d))
         /\ SF_deliveryVars(\E e \in Executions : ClaimRow(d, e) /\ ClaimCallback(e, d))
         /\ SF_deliveryVars(InLease(d) /\ NotifyAccepted(d))
         /\ SF_deliveryVars(Acknowledge(d))
    /\ \A r \in Remotes :
         /\ WF_deliveryVars(RemoteSends(r))
         /\ WF_deliveryVars(\E o \in Offers :
                              at[r] = "idle" /\ ClaimNext(r, o) /\ UNCHANGED senderVars)

FairDeliverySpec == DeliverySpec /\ DeliveryFairness

-----------------------------------------------------------------------------
\* A callback marked delivered was accepted by the receiver since the row was
\* written or last replayed: no sender whose lease expired, whose letter was
\* kept in memory or whose row was replayed in the meantime can acknowledge
\* on the strength of an older POST.
DeliveredWasReceived ==
    \A e \in Executions :
        HasDelivery(e) /\ callback_deliveries[e].delivered => answered[e]

\* Duplicates and retries are allowed, contradictions are not: whatever the
\* receiver accepted for an execution, from whichever sender and however
\* late, is that execution's final result.
ReceivedIsFinal ==
    \A e \in Executions : received[e] \subseteq {Payload(e)}

\* A requested cancellation is announced although the worker never reports:
\* renew_lease refuses the run, the reclaim pass of a later claim_next settles
\* it and writes the outbox row, and a dispatcher delivers it.
CancelIsAnnounced ==
    \A e \in Executions :
        cancel_requested[e] /\ HasCallback(e) ~>
            HasDelivery(e) /\ callback_deliveries[e].delivered

\* At-least-once: a settled execution's callback is delivered in the end,
\* replayed ones again.
CallbackArrives ==
    \A e \in Executions :
        Terminal(e) /\ HasCallback(e) ~> HasDelivery(e) /\ callback_deliveries[e].delivered
=============================================================================
