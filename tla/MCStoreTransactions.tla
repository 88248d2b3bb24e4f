------------------------ MODULE MCStoreTransactions -------------------------
(* Small instances of StoreTransactions for TLC. *)
EXTENDS StoreTransactions, TLC

MCRequests ==
    {[task_ref |-> "t", callback_url |-> TRUE, priority |-> 0,
      queue |-> "default", resource_class |-> "cpu", required |-> {}]}
MCOffers ==
    {[queues |-> {}, resource_classes |-> {}, capabilities |-> {}]}
\* A worker of another queue only requeues what it finds expired.
MCTwoQueues ==
    MCOffers \cup {[queues |-> {"gpu"}, resource_classes |-> {}, capabilities |-> {}]}

Symmetry == Permutations(Executions) \cup Permutations(Workers)
            \cup Permutations(Keys) \cup Permutations(Cancelers)
=============================================================================
