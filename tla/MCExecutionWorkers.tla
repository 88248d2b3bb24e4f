------------------------- MODULE MCExecutionWorkers -------------------------
(* Small instances of ExecutionWorkers for TLC. *)
EXTENDS ExecutionWorkers

MCRequests ==
    {[task_ref |-> "t", callback_url |-> TRUE, priority |-> 0,
      queue |-> "default", resource_class |-> "cpu", required |-> {}]}
MCOffers ==
    {[queues |-> {}, resource_classes |-> {}, capabilities |-> {}]}
MCBring == [w \in Workers |-> CHOOSE o \in MCOffers : TRUE]
=============================================================================
