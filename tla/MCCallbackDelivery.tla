------------------------- MODULE MCCallbackDelivery -------------------------
(* Small instances of CallbackDelivery for TLC. *)
EXTENDS CallbackDelivery

MCRequests ==
    {[task_ref |-> "t", callback_url |-> TRUE, priority |-> 0,
      queue |-> "default", resource_class |-> "cpu", required |-> {}]}
MCOffers ==
    {[queues |-> {}, resource_classes |-> {}, capabilities |-> {}]}
=============================================================================
