---------------------------- MODULE MCJudgeStore ----------------------------
(* Small instances of JudgeStore for TLC. *)
EXTENDS JudgeStore, TLC

MCRequests ==
    {[task_ref |-> "t", callback_url |-> TRUE, priority |-> 0,
      queue |-> "default", resource_class |-> "cpu", required |-> {}],
     [task_ref |-> "t", callback_url |-> FALSE, priority |-> 1,
      queue |-> "gpu", resource_class |-> "cpu", required |-> {"ml"}]}

\* An unrestricted local worker, and a remote one bound to a queue.
MCOffers ==
    {[queues |-> {}, resource_classes |-> {}, capabilities |-> {"ml"}],
     [queues |-> {"default"}, resource_classes |-> {"cpu"}, capabilities |-> {}]}

Symmetry == Permutations(Executions) \cup Permutations(Workers) \cup Permutations(Keys)
=============================================================================
