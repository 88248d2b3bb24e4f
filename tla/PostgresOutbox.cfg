\* A cancellation committed between the two reclaiming UPDATEs.
SPECIFICATION PostgresSpec
CONSTANTS
    Executions = {e1}
    Workers = {w1, w2}
    Cancelers = {c1}
    Keys = {k1}
    TaskRefs = {"t"}
    Capabilities = {}
    Requests <- MCRequests
    Offers <- MCTwoQueues
    Scores = {"1.0"}
    LeaseSeconds = 1
    CallbackLease = 1
    BackoffBase = 1
    BackoffMax = 1
    AttemptsCap = 0
    NULL = NULL
SYMMETRY Symmetry
PROPERTIES
    ReclaimNotifies
