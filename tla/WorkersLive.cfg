\* Two local workers: every accepted execution is settled in the end.
SPECIFICATION FairWorkersSpec
CONSTANTS
    Executions = {e1}
    Workers = {w1, w2}
    Keys = {k1}
    TaskRefs = {"t"}
    Capabilities = {}
    Requests <- MCRequests
    Offers <- MCOffers
    Scores = {"0.0"}
    LeaseSeconds = 1
    CallbackLease = 1
    BackoffBase = 1
    BackoffMax = 1
    AttemptsCap = 0
    Bring <- MCBring
    ZeroScore = "0.0"
    RemoteWorkers = {}
    NULL = NULL
PROPERTIES
    WorkSettles
