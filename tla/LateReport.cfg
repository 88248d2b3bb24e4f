\* A report of an earlier run arrives while its worker has the job again.
SPECIFICATION WorkersSpec
CONSTANTS
    Executions = {e1}
    Workers = {w1, w2}
    Keys = {k1}
    TaskRefs = {"t"}
    Capabilities = {}
    Requests <- MCRequests
    Offers <- MCOffers
    Scores = {"0.0", "1.0"}
    LeaseSeconds = 2
    CallbackLease = 1
    BackoffBase = 1
    BackoffMax = 1
    AttemptsCap = 0
    Bring <- MCBring
    ZeroScore = "0.0"
    RemoteWorkers = {w2}
    NULL = NULL
PROPERTIES
    LateReportIsCurrent
