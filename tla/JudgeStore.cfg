\* Every operation of the store, called by anyone at any time.
SPECIFICATION Spec
CONSTANTS
    Executions = {e1, e2}
    Workers = {w1, w2}
    Keys = {k1, k2}
    TaskRefs = {"t"}
    Capabilities = {"ml"}
    Requests <- MCRequests
    Offers <- MCOffers
    Scores = {"100"}
    LeaseSeconds = 2
    CallbackLease = 1
    BackoffBase = 1
    BackoffMax = 2
    AttemptsCap = 2
    NULL = NULL
SYMMETRY Symmetry
INVARIANTS
    TypeOK
    LeaseHeld
    NoStuckQueuedRow
    OutboxComplete
    OutboxOnlyForSettled
    DeliveredIsUnowned
PROPERTIES
    TerminalIsFinal
    LiveLeaseIsExclusive
    FollowsLifecycle
