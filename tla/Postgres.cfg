\* Statement-level interleavings of two claiming workers and a canceler.
SPECIFICATION PostgresSpec
CONSTANTS
    Executions = {e1, e2}
    Workers = {w1, w2}
    Cancelers = {c1}
    Keys = {k1, k2}
    TaskRefs = {"t"}
    Capabilities = {}
    Requests <- MCRequests
    Offers <- MCTwoQueues
    Scores = {"1.0"}
    LeaseSeconds = 1
    CallbackLease = 1
    BackoffBase = 1
    BackoffMax = 1
    AttemptsCap = 0
    NULL = NULL
SYMMETRY Symmetry
INVARIANTS
    NoStuckQueuedRow
    ResultsAreNotified
PROPERTIES
    TerminalIsFinal
    LiveLeaseIsExclusive
