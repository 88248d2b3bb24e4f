\* A dispatcher and a remote worker deliver one execution's callback.
SPECIFICATION FairDeliverySpec
CONSTANTS
    Executions = {e1}
    Workers = {d1, r1}
    Dispatchers = {d1}
    Remotes = {r1}
    Keys = {k1}
    TaskRefs = {"t"}
    Capabilities = {}
    Requests <- MCRequests
    Offers <- MCOffers
    Scores = {"1.0"}
    LeaseSeconds = 1
    CallbackLease = 1
    BackoffBase = 1
    BackoffMax = 1
    AttemptsCap = 1
    MaxReplays = 1
    NULL = NULL
INVARIANTS
    DeliveredWasReceived
    ReceivedIsFinal
PROPERTIES
    CallbackArrives
    CancelIsAnnounced
