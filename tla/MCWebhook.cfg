\* Two fair workers, a fault, an administrator.
SPECIFICATION FairSpec

CONSTANTS
    Event = {e1, e2}
    Endpoint = {p1}
    Worker = {w1, w2}
    NoRow = NoRow
    MaxAttempts = 2
    RetryBudget = 1
    AttemptCap = 3
    FailureThreshold = 2
    Verdicts = {"delivered", "failed_retryable", "failed_permanent"}
    MaxFaults = 1
    AdminStatuses = {"active", "disabled"}
    ManualRetries = TRUE

INVARIANTS
    OneSender
    DeliveredWasAccepted
    ActiveIsBelowThreshold
    AttemptsWithinBudget

PROPERTIES
    DeliveryEnds

\* Every delivery may end with nothing left to do.
CHECK_DEADLOCK FALSE
