\* One order, every writer of its columns and every checkout route, under fair workers.
SPECIFICATION FairSpec

CONSTANTS
    Order = {o1}
    Variant = {v1}
    Key = {}
    NoOrder = NoOrder
    NoKey = NoKey
    MaxQty = 1
    InitialStock = 1
    MaxStock = 0
    MaxRevision = 1
    CouponLimit = 1
    CheckoutRoutes = {"orders", "initialize"}
    ManualModes = {"reserve", "consume"}
    InitialStatuses = {"paid", "payment_pending"}
    Outcomes = {"paid", "cancelled"}
    AdminDomains = {"order", "payment", "fulfillment"}
    LegacyTargets = {"payment_pending", "new", "paid", "processing", "shipped", "delivered", "cancelled"}
    CouponStates = {TRUE}
    ProviderCallRaces = TRUE

INVARIANTS
    ColumnsAgree
    JournalMatchesReservation
    PaidIsDeducted

PROPERTIES
    PendingResolves

\* Every order may reach a final state with nothing left to do.
CHECK_DEADLOCK FALSE
