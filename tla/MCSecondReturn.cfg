\* The message of a refused refund: more than was approved.
SPECIFICATION ReturnsSpec

CONSTANTS
    Order = {o1}
    Variant = {v1}
    Key = {}
    NoOrder = NoOrder
    NoKey = NoKey
    MaxQty = 2
    InitialStock = 2
    MaxStock = 0
    MaxRevision = 0
    CouponLimit = 0
    CheckoutRoutes = {"orders"}
    ManualModes = {"consume"}
    InitialStatuses = {}
    Outcomes = {}
    AdminDomains = {"order"}
    LegacyTargets = {"paid", "processing", "delivered"}
    CouponStates = {TRUE}
    ProviderCallRaces = FALSE
    RequestTypes = {"return"}
    UnitPrice = 2
    LineDiscount = 1
    ShippingFee = 1
    MaxRequests = 2
    MaxRefunds = 1

INVARIANTS
    ApprovedIsRefundable

\* Every order may reach a final state with nothing left to do.
CHECK_DEADLOCK FALSE
