\* One order, two requests, refunds in parts, a replacement order.
SPECIFICATION ReturnsSpec

CONSTANTS
    Order = {o1, o2}
    Variant = {v1}
    Key = {}
    NoOrder = NoOrder
    NoKey = NoKey
    MaxQty = 3
    InitialStock = 3
    MaxStock = 0
    MaxRevision = 0
    CouponLimit = 0
    CheckoutRoutes = {"orders"}
    ManualModes = {"consume"}
    InitialStatuses = {}
    Outcomes = {}
    AdminDomains = {"order"}
    LegacyTargets = {"paid", "processing", "delivered"}
    CouponStates = {TRUE}
    ProviderCallRaces = FALSE
    RequestTypes = {"return", "exchange", "cancellation"}
    UnitPrice = 2
    LineDiscount = 1
    ShippingFee = 1
    MaxRequests = 2
    MaxRefunds = 3

CONSTRAINT
    OneCustomerOrder

INVARIANTS
    ReturnsTypeOK
    RequestedWithinOrdered
    RefundedWithinApproved
    RefundedWithinPaid

\* Every order may reach a final state with nothing left to do.
CHECK_DEADLOCK FALSE
