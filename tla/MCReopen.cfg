\* One order of one or two variants is cancelled and reopened, twice; the stock and the coupon
\* are edited meanwhile; the provider refuses no payment and its calls are short.
SPECIFICATION Spec

CONSTANTS
    Order = {o1}
    Variant = {v1, v2}
    Key = {k1}
    NoOrder = NoOrder
    NoKey = NoKey
    MaxQty = 1
    InitialStock = 2
    MaxStock = 1
    MaxRevision = 2
    CouponLimit = 1
    CheckoutRoutes = {"orders", "initialize"}
    ManualModes = {"reserve", "consume"}
    InitialStatuses = {"paid", "payment_pending"}
    Outcomes = {"paid"}
    AdminDomains = {"order"}
    LegacyTargets = {}
    CouponStates = {TRUE, FALSE}
    ProviderCallRaces = FALSE

INVARIANTS
    StockMatchesReservations
    PaidStaysDeducted

\* Every order may reach a final state with nothing left to do.
CHECK_DEADLOCK FALSE
