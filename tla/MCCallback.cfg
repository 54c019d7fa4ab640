\* The claim of the README: a callback settles the order.
SPECIFICATION RetriedSpec

CONSTANTS
    Order = {o1}
    Variant = {v1}
    Key = {}
    NoOrder = NoOrder
    NoKey = NoKey
    MaxQty = 1
    InitialStock = 1
    MaxStock = 0
    MaxRevision = 1
    CouponLimit = 1
    CheckoutRoutes = {"initialize"}
    ManualModes = {"reserve"}
    InitialStatuses = {"payment_pending"}
    Outcomes = {"paid", "cancelled"}
    AdminDomains = {}
    LegacyTargets = {}
    CouponStates = {TRUE}
    ProviderCallRaces = TRUE

PROPERTIES
    CallbackSettles

\* Every order may reach a final state with nothing left to do.
CHECK_DEADLOCK FALSE
