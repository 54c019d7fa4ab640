\* Two orders compete for two units and one use of a coupon while checkouts, callbacks,
\* expiry, administrators and stock edits interleave.
SPECIFICATION Spec

CONSTANTS
    Order = {o1, o2}
    Variant = {v1}
    Key = {}
    NoOrder = NoOrder
    NoKey = NoKey
    MaxQty = 2
    InitialStock = 2
    MaxStock = 0
    MaxRevision = 1
    CouponLimit = 1
    CheckoutRoutes = {"initialize"}
    ManualModes = {"reserve"}
    InitialStatuses = {"payment_pending"}
    Outcomes = {"paid", "cancelled"}
    AdminDomains = {}
    LegacyTargets = {"payment_pending", "new", "cancelled"}
    CouponStates = {TRUE}
    ProviderCallRaces = TRUE

SYMMETRY OrderSymmetry

INVARIANTS
    ReservedIsHeld
    NoOversell
    SettlementNeverFails
    CancelledHoldsNothing
    CouponWithinLimit

PROPERTIES
    StockIsAnAccount

\* Every order may reach a final state with nothing left to do.
CHECK_DEADLOCK FALSE
