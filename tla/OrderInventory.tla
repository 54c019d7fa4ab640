--------------------------- MODULE OrderInventory ---------------------------
(***************************************************************************)
(* One organization's orders, the stock they reserve and consume, and the  *)
(* coupon they redeem: every transaction of the API that moves an order    *)
(* between statuses together with the stock and the coupon, run by any     *)
(* number of processes at once.                                            *)
(*                                                                         *)
(*   checkout     routes/orders.js POST /, routes/payment.js /initialize   *)
(*   callback     services/paymentCallbackEvents.js                        *)
(*   admin        routes/orders.js transitions, bulk-status, status,       *)
(*                shipping (services/orderOperations.js)                   *)
(*   expiry       services/inventoryReservations.js, a background worker   *)
(*   stock edit   services/inventory.js setInventoryBalance                *)
(*                                                                         *)
(* One action is one database transaction: each locks the order or the     *)
(* reservation row, then the variant rows, before it writes, so two        *)
(* transactions on the same rows serialise.  What is NOT atomic in the     *)
(* code is not atomic here: /initialize is a transaction, a call to the    *)
(* payment provider and a second transaction, and anything may commit, or  *)
(* the process may stop, in between.                                       *)
(*                                                                         *)
(* A helper of the code that may throw is a set-valued operator: the set   *)
(* of states it can return with, empty when it throws (and the transaction *)
(* rolls back, so no action is taken).                                     *)
(***************************************************************************)
EXTENDS OrderLifecycle, Integers, FiniteSets

CONSTANTS
    Order,              \* the order rows that may be created
    Variant,            \* the stock units (product_variants rows)
    Key,                \* Idempotency-Key values clients send
    NoOrder,            \* the row does not exist yet
    NoKey,              \* a checkout without an Idempotency-Key
    MaxQty,             \* bound: the quantity of a variant in one order
    InitialStock,       \* on_hand of every variant before the first order
    MaxStock,           \* bound: the stock an administrator may set
    MaxRevision,        \* bound: how often one order is reopened
    CouponLimit,        \* total_usage_limit of the coupon; 0: there is no coupon
    CheckoutRoutes,     \* which checkout endpoints clients use
    ManualModes,        \* MANUAL_PAYMENT_INVENTORY_MODE of the deployment
    InitialStatuses,    \* what the second transaction of /initialize may write
    Outcomes,           \* what the provider may report for a payment
    AdminDomains,       \* lifecycle columns administrators edit one by one
    LegacyTargets,      \* statuses administrators set through PUT /:id/status
    CouponStates,       \* the values coupons.status = 'active' takes
    ProviderCallRaces   \* other transactions on the order may commit during the
                        \* provider call (it has no time limit)

ASSUME NoOrderAssumption == NoOrder \notin OrderRow
ASSUME NoKeyAssumption == NoKey \notin Key
ASSUME OrderAssumption == IsFiniteSet(Order)
ASSUME BoundsAssumption ==
    /\ MaxQty \in Nat \ {0}
    /\ InitialStock \in Nat
    /\ MaxStock \in Nat
    /\ MaxRevision \in Nat
    /\ CouponLimit \in Nat
ASSUME ChoicesAssumption ==
    /\ CheckoutRoutes \subseteq {"orders", "initialize"}
    /\ ManualModes \subseteq {"reserve", "consume"}
    /\ InitialStatuses \subseteq {"paid", "payment_pending"}
    /\ Outcomes \subseteq {"paid", "cancelled"}
    /\ AdminDomains \subseteq Domains
    /\ LegacyTargets \subseteq LegacyStatuses
    /\ TRUE \in CouponStates
    /\ CouponStates \subseteq BOOLEAN
    /\ ProviderCallRaces \in BOOLEAN

VARIABLES
    orders,      \* the orders table
    orderKey,    \* orders.checkout_idempotency_key
    inv,         \* product_variants, inventory_reservations, inventory_movements
    redemption,  \* coupon_redemptions.status of the order's redemption
    couponOpen,  \* the coupon is active and inside its window
    checkout,    \* where the order's /initialize request is
    event        \* the order's payment_callback_events row

vars == <<orders, orderKey, inv, redemption, couponOpen, checkout, event>>

-----------------------------------------------------------------------------
(* Rows *)

ReservationStatuses == {"none", "active", "consumed", "released", "expired"}
MovementKinds == {"reserve", "consume", "release", "restock"}
RedemptionStatuses == {"none", "reserved", "redeemed", "released"}
\* "calling": between the two transactions; "token": payment_token is stored;
\* "closed": the request ended without a token.
CheckoutStages == {"none", "calling", "token", "closed"}
\* "queued" stands for pending and failed: both are claimed again when due.
EventStatuses == {"none", "queued", "processed"}

Items == {q \in [Variant -> 0..MaxQty] : \E v \in Variant : q[v] > 0}

\* An inventory_reservations row with its items; "none" before it is inserted.
Reservation == [st : ReservationStatuses, rev : Nat, restocked : BOOLEAN,
                key : Key \cup {NoKey}, items : [Variant -> 0..MaxQty]]

NoReservation == [st |-> "none", rev |-> 0, restocked |-> FALSE, key |-> NoKey,
                  items |-> [v \in Variant |-> 0]]

\* idempotency_key of a movement of order o's reservation.  The variant is part of the
\* code's key; all items of a reservation move in one transaction, so one key stands
\* for the keys of all of them.
Movement == MovementKinds \X Order \X Nat

Inventory == [onHand   : [Variant -> Nat],   \* product_variants.on_hand
              reserved : [Variant -> Nat],   \* product_variants.reserved
              adjusted : [Variant -> Int],   \* sum of the 'adjustment' movements
              moves    : SUBSET Movement,    \* keys in inventory_movements
              resv     : [Order -> Reservation]]

Live(red) == {o \in Order : red[o] \in {"reserved", "redeemed"}}

TypeOK ==
    /\ orders \in [Order -> OrderRow \cup {NoOrder}]
    /\ orderKey \in [Order -> Key \cup {NoKey}]
    /\ inv \in Inventory
    /\ redemption \in [Order -> RedemptionStatuses]
    /\ couponOpen \in CouponStates
    /\ checkout \in [Order -> CheckoutStages]
    /\ event \in [Order -> [st : EventStatuses, outcome : {"paid", "cancelled"}]]

-----------------------------------------------------------------------------
(* services/inventory.js *)

\* Mutant of Move: the balance check is lost.
MoveUnchecked(S, items, sOnHand, sReserved, key) ==
    IF key \in S.moves
    THEN {S}
    ELSE {[S EXCEPT !.onHand   = [v \in Variant |-> S.onHand[v] + sOnHand * items[v]],
                    !.reserved = [v \in Variant |-> S.reserved[v] + sReserved * items[v]],
                    !.moves    = S.moves \cup {key}]}

\* applyInventoryMovement for each item of a reservation, in one transaction: a key
\* already in inventory_movements moves nothing; a balance that would become negative
\* throws.  sOnHand and sReserved are the signs (-1, 0, 1) of the two deltas.
Move(S, items, sOnHand, sReserved, key) ==
    LET T == [S EXCEPT
                !.onHand   = [v \in Variant |-> S.onHand[v] + sOnHand * items[v]],
                !.reserved = [v \in Variant |-> S.reserved[v] + sReserved * items[v]],
                !.moves    = S.moves \cup {key}]
    IN IF key \in S.moves
       THEN {S}
       ELSE {U \in {T} : \A v \in Variant : items[v] > 0 =>
                            /\ U.onHand[v] >= 0
                            /\ U.reserved[v] >= 0
                            /\ U.onHand[v] - U.reserved[v] >= 0}

-----------------------------------------------------------------------------
(* services/inventoryReservations.js *)

\* createInventoryReservation: an order's reservation is inserted once; its idempotency
\* key is unique in the organization, and a clash aborts the transaction.
Reserve(S, o, items, key) ==
    IF S.resv[o].st # "none"
    THEN {S}
    ELSE IF /\ \A v \in Variant : items[v] <= S.onHand[v] - S.reserved[v]
            /\ key = NoKey \/ \A p \in Order : S.resv[p].key # key
         THEN Move([S EXCEPT !.resv[o] = [st |-> "active", rev |-> 0, restocked |-> FALSE,
                                          key |-> key, items |-> items]],
                   items, 0, 1, <<"reserve", o, 0>>)
         ELSE {}

\* consumeReservation
Consume(S, o) ==
    LET r == S.resv[o]
    IN CASE r.st = "consumed" -> {S}
         [] r.st = "active" -> Move([S EXCEPT !.resv[o].st = "consumed"],
                                    r.items, -1, -1, <<"consume", o, r.rev>>)
         [] OTHER -> {}

\* Mutant of Release: the status check is lost.
ReleaseAnyStatus(S, o, final) ==
    Move([S EXCEPT !.resv[o].st = final], S.resv[o].items, 0, -1,
         <<"release", o, S.resv[o].rev>>)

\* releaseReservation; final is "released" or "expired".
Release(S, o, final) ==
    LET r == S.resv[o]
    IN IF r.st # "active"
       THEN {S}
       ELSE Move([S EXCEPT !.resv[o].st = final], r.items, 0, -1, <<"release", o, r.rev>>)

\* Mutant of Restock: the movement's key lacks the revision.
RestockOncePerOrder(S, o) ==
    LET r == S.resv[o]
    IN IF r.st # "consumed" \/ r.restocked
       THEN {S}
       ELSE Move([S EXCEPT !.resv[o].restocked = TRUE], r.items, 1, 0, <<"restock", o, 0>>)

\* restockConsumedReservation
Restock(S, o) ==
    LET r == S.resv[o]
    IN IF r.st # "consumed" \/ r.restocked
       THEN {S}
       ELSE Move([S EXCEPT !.resv[o].restocked = TRUE], r.items, 1, 0,
                 <<"restock", o, r.rev>>)

\* Mutant of Reactivate: the revision is not advanced, so its movements' keys are used.
ReactivateSameRevision(S, o) ==
    LET r == S.resv[o]
    IN IF r.st \in {"consumed", "released", "expired"}
       THEN Move([S EXCEPT !.resv[o] = [r EXCEPT !.st = "active", !.restocked = FALSE]],
                 r.items, 0, 1, <<"reserve", o, r.rev>>)
       ELSE {S}

\* Mutant of Reactivate: restocked_at is not cleared.
ReactivateKeepsRestocked(S, o) ==
    LET r == S.resv[o]
    IN IF r.st \in {"consumed", "released", "expired"} /\ r.rev < MaxRevision
       THEN Move([S EXCEPT !.resv[o] = [r EXCEPT !.st = "active", !.rev = r.rev + 1]],
                 r.items, 0, 1, <<"reserve", o, r.rev + 1>>)
       ELSE {S}

\* reactivateReservation; MaxRevision bounds how often the model reopens an order.
Reactivate(S, o) ==
    LET r == S.resv[o]
    IN CASE r.st = "active" -> {S}
         [] r.st \in {"consumed", "released", "expired"} /\ r.rev < MaxRevision ->
              Move([S EXCEPT !.resv[o] = [r EXCEPT !.st = "active", !.rev = r.rev + 1,
                                                   !.restocked = FALSE]],
                   r.items, 0, 1, <<"reserve", o, r.rev + 1>>)
         [] OTHER -> {}

\* Mutants of TransitionOrderInventory: only a pending order's payment consumes; a
\* cancellation puts sold stock back and forgets a reservation that is still active.
ConsumePendingOnly(S, o, previous, next) ==
    IF next = "paid" /\ previous = "payment_pending" THEN Consume(S, o)
    ELSE IF next = "cancelled" /\ previous # next
    THEN UNION {Restock(T, o) : T \in Release(S, o, "released")}
    ELSE {S}

CancelRestocksOnly(S, o, previous, next) ==
    IF next = "paid" /\ previous # next THEN Consume(S, o)
    ELSE IF next = "cancelled" /\ previous # next THEN Restock(S, o)
    ELSE {S}

\* transitionOrderInventory: what a change of the legacy status does to the stock.
TransitionOrderInventory(S, o, previous, next) ==
    IF previous = next THEN {S}
    ELSE IF previous = "cancelled"
    THEN IF next = "payment_pending"
         THEN Reactivate(S, o)
         ELSE UNION {Consume(T, o) : T \in Reactivate(S, o)}
    ELSE IF next = "paid" \/ (next = "processing" /\ previous = "payment_pending")
    THEN Consume(S, o)
    ELSE IF next = "cancelled" /\ S.resv[o].st = "active"
    THEN Release(S, o, "released")
    ELSE IF next = "cancelled" /\ previous \notin {"shipped", "delivered"}
    THEN Restock(S, o)
    ELSE {S}

-----------------------------------------------------------------------------
(* services/promotionEngine.js *)

\* assertCouponUsage and validateCouponWindow, with the coupon row locked.
CouponUsable(red, o) ==
    /\ couponOpen
    /\ Cardinality(Live(red) \ {o}) < CouponLimit

\* Mutant of TransitionOrderPromotion: a reopened order gets its coupon back unchecked.
ReopenUnchecked(red, o, previous, next) ==
    IF previous = next \/ red[o] = "none" THEN {red}
    ELSE {[red EXCEPT ![o] = IF next = "cancelled" THEN "released"
                             ELSE IF next = "payment_pending" THEN "reserved" ELSE "redeemed"]}

\* transitionOrderPromotion
TransitionOrderPromotion(red, o, previous, next) ==
    IF previous = next \/ red[o] = "none" THEN {red}
    ELSE IF previous = "cancelled" /\ red[o] = "released"
    THEN IF CouponUsable(red, o)
         THEN {[red EXCEPT ![o] = IF next = "payment_pending" THEN "reserved" ELSE "redeemed"]}
         ELSE {}
    ELSE IF next = "cancelled"
    THEN {[red EXCEPT ![o] = "released"]}
    ELSE IF next \in {"paid", "processing", "new"} /\ red[o] = "reserved"
    THEN {[red EXCEPT ![o] = "redeemed"]}
    ELSE {red}

-----------------------------------------------------------------------------
(* Checkout *)

\* The order and coupon columns a checkout inserts, after findCheckoutReplay found no
\* order with the key (with one, it is returned and nothing changes), and its
\* reservation, consumed at once when `consume`.
Place(o, row, items, key, coupon, consume) ==
    /\ orders[o] = NoOrder
    /\ key = NoKey \/ \A p \in Order : orderKey[p] # key
    /\ coupon => CouponUsable(redemption, o)
    /\ \E S \in Reserve(inv, o, items, key) :
         \E T \in IF consume THEN Consume(S, o) ELSE {S} : inv' = T
    /\ orders' = [orders EXCEPT ![o] = row]
    /\ orderKey' = [orderKey EXCEPT ![o] = key]
    /\ redemption' = [redemption EXCEPT ![o] =
                        IF ~coupon THEN "none" ELSE IF consume THEN "redeemed" ELSE "reserved"]
    /\ UNCHANGED <<couponOpen, event>>

\* routes/orders.js POST /: a bank-transfer order waits with its reservation, any other
\* is taken from stock at once.
PostOrder(o) ==
    /\ "orders" \in CheckoutRoutes
    /\ \E method \in Methods, mode \in ManualModes, items \in Items,
          key \in Key \cup {NoKey}, coupon \in BOOLEAN :
         LET keepReservation == method = "iban" /\ mode = "reserve"
             status == IF keepReservation THEN "payment_pending" ELSE "new"
         IN Place(o, TriggerInsert(status, method), items, key, coupon, ~keepReservation)
    /\ UNCHANGED checkout

\* routes/payment.js /initialize, first transaction.
InitializePayment(o) ==
    /\ "initialize" \in CheckoutRoutes
    /\ \E method \in Methods, mode \in ManualModes, items \in Items,
          key \in Key \cup {NoKey}, coupon \in BOOLEAN :
         LET consume == method = "iban" /\ mode = "consume"
             pending == TriggerInsert("payment_pending", method)
         IN /\ Place(o, IF consume THEN SetStatus(pending, "new") ELSE pending,
                     items, key, coupon, consume)
            /\ checkout' = [checkout EXCEPT ![o] =
                              IF method = "iban" THEN "none" ELSE "calling"]

\* /initialize after the provider answered (or was not needed): the second transaction.
\* It writes its status whatever the row says by now.  A free order has no token.
InitializeSucceeded(o) ==
    /\ checkout[o] = "calling"
    /\ \E initial \in InitialStatuses :
         /\ IF initial = "paid"
            THEN /\ inv' \in Consume(inv, o)
                 /\ redemption' \in
                      TransitionOrderPromotion(redemption, o, "payment_pending", "paid")
                 /\ checkout' \in {[checkout EXCEPT ![o] = s] : s \in {"token", "closed"}}
            ELSE /\ UNCHANGED <<inv, redemption>>
                 /\ checkout' = [checkout EXCEPT ![o] = "token"]
         /\ orders' = [orders EXCEPT ![o] = SetStatus(@, initial)]
    /\ UNCHANGED <<orderKey, couponOpen, event>>

\* /initialize after the provider refused: the compensating transaction.
InitializeFailed(o) ==
    /\ checkout[o] = "calling"
    /\ inv' \in Release(inv, o, "released")
    /\ redemption' \in TransitionOrderPromotion(redemption, o, "payment_pending", "cancelled")
    /\ orders' = [orders EXCEPT ![o] = SetStatus(@, "cancelled")]
    /\ orderKey' = [orderKey EXCEPT ![o] = NoKey]
    /\ checkout' = [checkout EXCEPT ![o] = "closed"]
    /\ UNCHANGED <<couponOpen, event>>

\* The process stops during the provider call, or the transaction after it throws.
InitializeAborted(o) ==
    /\ checkout[o] = "calling"
    /\ checkout' = [checkout EXCEPT ![o] = "closed"]
    /\ UNCHANGED <<orders, orderKey, inv, redemption, couponOpen, event>>

-----------------------------------------------------------------------------
(* Payment callback *)

\* The provider settles the payment and calls back: the event row is inserted.  Its key
\* is the token, so repeated calls find the row and insert nothing.
CallbackArrives(o) ==
    /\ checkout[o] = "token"
    /\ event[o].st = "none"
    /\ \E outcome \in Outcomes :
         event' = [event EXCEPT ![o] = [st |-> "queued", outcome |-> outcome]]
    /\ UNCHANGED <<orders, orderKey, inv, redemption, couponOpen, checkout>>

\* resolveTerminalGuardedStatus
TerminalGuardedStatus(current, proposed) ==
    IF current \in {"paid", "cancelled"} THEN current ELSE proposed

\* processPaymentCallbackEvent, by the request or by the retry script.  When a helper
\* throws the event stays queued.  After the commit the customer is read on another
\* connection; if that fails the processed event is marked failed, so queued again.
ProcessCallback(o) ==
    /\ event[o].st = "queued"
    /\ LET current == orders[o].status
           next == TerminalGuardedStatus(current, event[o].outcome)
       IN /\ inv' \in TransitionOrderInventory(inv, o, current, next)
          /\ redemption' \in TransitionOrderPromotion(redemption, o, current, next)
          /\ orders' = [orders EXCEPT ![o] = SetStatus(@, next)]
    /\ event' \in {[event EXCEPT ![o].st = s] : s \in {"processed", "queued"}}
    /\ UNCHANGED <<orderKey, couponOpen, checkout>>

-----------------------------------------------------------------------------
(* Administrators and the expiry worker *)

\* Another transaction may touch the order now.
Reachable(o) ==
    /\ orders[o] # NoOrder
    /\ ProviderCallRaces \/ checkout[o] # "calling"

\* transitionOrderOperation
TransitionOrder(o, changes) ==
    LET row == orders[o]
        legacy == NextLegacyStatus(row, changes)
    IN /\ AcceptedChanges(row, changes)
       /\ inv' \in TransitionOrderInventory(inv, o, row.status, legacy)
       /\ redemption' \in TransitionOrderPromotion(redemption, o, row.status, legacy)
       /\ orders' = [orders EXCEPT ![o] =
                       TriggerUpdate(row, [NormalizeChanges(row, changes)
                                             EXCEPT !.status = legacy])]
       /\ UNCHANGED <<orderKey, couponOpen, checkout, event>>

\* POST /:id/transitions and POST /bulk-status: one lifecycle column.
TransitionColumn(o) ==
    /\ Reachable(o)
    /\ \/ /\ "order" \in AdminDomains
          /\ \E to \in OrderStatuses : TransitionOrder(o, [order |-> to])
       \/ /\ "payment" \in AdminDomains
          /\ \E to \in PaymentStatuses : TransitionOrder(o, [payment |-> to])
       \/ /\ "fulfillment" \in AdminDomains
          /\ \E to \in FulfillmentStatuses : TransitionOrder(o, [fulfillment |-> to])

\* PUT /:id/status: one legacy status, spread over the columns.
SetLegacyStatus(o) ==
    /\ Reachable(o)
    /\ \E status \in LegacyTargets : TransitionOrder(o, LegacyChanges(status, orders[o]))

\* PUT /:id/shipping with a tracking number; on other orders it changes no modelled column.
SetTrackingNumber(o) ==
    /\ Reachable(o)
    /\ orders[o].order = "ready_to_ship"
    /\ TransitionOrder(o, [order |-> "shipped", fulfillment |-> "shipped"])

\* Mutant of ExpireReservation: the order is left as it is.
ExpireLeavesOrder(o) ==
    /\ Reachable(o)
    /\ inv.resv[o].st = "active"
    /\ inv' \in Release(inv, o, "expired")
    /\ UNCHANGED <<orders, orderKey, redemption, couponOpen, checkout, event>>

\* expireInventoryReservations, for one of the reservations it locked: any active
\* reservation, since the model has no clock.  A batch is several of these in a row.
ExpireReservation(o) ==
    /\ Reachable(o)
    /\ inv.resv[o].st = "active"
    /\ inv' \in Release(inv, o, "expired")
    /\ orders' = [orders EXCEPT ![o] =
                    IF @.status = "payment_pending" THEN SetStatus(@, "cancelled") ELSE @]
    /\ redemption' \in TransitionOrderPromotion(redemption, o, "payment_pending", "cancelled")
    /\ UNCHANGED <<orderKey, couponOpen, checkout, event>>

\* Mutant of SetInventoryBalance: the target is written to on_hand.
SetOnHand(v) ==
    /\ \E target \in 0..MaxStock :
         /\ target # inv.onHand[v]
         /\ inv' = [inv EXCEPT !.onHand[v] = target,
                               !.adjusted[v] = @ + target - inv.onHand[v]]
    /\ UNCHANGED <<orders, orderKey, redemption, couponOpen, checkout, event>>

\* setInventoryBalance: an administrator sets the AVAILABLE stock of a variant.
SetInventoryBalance(v) ==
    /\ \E target \in 0..MaxStock :
         LET delta == target - (inv.onHand[v] - inv.reserved[v])
         IN /\ delta # 0
            /\ inv' = [inv EXCEPT !.onHand[v] = @ + delta, !.adjusted[v] = @ + delta]
    /\ UNCHANGED <<orders, orderKey, redemption, couponOpen, checkout, event>>

\* The coupon is paused, resumed, or its window opens or closes.
SetCouponOpen ==
    /\ couponOpen' \in CouponStates \ {couponOpen}
    /\ UNCHANGED <<orders, orderKey, inv, redemption, checkout, event>>

-----------------------------------------------------------------------------
Init ==
    /\ orders = [o \in Order |-> NoOrder]
    /\ orderKey = [o \in Order |-> NoKey]
    /\ inv = [onHand   |-> [v \in Variant |-> InitialStock],
              reserved |-> [v \in Variant |-> 0],
              adjusted |-> [v \in Variant |-> 0],
              moves    |-> {},
              resv     |-> [o \in Order |-> NoReservation]]
    /\ redemption = [o \in Order |-> "none"]
    /\ couponOpen = TRUE
    /\ checkout = [o \in Order |-> "none"]
    /\ event = [o \in Order |-> [st |-> "none", outcome |-> "cancelled"]]

Next ==
    \/ \E o \in Order :
         \/ PostOrder(o)
         \/ InitializePayment(o)
         \/ InitializeSucceeded(o)
         \/ InitializeFailed(o)
         \/ InitializeAborted(o)
         \/ CallbackArrives(o)
         \/ ProcessCallback(o)
         \/ TransitionColumn(o)
         \/ SetLegacyStatus(o)
         \/ SetTrackingNumber(o)
         \/ ExpireReservation(o)
    \/ \E v \in Variant : SetInventoryBalance(v)
    \/ SetCouponOpen

Spec == Init /\ [][Next]_vars

\* PM2 runs the expiry every ten minutes, and a provider call ends or its process does.
\* Nothing else is certain to happen.
Fairness ==
    \A o \in Order :
        /\ WF_vars(ExpireReservation(o))
        /\ WF_vars(InitializeSucceeded(o) \/ InitializeFailed(o) \/ InitializeAborted(o))

FairSpec == Spec /\ Fairness

\* No schedule runs the retry of the callbacks; this assumes operators who do run it.
RetriedSpec == FairSpec /\ \A o \in Order : WF_vars(ProcessCallback(o))

-----------------------------------------------------------------------------
(* Properties *)

HasStatus(o, status) == orders[o] # NoOrder /\ orders[o].status = status

\* The units of variant v in the reservations that satisfy P: one element a unit.
Units(S, v, P(_)) ==
    {u \in Order \X (1..MaxQty) : P(S.resv[u[1]]) /\ u[2] <= S.resv[u[1]].items[v]}

IsActive(r) == r.st = "active"
IsSold(r) == r.st = "consumed" /\ ~r.restocked

HeldIn(S) ==
    \A v \in Variant : S.reserved[v] = Cardinality(Units(S, v, IsActive))

BackedIn(S) ==
    \A v \in Variant : 0 <= S.reserved[v] /\ S.reserved[v] <= S.onHand[v]

\* What the movements of order o's reservation say, against its row r.
JournalOf(S, o) ==
    LET r == S.resv[o]
        has(kind, n) == <<kind, o, n>> \in S.moves
    IN /\ \A m \in S.moves : m[2] = o => m[3] <= r.rev /\ r.st # "none"
       /\ \A n \in 0..r.rev : r.st # "none" => has("reserve", n)
       /\ \A n \in 0..r.rev : n < r.rev => (has("consume", n) <=> ~has("release", n))
       /\ \A n \in 0..r.rev : has("restock", n) => has("consume", n)
       /\ has("consume", r.rev) <=> r.st = "consumed"
       /\ has("release", r.rev) <=> r.st \in {"released", "expired"}
       /\ has("restock", r.rev) <=> r.restocked

JournalIn(S) == \A o \in Order : JournalOf(S, o)

\* product_variants.reserved counts exactly the units of the active reservations: no
\* order of reservations, releases, expiries, consumptions and reopenings, and no
\* movement skipped because its key was already used, makes the counter drift.
ReservedIsHeld == HeldIn(inv)

\* No oversell: what is promised to orders never exceeds what is on hand, also when
\* cancelled orders are reopened and administrators lower the stock meanwhile.
NoOversell == BackedIn(inv)

\* The append-only journal of movements tells each reservation's story: every revision
\* was reserved once and, if it was replaced, either consumed or released; only what was
\* consumed was restocked; and the last revision's movements give the row's status.
JournalMatchesReservation == JournalIn(inv)

\* An active reservation can be settled in every state: consuming it at payment and
\* releasing it at expiry never throw for want of stock.
SettlementNeverFails ==
    \A o \in Order : inv.resv[o].st = "active" =>
        /\ Consume(inv, o) # {}
        /\ Release(inv, o, "expired") # {}

\* The shelf is explained by the orders: on_hand is the initial stock and the manual
\* adjustments less the units of the orders that stand as sold, through any number of
\* cancellations and reopenings.  (Checked where the provider refuses no payment and
\* answers before anyone else touches the order: a refusal that finds the order shipped,
\* or a failed call that finds it paid, cancels it without a restock.)
StockMatchesReservations ==
    \A v \in Variant :
        inv.onHand[v] = InitialStock + inv.adjusted[v] - Cardinality(Units(inv, v, IsSold))

\* A cancelled order holds neither stock nor a use of its coupon, whoever cancelled it:
\* expiry, callback, failed initialization or administrator.
CancelledHoldsNothing ==
    \A o \in Order : HasStatus(o, "cancelled") =>
        inv.resv[o].st # "active" /\ o \notin Live(redemption)

\* An order shown as paid has had its stock deducted.
PaidIsDeducted ==
    \A o \in Order : HasStatus(o, "paid") => inv.resv[o].st = "consumed"

\* ... and the stock has not been put back.  (Checked where nothing else touches the
\* order during the provider call: a cancellation in that window is overwritten.)
PaidStaysDeducted ==
    \A o \in Order : HasStatus(o, "paid") => IsSold(inv.resv[o])

\* The legacy column stays the projection of order_status under writers that set one of
\* them, the other, or both: JavaScript table and database trigger agree.
ColumnsAgree ==
    \A o \in Order : orders[o] # NoOrder =>
        orders[o].status = ProjectLegacyStatus(orders[o].order, orders[o].status)

\* The coupon is never in use by more orders than its limit, reopened orders included.
CouponWithinLimit == Cardinality(Live(redemption)) <= CouponLimit

\* An order does not wait for payment for ever while its stock is held for it: it is paid,
\* confirmed or cancelled, though the provider may refuse or fail, the process may stop in mid
\* checkout, an administrator may act during the call and nobody may call back.  An order that
\* the second transaction of /initialize revived after its reservation ended holds none, and
\* may wait for ever (CallbackSettles).
PendingResolves ==
    \A o \in Order :
        HasStatus(o, "payment_pending") /\ inv.resv[o].st = "active"
            ~> ~HasStatus(o, "payment_pending")

-----------------------------------------------------------------------------
(* What the repository says and the code does not do *)

\* README.md:129: when the provider calls back, the order moves to paid or cancelled.
CallbackSettles ==
    \A o \in Order : event[o].st = "queued" ~> ~HasStatus(o, "payment_pending")
=============================================================================
