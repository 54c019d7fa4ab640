--------------------------- MODULE OrderLifecycle ---------------------------
(***************************************************************************)
(* The state machines of an order row, without any variable: the three     *)
(* independent lifecycle columns (order_status, payment_status,            *)
(* fulfillment_status), the older single column `status` they are          *)
(* projected on, the API's rules for changing them                         *)
(* (services/orderOperations.js) and the database trigger that keeps the   *)
(* four columns together when a writer sets only `status`                  *)
(* (migration 044, panelya_order_operation_defaults).                      *)
(*                                                                         *)
(* An order row is the record of the columns any rule reads:               *)
(*   status      the legacy column                                         *)
(*   order, payment, fulfillment   the three lifecycle columns             *)
(*   method      payment_method, "card" or "iban"                          *)
(***************************************************************************)

Domains == {"order", "payment", "fulfillment"}

Methods == {"card", "iban"}

LegacyStatuses == {"payment_pending", "new", "paid", "processing", "shipped",
                   "delivered", "cancelled"}

\* ORDER_TRANSITIONS: the targets the API accepts for order_status.
OrderTransitions == [
    pending_payment    |-> {"confirmed", "paid", "cancelled"},
    confirmed          |-> {"paid", "processing", "cancelled"},
    paid               |-> {"processing", "cancelled", "partially_refunded", "refunded"},
    processing         |-> {"ready_to_ship", "cancelled", "partially_refunded", "refunded"},
    ready_to_ship      |-> {"processing", "shipped", "cancelled"},
    shipped            |-> {"delivered", "return_requested"},
    delivered          |-> {"return_requested", "partially_refunded", "refunded"},
    return_requested   |-> {"delivered", "partially_refunded", "refunded"},
    partially_refunded |-> {"refunded"},
    cancelled          |-> {"pending_payment", "confirmed"},
    refunded           |-> {}]

\* PAYMENT_TRANSITIONS: the targets the API accepts for payment_status.
PaymentTransitions == [
    pending            |-> {"authorized", "paid", "failed", "cancelled"},
    manual_pending     |-> {"paid", "failed", "cancelled"},
    authorized         |-> {"paid", "failed", "cancelled"},
    paid               |-> {"partially_refunded", "refunded"},
    failed             |-> {"pending", "manual_pending"},
    cancelled          |-> {"pending", "manual_pending"},
    partially_refunded |-> {"refunded"},
    refunded           |-> {}]

\* FULFILLMENT_TRANSITIONS: the targets the API accepts for fulfillment_status.
FulfillmentTransitions == [
    unfulfilled   |-> {"processing", "ready_to_ship", "cancelled"},
    processing    |-> {"ready_to_ship", "shipped", "cancelled"},
    ready_to_ship |-> {"processing", "shipped", "cancelled"},
    shipped       |-> {"delivered", "returned"},
    delivered     |-> {"returned"},
    returned      |-> {},
    cancelled     |-> {"unfulfilled"}]

OrderStatuses == {"pending_payment", "confirmed", "paid", "processing", "ready_to_ship",
                  "shipped", "delivered", "return_requested", "partially_refunded",
                  "cancelled", "refunded"}
PaymentStatuses == {"pending", "manual_pending", "authorized", "paid", "failed",
                    "cancelled", "partially_refunded", "refunded"}
FulfillmentStatuses == {"unfulfilled", "processing", "ready_to_ship", "shipped",
                        "delivered", "returned", "cancelled"}

OrderRow == [status : LegacyStatuses, order : OrderStatuses, payment : PaymentStatuses,
             fulfillment : FulfillmentStatuses, method : Methods]

-----------------------------------------------------------------------------
(* services/orderOperations.js *)

\* assertTransition: a value is kept, or moved along its domain's table.
AssertTransition(domain, from, to) ==
    \/ to = from
    \/ /\ domain = "order"
       /\ to \in OrderTransitions[from]
    \/ /\ domain = "payment"
       /\ to \in PaymentTransitions[from]
    \/ /\ domain = "fulfillment"
       /\ to \in FulfillmentTransitions[from]

\* projectLegacyStatus: the legacy status of an order_status; the three
\* statuses it does not know keep the fallback.
ProjectLegacyStatus(orderStatus, fallback) ==
    CASE orderStatus = "pending_payment" -> "payment_pending"
      [] orderStatus = "confirmed"       -> "new"
      [] orderStatus \in {"processing", "ready_to_ship"} -> "processing"
      [] orderStatus \in {"paid", "shipped", "delivered", "cancelled"} -> orderStatus
      [] OTHER -> fallback

\* A change request is a record with a field per domain it names.
Requested(row, changes, domain) ==
    IF domain \in DOMAIN changes THEN changes[domain] ELSE row[domain]

\* normalizeChanges: the three columns after the request, the others as they were.
NormalizeChanges(row, changes) ==
    [row EXCEPT !.order       = Requested(row, changes, "order"),
                !.payment     = Requested(row, changes, "payment"),
                !.fulfillment = Requested(row, changes, "fulfillment")]

\* The request is accepted: every domain makes a legal move and some column changes.
AcceptedChanges(row, changes) ==
    LET next == NormalizeChanges(row, changes)
    IN /\ AssertTransition("order", row.order, next.order)
       /\ AssertTransition("payment", row.payment, next.payment)
       /\ AssertTransition("fulfillment", row.fulfillment, next.fulfillment)
       /\ next # row

\* The legacy status the API writes with the request: only a request that names the
\* order domain moves it.
NextLegacyStatus(row, changes) ==
    IF "order" \in DOMAIN changes
    THEN ProjectLegacyStatus(changes.order, row.status)
    ELSE row.status

\* LEGACY_ACTIONS with the two adjustments of legacyChanges.
LegacyChanges(status, row) ==
    CASE status = "payment_pending" ->
           [order |-> "pending_payment", fulfillment |-> "unfulfilled",
            payment |-> IF row.method = "iban" THEN "manual_pending" ELSE "pending"]
      [] status = "new"        -> [order |-> "confirmed"]
      [] status = "paid"       -> [order |-> "paid", payment |-> "paid"]
      [] status = "processing" -> [order |-> "processing", fulfillment |-> "processing"]
      [] status = "shipped"    -> [order |-> "shipped", fulfillment |-> "shipped"]
      [] status = "delivered"  -> [order |-> "delivered", fulfillment |-> "delivered"]
      [] OTHER -> \* "cancelled"; a request that keeps the payment changes nothing more
           [order |-> "cancelled", fulfillment |-> "cancelled"]

-----------------------------------------------------------------------------
(* db/migrations/044: panelya_order_operation_defaults, a BEFORE trigger *)

\* The lifecycle columns a writer that sets only `status` gets.
DerivedColumns(row) ==
    CASE row.status = "payment_pending" ->
           [row EXCEPT !.order = "pending_payment", !.fulfillment = "unfulfilled",
                       !.payment = IF row.method = "iban" THEN "manual_pending" ELSE "pending"]
      [] row.status = "new"  -> [row EXCEPT !.order = "confirmed"]
      [] row.status = "paid" -> [row EXCEPT !.order = "paid", !.payment = "paid"]
      [] row.status = "cancelled" ->
           [row EXCEPT !.order = "cancelled", !.fulfillment = "cancelled",
                       !.payment = IF @ \in {"pending", "manual_pending", "authorized"}
                                   THEN "cancelled" ELSE @]
      [] OTHER -> \* processing, shipped, delivered
           [row EXCEPT !.order = row.status, !.fulfillment = row.status]

\* INSERT: the column defaults, then the columns derived from `status`.
TriggerInsert(status, method) ==
    DerivedColumns([status |-> status, order |-> "pending_payment", payment |-> "pending",
                    fulfillment |-> "unfulfilled", method |-> method])

\* Mutant of TriggerUpdate: the columns are derived on INSERT only.
TriggerKeepsColumns(old, new) == new

\* UPDATE: a new `status` alone derives the columns; a new order_status alone is
\* projected on `status`.
TriggerUpdate(old, new) ==
    LET columnsKept == /\ new.order = old.order
                       /\ new.payment = old.payment
                       /\ new.fulfillment = old.fulfillment
    IN IF new.status # old.status
       THEN IF columnsKept THEN DerivedColumns(new) ELSE new
       ELSE [new EXCEPT !.status = IF new.order # old.order
                                   THEN ProjectLegacyStatus(new.order, old.status)
                                   ELSE @]

\* A statement of the form `update orders set status = ...`.
SetStatus(row, status) == TriggerUpdate(row, [row EXCEPT !.status = status])
=============================================================================
