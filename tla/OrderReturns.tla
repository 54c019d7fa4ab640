---------------------------- MODULE OrderReturns ----------------------------
(***************************************************************************)
(* Cancellations, returns, exchanges and refunds (modules/returns) on top  *)
(* of the orders and the stock of OrderInventory: a customer asks for      *)
(* units of an order's lines, the staff decides, inspects what came back   *)
(* and records refunds, while checkouts, administrators and the expiry     *)
(* worker go on moving the same orders.                                    *)
(*                                                                         *)
(* One action is one transaction: each locks the request or the order row  *)
(* first, and a refund and a decision lock both.  Approving a cancellation *)
(* is an administrator's transition of the order (TransitionOrder).        *)
(*                                                                         *)
(* An order line is a variant of its reservation.  Money is in cents;      *)
(* prices include their tax, so a refund adds none.                        *)
(***************************************************************************)
EXTENDS OrderInventory, Sequences, FiniteSetsExt

CONSTANTS
    RequestTypes,   \* the kinds of request customers make
    UnitPrice,      \* order_items.unit_price
    LineDiscount,   \* what the promotion took off one line
    ShippingFee,    \* orders.shipping_fee
    MaxRequests,    \* bound: return_requests rows
    MaxRefunds      \* bound: refunds rows

ASSUME ReturnsAssumption ==
    /\ RequestTypes \subseteq {"return", "exchange", "cancellation"}
    /\ UnitPrice \in Nat \ {0}
    /\ LineDiscount \in 0..UnitPrice
    /\ ShippingFee \in Nat
    /\ MaxRequests \in Nat
    /\ MaxRefunds \in Nat
ASSUME LinesAssumption == IsFiniteSet(Variant) /\ NoOrder \notin Order

VARIABLES
    requests,    \* return_requests with their return_items, in order of insertion
    refunds      \* refunds with their refund_allocations, in order of insertion

returnsVars == <<vars, requests, refunds>>

-----------------------------------------------------------------------------
(* Rows *)

Quantities == [Variant -> 0..MaxQty]

\* The statuses the code writes; the table also allows four that nothing writes.
RequestStatuses == {"requested", "approved", "rejected", "inspected", "resolved"}

ReturnRequest == [order       : Order,
                  type        : RequestTypes,
                  st          : RequestStatuses,
                  qty         : Quantities,            \* return_items.quantity
                  restocked   : Quantities,            \* return_items.restock_quantity
                  replacement : Order \cup {NoOrder}]  \* replacement_order_id

\* The most that a line and an order of MaxQty units a line may cost.
MostOfLine == UnitPrice * MaxQty
MostOfOrder == Cardinality(Variant) * MostOfLine + ShippingFee

\* A refund has succeeded when it is inserted: the only provider is the manual one.
Refund == [request : 1..MaxRequests, qty : Quantities, shipping : BOOLEAN,
           amount : 1..MostOfOrder]

OrderOfRefund(k) == requests[refunds[k].request].order

RequestsOf(o) == {r \in DOMAIN requests : requests[r].order = o}

RefundsOf(o) == {k \in DOMAIN refunds : OrderOfRefund(k) = o}

IsReplacement(o) == \E r \in DOMAIN requests : requests[r].replacement = o

\* The units of line v that the requests (refunds) with the numbers R name: one element a
\* unit.
UnitsIn(rows, R, v) == {u \in R \X (1..MaxQty) : u[2] <= rows[u[1]].qty[v]}

\* Units of a line in requests that were not rejected, and in requests that were approved.
RequestedUnits(o, v) ==
    UnitsIn(requests, {r \in RequestsOf(o) : requests[r].st # "rejected"}, v)

ApprovedUnits(o, v) ==
    UnitsIn(requests, {r \in RequestsOf(o) : requests[r].st \notin {"requested", "rejected"}}, v)

RefundedUnits(o, v) == UnitsIn(refunds, RefundsOf(o), v)

-----------------------------------------------------------------------------
(* modules/returns/refundCalculator.js *)

\* The sum of amount[x] <= most over the x in S: one element a cent.
Cents(S, most, amount) == Cardinality({c \in S \X (1..most) : c[2] <= amount[c[1]]})

\* Math.round(total * q / n)
Share(total, q, n) == (2 * total * q + n) \div (2 * n)

\* What q units of a line of n cost, less their part of the line's discount.
LineRefund(q, n) ==
    IF q = 0 THEN 0 ELSE UnitPrice * q - Min({UnitPrice * q, Share(LineDiscount, q, n)})

\* A replacement order was given away: its lines have no price and it has no total.
RequestedTotal(o, qty, shipping) ==
    IF IsReplacement(o)
    THEN 0
    ELSE Cents(Variant, MostOfLine,
               [v \in Variant |-> LineRefund(qty[v], inv.resv[o].items[v])])
           + IF shipping THEN ShippingFee ELSE 0

OrderTotal(o) ==
    IF IsReplacement(o)
    THEN 0
    ELSE Cents(Variant, MostOfLine,
               [v \in Variant |-> LET n == inv.resv[o].items[v]
                                  IN IF n = 0 THEN 0 ELSE UnitPrice * n - LineDiscount])
           + ShippingFee

RefundedTotal(o) == Cents(RefundsOf(o), MostOfOrder, [k \in RefundsOf(o) |-> refunds[k].amount])

\* Mutants of QuoteAccepted: a refund of nothing passes; the order's total is compared
\* with this refund alone.
QuoteOfNothing(o, amount) == amount <= OrderTotal(o) - RefundedTotal(o)

QuoteOfOneRefund(o, amount) == amount >= 1 /\ amount <= OrderTotal(o)

\* calculateRefundQuote returns: the amount is positive and still available.
QuoteAccepted(o, amount) == amount >= 1 /\ amount <= OrderTotal(o) - RefundedTotal(o)

-----------------------------------------------------------------------------
(* modules/returns/service.js *)

\* assertRequestEligibility.  The return window is not modelled: a request that comes too
\* late is one that is not made.
Eligible(o, type) ==
    IF type = "cancellation"
    THEN orders[o].fulfillment \in {"unfulfilled", "processing", "ready_to_ship"}
    ELSE orders[o].fulfillment = "delivered"

\* Mutant of AvailableToRequest: a decided request no longer counts.
AvailableToRequestPending(o, v) ==
    inv.resv[o].items[v]
      - Cardinality(UnitsIn(requests, {r \in RequestsOf(o) : requests[r].st = "requested"}, v))

\* What is left of a line for a new request.
AvailableToRequest(o, v) == inv.resv[o].items[v] - Cardinality(RequestedUnits(o, v))

\* createReturnRequest
CreateReturnRequest(o) ==
    /\ Len(requests) < MaxRequests
    /\ Reachable(o)
    /\ \E type \in RequestTypes, qty \in Items :
         /\ Eligible(o, type)
         /\ \A v \in Variant : qty[v] > 0 => qty[v] <= AvailableToRequest(o, v)
         /\ requests' = Append(requests,
              [order |-> o, type |-> type, st |-> "requested", qty |-> qty,
               restocked |-> [v \in Variant |-> 0], replacement |-> NoOrder])
    /\ UNCHANGED <<vars, refunds>>

\* decideReturnRequest with status rejected.
RejectReturnRequest(r) ==
    /\ requests[r].st = "requested"
    /\ requests' = [requests EXCEPT ![r].st = "rejected"]
    /\ UNCHANGED <<vars, refunds>>

\* decideReturnRequest with status approved, for a cancellation: the whole order is
\* cancelled, whatever units were asked for; an order that already is stays as it is.
ApproveCancellation(r) ==
    LET o == requests[r].order
        changes == IF orders[o].payment \in {"paid", "partially_refunded", "refunded"}
                   THEN [order |-> "cancelled", fulfillment |-> "cancelled"]
                   ELSE [order |-> "cancelled", fulfillment |-> "cancelled",
                         payment |-> "cancelled"]
    IN /\ requests[r].st = "requested"
       /\ requests[r].type = "cancellation"
       /\ Reachable(o)
       /\ \/ TransitionOrder(o, changes)
          \/ NormalizeChanges(orders[o], changes) = orders[o] /\ UNCHANGED vars
       /\ requests' = [requests EXCEPT ![r].st = "approved"]
       /\ UNCHANGED refunds

\* ... for a return or an exchange: a delivered order is marked.
MarkReturnRequested(o) ==
    IF orders[o].order = "delivered"
    THEN [orders EXCEPT ![o] = TriggerUpdate(@, [@ EXCEPT !.order = "return_requested"])]
    ELSE orders

ApproveReturn(r) ==
    /\ requests[r].st = "requested"
    /\ requests[r].type = "return"
    /\ Reachable(requests[r].order)
    /\ orders' = MarkReturnRequested(requests[r].order)
    /\ requests' = [requests EXCEPT ![r].st = "approved"]
    /\ UNCHANGED <<orderKey, inv, redemption, couponOpen, checkout, event, refunds>>

\* ... and createExchangeOrder: a replacement order, given away as paid, reserves a variant
\* for each line.  (Two lines exchanged for the same variant are left out.)
ApproveExchange(r) ==
    LET o == requests[r].order
    IN /\ requests[r].st = "requested"
       /\ requests[r].type = "exchange"
       /\ Reachable(o)
       /\ \E p \in Order, sent \in [Variant -> Variant] :
            /\ orders[p] = NoOrder
            /\ \A v, w \in Variant : sent[v] = sent[w] => v = w
            /\ inv' \in Reserve(inv, p, [v \in Variant |-> requests[r].qty[sent[v]]], NoKey)
            /\ orders' = [MarkReturnRequested(o) EXCEPT ![p] = TriggerInsert("paid", "iban")]
            /\ requests' = [requests EXCEPT ![r].st = "approved", ![r].replacement = p]
       /\ UNCHANGED <<orderKey, redemption, couponOpen, checkout, event, refunds>>

\* receiveReturnRequest: some of the units asked for are put back on the shelf.  The
\* movement's key is the request's, and a request is received once.
ReceiveReturnRequest(r) ==
    /\ requests[r].st = "approved"
    /\ \E back \in Quantities :
         /\ \A v \in Variant : back[v] <= requests[r].qty[v]
         /\ inv' = [inv EXCEPT !.onHand = [v \in Variant |-> @[v] + back[v]]]
         /\ requests' = [requests EXCEPT ![r].st = "inspected", ![r].restocked = back]
    /\ UNCHANGED <<orders, orderKey, redemption, couponOpen, checkout, event, refunds>>

\* Mutant of RefundQuantityAvailable: what was refunded before is forgotten.
QuantityOfRequest(r, v) == requests[r].qty[v]

\* What createRefund lets a request still be refunded of a line: its own units less the
\* units refunded for ANY request of the order.
RefundQuantityAvailable(r, v) ==
    requests[r].qty[v] - Cardinality(RefundedUnits(requests[r].order, v))

\* The shipping fee was not refunded yet, for any request of the order.  (Without a fee
\* nothing is recorded.)
ShippingRefundable(r) ==
    \A k \in RefundsOf(requests[r].order) : ~refunds[k].shipping

\* createRefund under a new idempotency key; under a used one it returns the refund it
\* finds.  It writes payment_status and order_status itself, from whatever they were.
CreateRefund(r) ==
    LET o == requests[r].order
    IN /\ Len(refunds) < MaxRefunds
       /\ requests[r].st \in {"approved", "inspected", "resolved"}
       /\ Reachable(o)
       /\ orders[o].payment \in {"paid", "partially_refunded"}
       /\ \E qty \in Items, shipping \in BOOLEAN :
            LET amount == RequestedTotal(o, qty, shipping)
                status == IF RefundedTotal(o) + amount >= OrderTotal(o)
                          THEN "refunded" ELSE "partially_refunded"
            IN /\ \A v \in Variant : qty[v] > 0 => qty[v] <= RefundQuantityAvailable(r, v)
               /\ shipping => ShippingRefundable(r)
               /\ QuoteAccepted(o, amount)
               /\ refunds' = Append(refunds, [request |-> r, qty |-> qty, amount |-> amount,
                                              shipping |-> shipping /\ ShippingFee > 0])
               /\ orders' = [orders EXCEPT ![o] =
                               TriggerUpdate(@, [@ EXCEPT !.payment = status,
                                                          !.order = status])]
       /\ requests' = [requests EXCEPT ![r].st = "resolved"]
       /\ UNCHANGED <<orderKey, inv, redemption, couponOpen, checkout, event>>

-----------------------------------------------------------------------------
ReturnsInit == Init /\ requests = <<>> /\ refunds = <<>>

ReturnsNext ==
    \/ Next /\ UNCHANGED <<requests, refunds>>
    \/ \E o \in Order : CreateReturnRequest(o)
    \/ \E r \in DOMAIN requests :
         \/ RejectReturnRequest(r)
         \/ ApproveCancellation(r)
         \/ ApproveReturn(r)
         \/ ApproveExchange(r)
         \/ ReceiveReturnRequest(r)
         \/ CreateRefund(r)

ReturnsSpec == ReturnsInit /\ [][ReturnsNext]_returnsVars

-----------------------------------------------------------------------------
(* Properties *)

ReturnsTypeOK ==
    /\ TypeOK
    /\ requests \in Seq(ReturnRequest)
    /\ Len(requests) <= MaxRequests
    /\ refunds \in Seq(Refund)
    /\ \A k \in DOMAIN refunds : refunds[k].request \in DOMAIN requests

\* However many requests customers make and whatever is decided about them in between, the
\* units asked back of a line never exceed the units it was ordered with.
RequestedWithinOrdered ==
    \A o \in Order, v \in Variant :
        Cardinality(RequestedUnits(o, v)) <= inv.resv[o].items[v]

\* No unit is refunded that was not approved, nor refunded twice: per line, over all
\* requests and all refunds of the order.
RefundedWithinApproved ==
    \A o \in Order, v \in Variant :
        Cardinality(RefundedUnits(o, v)) <= Cardinality(ApprovedUnits(o, v))

\* The money given back never exceeds the order's total, though each refund of a part of a
\* line rounds the line's discount anew; the shipping fee is given back once, by whichever of
\* the order's requests.
RefundedWithinPaid ==
    \A o \in Order :
        /\ orders[o] # NoOrder => RefundedTotal(o) <= OrderTotal(o)
        /\ Cardinality({k \in RefundsOf(o) : refunds[k].shipping}) <= 1

-----------------------------------------------------------------------------
(* What the repository says and the code does not do *)

\* apps/web/src/components/sections/returns-section.tsx:271: stock goes back only in the
\* step that follows the inspection; so what comes back of an order by inspection is what
\* it still stands for as sold.
RestockedByInspectionOnly ==
    \A r \in DOMAIN requests, v \in Variant :
        requests[r].restocked[v] > 0 => IsSold(inv.resv[requests[r].order])

\* modules/returns/service.js:387: a refund is refused when its quantity exceeds what was
\* approved; so the first refund of an approved request is not.
ApprovedIsRefundable ==
    \A r \in DOMAIN requests, v \in Variant :
        /\ requests[r].st \in {"approved", "inspected"}
        /\ requests[r].qty[v] > 0
        => requests[r].qty[v] <= RefundQuantityAvailable(r, v)
=============================================================================
