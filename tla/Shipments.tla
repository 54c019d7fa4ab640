------------------------------- MODULE Shipments -------------------------------
(***************************************************************************)
(* The shipments of one order of one line (modules/shipping/service.js):   *)
(* parcels, returns of parcels, and the order row whose fulfillment is     *)
(* recomputed from the parcels.                                            *)
(*                                                                         *)
(* Creating a shipment locks the order first.  Moving one locks the        *)
(* shipment, writes it, then locks the order and adds up what is committed *)
(* by then and its own write.  An administrator's cancel is such a move,   *)
(* and so is a carrier's event, whose key is stored with it: an event that *)
(* is delivered again is answered without a move (routes/shipments.js).    *)
(* One provider is configured, the manual one, which does not fail.        *)
(***************************************************************************)
EXTENDS Naturals, FiniteSetsExt, OrderLifecycle

CONSTANTS
    Shipment,         \* rows shipments may hold
    NoShipment,
    Carrier,          \* requests that move shipments at the same time
    Ordered,          \* units of the order's line
    MaxOrderChanges   \* bound: administrators' changes of the order

ASSUME ShipmentAssumption ==
    /\ NoShipment \notin Shipment
    /\ Ordered \in Nat \ {0}
    /\ MaxOrderChanges \in Nat

VARIABLES
    order,         \* the orders row
    shipments,     \* shipments and their shipment_items
    moves,         \* what each carrier request has locked and written
    orderChanges   \* changes of the order by administrators so far

shipmentVars == <<order, shipments, moves, orderChanges>>

ShipmentStatuses == {"pending", "label_ready", "shipped", "in_transit", "delivered",
                     "failed", "cancelled", "returned"}

\* TRANSITIONS
ShipmentTransitions == [
    pending     |-> {"label_ready", "shipped", "cancelled", "failed"},
    label_ready |-> {"shipped", "cancelled", "failed"},
    shipped     |-> {"in_transit", "delivered", "failed", "returned"},
    in_transit  |-> {"delivered", "failed", "returned"},
    delivered   |-> {"returned"},
    failed      |-> {"cancelled", "returned"},
    cancelled   |-> {},
    returned    |-> {}]

\* assertShipmentTransition
ShipmentMayMove(from, to) == to = from \/ to \in ShipmentTransitions[from]

NoParcel == [st |-> "none", qty |-> 0, of |-> NoShipment]
Parcels(rows) == {s \in Shipment : rows[s].st # "none" /\ rows[s].of = NoShipment}
Units(rows, S) == MapThenSumSet(LAMBDA s : rows[s].qty, S)

\* The units of the order's parcels in one of these states
Sent(rows, states) == Units(rows, {s \in Parcels(rows) : rows[s].st \in states})

\* Units that validateShipmentItems counts: all but those of cancelled and failed shipments
Allocated(rows, of) ==
    Units(rows, {s \in Shipment : /\ rows[s].st \notin {"none", "cancelled", "failed"}
                                  /\ rows[s].of = of})

Moving(s) == \E c \in Carrier : moves[c].s = s

-----------------------------------------------------------------------------
(* recomputeOrderFulfillment *)

Fulfillment(rows) ==
    LET shipped == Sent(rows, {"shipped", "in_transit", "delivered", "returned"})
        delivered == Sent(rows, {"delivered", "returned"})
        returned == Sent(rows, {"returned"})
    IN CASE returned >= Ordered -> "returned"
         [] returned < Ordered /\ delivered >= Ordered -> "delivered"
         [] delivered < Ordered /\ shipped >= Ordered -> "shipped"
         [] shipped < Ordered /\ shipped > 0 -> "processing"
         [] OTHER -> "unfulfilled"

\* The order's row after the recomputation, the trigger included.  An order nothing of which
\* is on its way keeps the statuses an earlier parcel gave it, and a cancelled or refunded
\* one its order_status.
Recomputed(row, rows) ==
    LET f == Fulfillment(rows)
        keeps == row.order \in {"cancelled", "partially_refunded", "refunded"}
        legacy == IF f = "unfulfilled" THEN row.status
                  ELSE IF f = "returned" THEN "delivered" ELSE f
        column == IF keeps \/ f \in {"unfulfilled", "returned"} THEN row.order ELSE f
    IN TriggerUpdate(row, [row EXCEPT !.status = legacy, !.order = column, !.fulfillment = f])

\* Commits shipment rows; those of a parcel with the order.
CommitRows(rows, s) ==
    /\ shipments' = rows
    /\ order' = IF rows[s].of = NoShipment THEN Recomputed(order, rows) ELSE order

-----------------------------------------------------------------------------
(* createShipment *)

\* A parcel of qty units, or a return of such of another shipment; with a tracking number
\* it is shipped at once.  The insert of a return waits for whoever moves its source.
CreateShipment(s, qty, of, tracked) ==
    /\ shipments[s] = NoParcel
    /\ order.order # "cancelled"
    /\ order.payment \in {"paid", "partially_refunded", "refunded"}
    /\ of # NoShipment => shipments[of].st # "none" /\ ~Moving(of)
    /\ LET cap == IF of = NoShipment \/ shipments[of].qty > Ordered THEN Ordered
                  ELSE shipments[of].qty
       IN qty + Allocated(shipments, of) <= cap
    /\ CommitRows([shipments EXCEPT ![s] =
                 [st |-> IF tracked THEN "shipped" ELSE "pending", qty |-> qty, of |-> of]], s)
    /\ UNCHANGED <<moves, orderChanges>>

-----------------------------------------------------------------------------
(* transitionShipment, cancelShipment *)

\* The shipment is locked, checked and written, not yet committed.
MoveShipment(c, s, to) ==
    /\ moves[c].s = NoShipment
    /\ shipments[s].st # "none" /\ ~Moving(s)
    /\ ShipmentMayMove(shipments[s].st, to)
    /\ moves' = [moves EXCEPT ![c] = [s |-> s, to |-> to]]
    /\ UNCHANGED <<order, shipments, orderChanges>>

\* Mutant of CommitMove: a parcel that failed leaves the order alone.
CommitForwardMove(c) ==
    LET m == moves[c]
        rows == [shipments EXCEPT ![m.s].st = m.to]
    IN /\ m.s # NoShipment
       /\ IF m.to = "failed" THEN shipments' = rows /\ UNCHANGED order
          ELSE CommitRows(rows, m.s)
       /\ moves' = [moves EXCEPT ![c] = [s |-> NoShipment, to |-> "pending"]]
       /\ UNCHANGED orderChanges

\* The update of the order waits for its lock; the sums are read after that.
CommitMove(c) ==
    LET m == moves[c]
    IN /\ m.s # NoShipment
       /\ CommitRows([shipments EXCEPT ![m.s].st = m.to], m.s)
       /\ moves' = [moves EXCEPT ![c] = [s |-> NoShipment, to |-> "pending"]]
       /\ UNCHANGED orderChanges

\* The transaction fails: a deadlock with a return that is created, a lost connection.
AbortMove(c) ==
    /\ moves[c].s # NoShipment
    /\ moves' = [moves EXCEPT ![c] = [s |-> NoShipment, to |-> "pending"]]
    /\ UNCHANGED <<order, shipments, orderChanges>>

-----------------------------------------------------------------------------
(* services/orderOperations.js: transitionOrder *)

\* An administrator changes one column of the order, whatever its parcels do.
ChangeOrder(changes) ==
    /\ orderChanges < MaxOrderChanges
    /\ AcceptedChanges(order, changes)
    /\ order' = TriggerUpdate(order, [NormalizeChanges(order, changes)
                                      EXCEPT !.status = NextLegacyStatus(order, changes)])
    /\ orderChanges' = orderChanges + 1
    /\ UNCHANGED <<shipments, moves>>

-----------------------------------------------------------------------------
\* The order was paid by card.
ShipmentInit ==
    /\ order = SetStatus(TriggerInsert("payment_pending", "card"), "paid")
    /\ shipments = [s \in Shipment |-> NoParcel]
    /\ moves = [c \in Carrier |-> [s |-> NoShipment, to |-> "pending"]]
    /\ orderChanges = 0

ShipmentNext ==
    \/ \E s \in Shipment, qty \in 1..Ordered, of \in Shipment \cup {NoShipment}, tracked \in BOOLEAN :
         CreateShipment(s, qty, of, tracked)
    \/ \E c \in Carrier :
         \/ \E s \in Shipment, to \in ShipmentStatuses : MoveShipment(c, s, to)
         \/ CommitMove(c) \/ AbortMove(c)
    \/ \E to \in OrderStatuses : ChangeOrder([order |-> to])
    \/ \E to \in PaymentStatuses : ChangeOrder([payment |-> to])
    \/ \E to \in FulfillmentStatuses : ChangeOrder([fulfillment |-> to])

ShipmentSpec == ShipmentInit /\ [][ShipmentNext]_shipmentVars

-----------------------------------------------------------------------------
(* Properties *)

\* Order, shipments and requests hold values their tables and the code know.
ShipmentTypeOK ==
    /\ order \in OrderRow
    /\ shipments \in [Shipment -> [st : ShipmentStatuses \cup {"none"}, qty : 0..Ordered,
                                   of : Shipment \cup {NoShipment}]]
    /\ moves \in [Carrier -> [s : Shipment \cup {NoShipment}, to : ShipmentStatuses]]
    /\ orderChanges \in 0..MaxOrderChanges

\* However parcels are created, moved, lost and returned at the same time, the order says of
\* its fulfillment what its parcels add up to, until an administrator changes the order.
\* After that it may not: a recomputation that finds fulfillment and order_status as it wants
\* them changes the legacy status alone, and the trigger derives the other two from that.
FulfilmentMatchesShipments ==
    orderChanges = 0 => order.fulfillment = Fulfillment(shipments)
=============================================================================
