-------------------------- MODULE OrderReturnsProofs --------------------------
(***************************************************************************)
(* Theorems about OrderReturns, for every value of its constants.          *)
(*                                                                         *)
(* Orders and stock keep the invariant of OrderInventoryProofs, with the   *)
(* replacement orders as those that are paid without their stock being     *)
(* deducted.  The requests and refunds rest on it: the lines of an order   *)
(* that exists do not change, whatever is done to its stock.               *)
(***************************************************************************)
EXTENDS OrderReturns, OrderInventoryProofs, SequenceTheorems

-----------------------------------------------------------------------------
(* Counting units and cents *)

\* One element for each of the f[x], up to most, of every x in S.
Pairs(S, most, f) == {u \in S \X (1..most) : u[2] <= f[u[1]]}

LEMMA PairsFinite ==
    ASSUME NEW S, IsFiniteSet(S), NEW most \in Nat, NEW f
    PROVE  /\ IsFiniteSet(Pairs(S, most, f))
           /\ Cardinality(Pairs(S, most, f)) \in Nat
           /\ Cardinality(Pairs(S, most, f)) <= Cardinality(S) * most
<1>1. IsFiniteSet(1..most) /\ Cardinality(1..most) = most
    BY FS_Interval
<1>2. /\ IsFiniteSet(S \X (1..most))
      /\ Cardinality(S \X (1..most)) = Cardinality(S) * most
    BY <1>1, FS_Product
<1>3. Pairs(S, most, f) \in SUBSET (S \X (1..most))
    BY DEF Pairs
<1>4. /\ IsFiniteSet(Pairs(S, most, f))
      /\ Cardinality(Pairs(S, most, f)) <= Cardinality(S \X (1..most))
    BY <1>2, <1>3, FS_Subset
<1> QED
    BY <1>2, <1>4, FS_CardinalityType

\* The sets are compared like the sets that are counted.
LEMMA PairsWithin ==
    ASSUME NEW S, NEW T, S \subseteq T, IsFiniteSet(T), NEW most \in Nat, NEW f, NEW g,
           \A x \in S : f[x] = g[x]
    PROVE  Cardinality(Pairs(S, most, f)) <= Cardinality(Pairs(T, most, g))
<1>1. Pairs(S, most, f) \in SUBSET Pairs(T, most, g)
    BY DEF Pairs
<1> QED
    BY <1>1, PairsFinite, FS_Subset

LEMMA PairsEqual ==
    ASSUME NEW S, NEW most, NEW f, NEW g, \A x \in S : f[x] = g[x]
    PROVE  Pairs(S, most, f) = Pairs(S, most, g)
BY DEF Pairs

LEMMA PairsOfNothing ==
    ASSUME NEW most, NEW f
    PROVE  Cardinality(Pairs({}, most, f)) = 0
<1>1. Pairs({}, most, f) = {}
    BY DEF Pairs
<1> QED
    BY <1>1, FS_EmptySet

\* One more element adds its number.
SameOn(f, g, S) == \A y \in S : f[y] = g[y]

GrownBy(S, most, f, x, g) ==
    Cardinality(Pairs(S \cup {x}, most, g)) = Cardinality(Pairs(S, most, f)) + g[x]

LEMMA PairsAdded ==
    ASSUME NEW S, IsFiniteSet(S), NEW x, x \notin S, NEW most \in Nat, NEW f, NEW g,
           SameOn(f, g, S), g[x] \in 0..most
    PROVE  GrownBy(S, most, f, x, g)
<1> DEFINE q == g[x]
           before == Pairs(S, most, f)
           after == Pairs(S \cup {x}, most, g)
           added == {x} \X (1..q)
<1>1. q \in Nat /\ q <= most
    OBVIOUS
<1>2. IsFiniteSet(added) /\ Cardinality(added) = q
    BY <1>1, UnitsOfOne
<1>3. after = before \cup added
    <2>1. ASSUME NEW u \in after PROVE u \in before \cup added
        <3>1. CASE u[1] = x
            BY <1>1, <2>1, <3>1 DEF Pairs
        <3>2. CASE u[1] # x
            BY <2>1, <3>2 DEF Pairs, SameOn
        <3> QED
            BY <3>1, <3>2
    <2>2. ASSUME NEW u \in before PROVE u \in after
        BY <2>2 DEF Pairs, SameOn
    <2>3. ASSUME NEW u \in added PROVE u \in after
        <3>1. /\ u[1] = x /\ u[2] \in 1..q
              /\ u = <<u[1], u[2]>>
            BY <2>3
        <3>2. u[2] \in 1..most
            BY <1>1, <3>1
        <3> QED
            BY <1>1, <3>1, <3>2 DEF Pairs
    <2> QED
        BY <2>1, <2>2, <2>3
<1>4. before \cap added = {}
    BY DEF Pairs
<1>5. IsFiniteSet(before) /\ Cardinality(before) \in Nat
    BY PairsFinite
<1> HIDE DEF q, before, after, added
<1>6. Cardinality(before \cap added) = 0
    BY <1>4, FS_EmptySet
<1>7. Cardinality(before \cup added) = Cardinality(before) + Cardinality(added) - 0
    BY <1>2, <1>5, <1>6, FS_Union
<1>8. Cardinality(after) = Cardinality(before) + q
    BY <1>1, <1>2, <1>3, <1>5, <1>7
<1> QED
    BY <1>8 DEF q, before, after, GrownBy

\* The units and the cents of OrderReturns are such pairs.
QtyOf(rows, R, v) == [x \in R |-> rows[x].qty[v]]

LEMMA UnitsArePairs ==
    ASSUME NEW rows, NEW R, NEW v
    PROVE  UnitsIn(rows, R, v) = Pairs(R, MaxQty, QtyOf(rows, R, v))
BY DEF UnitsIn, Pairs, QtyOf

LEMMA CentsArePairs ==
    ASSUME NEW S, NEW most, NEW amount
    PROVE  Cents(S, most, amount) = Cardinality(Pairs(S, most, amount))
BY DEF Cents, Pairs

-----------------------------------------------------------------------------
(* Orders and their lines *)

\* An order_status that no legacy status stands for leaves the legacy status alone.
LEMMA ColumnsOnly ==
    ASSUME NEW row \in OrderRow, NEW new \in OrderRow, new.status = row.status,
           new.order \in {"return_requested", "partially_refunded", "refunded"}
    PROVE  /\ TriggerUpdate(row, new) \in OrderRow
           /\ TriggerUpdate(row, new).status = row.status
           /\ Agrees(TriggerUpdate(row, new))
<1>1. ProjectLegacyStatus(new.order, row.status) = row.status
    BY DEF ProjectLegacyStatus
<1>2. TriggerUpdate(row, new) = [new EXCEPT !.status = row.status]
    BY <1>1 DEF TriggerUpdate, OrderRow
<1>3. TriggerUpdate(row, new) = new
    BY <1>2 DEF OrderRow
<1> QED
    BY <1>1, <1>3 DEF Agrees

\* An order that exists goes on existing, with the lines it has.
OrderStays(o) ==
    orders[o] # NoOrder => /\ orders'[o] # NoOrder
                           /\ inv'.resv[o].items = inv.resv[o].items

OrdersStay == \A o \in Order : OrderStays(o)

\* A step of one order o.
LEMMA OneOrderStays ==
    ASSUME NEW o \in Order, OrderStays(o), OthersKept(inv, inv', o), NEW row,
           orders' = [orders EXCEPT ![o] = row], TypeOK
    PROVE  OrdersStay
BY DEF OrdersStay, OrderStays, OthersKept, TypeOK

\* ... that is inserted.
LEMMA PlaceStays ==
    ASSUME NEW R, FineExcept(R), NEW o \in Order, NEW row, NEW items \in ItemCounts,
           NEW key \in Key \cup {NoKey}, NEW coupon \in BOOLEAN, NEW consume \in BOOLEAN,
           Place(o, row, items, key, coupon, consume)
    PROVE  OrdersStay
<1>1. PICK S \in Reserve(inv, o, items, key) :
         \E T \in IF consume THEN Consume(S, o) ELSE {S} : inv' = T
    BY DEF Place
<1>2. Sound(S) /\ OthersKept(inv, S, o)
    BY <1>1, ReserveSound DEF FineExcept
<1>3. OthersKept(inv, inv', o)
    <2>1. CASE consume
        <3>1. inv' \in Consume(S, o)
            BY <1>1, <2>1
        <3>2. OthersKept(S, inv', o)
            BY <1>2, <3>1, ConsumeSound
        <3> QED
            BY <1>2, <3>2 DEF OthersKept
    <2>2. CASE ~consume
        BY <1>1, <1>2, <2>2
    <2> QED
        BY <2>1, <2>2
<1>4. OrderStays(o)
    BY DEF Place, OrderStays
<1> QED
    BY <1>3, <1>4, OneOrderStays DEF Place, FineExcept

\* ... whose status is set together with its stock.
LEMMA MovedStays ==
    ASSUME NEW R, FineExcept(R), NEW o \in Order, NEW row \in OrderRow,
           orders' = [orders EXCEPT ![o] = row], OthersKept(inv, inv', o),
           inv'.resv[o].items = inv.resv[o].items
    PROVE  OrdersStay
<1>1. orders'[o] = row /\ row # NoOrder
    BY NoOrderAssumption DEF FineExcept, TypeOK
<1>2. OrderStays(o)
    BY <1>1 DEF OrderStays
<1> QED
    BY <1>2, OneOrderStays DEF FineExcept

LEMMA TransitionStays ==
    ASSUME NEW R, FineExcept(R), NEW o \in Order, orders[o] # NoOrder, NEW changes,
           TransitionOrder(o, changes)
    PROVE  OrdersStay
<1> DEFINE next == NextLegacyStatus(orders[o], changes)
           row == TriggerUpdate(orders[o], [NormalizeChanges(orders[o], changes)
                                              EXCEPT !.status = next])
<1>1. orders[o] \in OrderRow
    BY DEF FineExcept, TypeOK
<1>2. row \in OrderRow
    BY <1>1, TransitionedRow DEF TransitionOrder
<1>3. /\ inv' \in TransitionOrderInventory(inv, o, orders[o].status, next)
      /\ orders' = [orders EXCEPT ![o] = row]
    BY DEF TransitionOrder
<1> HIDE DEF next, row
<1>4. OthersKept(inv, inv', o) /\ inv'.resv[o].items = inv.resv[o].items
    BY <1>3, TransitionSound DEF FineExcept
<1> QED
    BY <1>2, <1>3, <1>4, MovedStays

LEMMA NextStays == ASSUME NEW R, FineExcept(R), [Next]_vars PROVE OrdersStay
<1> USE DEF FineExcept
<1>u. \A o \in Order : OthersKept(inv, inv, o)
    BY DEF OthersKept
<1>1. ASSUME NEW o \in Order, PostOrder(o) PROVE OrdersStay
    <2>1. PICK method \in Methods, mode \in ManualModes, items \in Items,
               key \in Key \cup {NoKey}, coupon \in BOOLEAN, consume \in BOOLEAN :
             \E row : Place(o, row, items, key, coupon, consume)
        <3>1. PICK method \in Methods, mode \in ManualModes, items \in Items,
                   key \in Key \cup {NoKey}, coupon \in BOOLEAN :
                 \E row : Place(o, row, items, key, coupon,
                                ~(method = "iban" /\ mode = "reserve"))
            BY <1>1 DEF PostOrder
        <3>2. (~(method = "iban" /\ mode = "reserve")) \in BOOLEAN
            OBVIOUS
        <3> QED
            BY <3>1, <3>2
    <2>2. PICK row : Place(o, row, items, key, coupon, consume)
        BY <2>1
    <2> QED
        BY <2>2, PlaceStays DEF Items, ItemCounts
<1>2. ASSUME NEW o \in Order, InitializePayment(o) PROVE OrdersStay
    <2>1. PICK method \in Methods, mode \in ManualModes, items \in Items,
               key \in Key \cup {NoKey}, coupon \in BOOLEAN, consume \in BOOLEAN :
             \E row : Place(o, row, items, key, coupon, consume)
        BY <1>2 DEF InitializePayment
    <2>2. PICK row : Place(o, row, items, key, coupon, consume)
        BY <2>1
    <2> QED
        BY <2>2, PlaceStays DEF Items, ItemCounts
<1>3. ASSUME NEW o \in Order, InitializeSucceeded(o) PROVE OrdersStay
    <2>1. PICK initial \in InitialStatuses :
             /\ \/ inv' \in Consume(inv, o)
                \/ inv' = inv
             /\ orders' = [orders EXCEPT ![o] = SetStatus(@, initial)]
        BY <1>3 DEF InitializeSucceeded
    <2>2. orders[o] \in OrderRow
        BY <1>3 DEF InitializeSucceeded, OrderFine, TypeOK
    <2>3. SetStatus(orders[o], initial) \in OrderRow
        BY <2>2, SetStatusType, ChoicesAssumption DEF LegacyStatuses
    <2>4. OthersKept(inv, inv', o) /\ inv'.resv[o].items = inv.resv[o].items
        BY <1>u, <2>1, ConsumeSound
    <2> QED
        BY <2>1, <2>3, <2>4, MovedStays
<1>4. ASSUME NEW o \in Order, InitializeFailed(o) PROVE OrdersStay
    <2>1. orders[o] \in OrderRow
        BY <1>4 DEF InitializeFailed, OrderFine, TypeOK
    <2>2. SetStatus(orders[o], "cancelled") \in OrderRow
        BY <2>1, SetStatusType DEF LegacyStatuses
    <2>3. OthersKept(inv, inv', o) /\ inv'.resv[o].items = inv.resv[o].items
        BY <1>4, ReleaseSound DEF InitializeFailed
    <2> QED
        BY <1>4, <2>2, <2>3, MovedStays DEF InitializeFailed
<1>5. ASSUME NEW o \in Order, InitializeAborted(o) \/ CallbackArrives(o) PROVE OrdersStay
    BY <1>5 DEF InitializeAborted, CallbackArrives, OrdersStay, OrderStays
<1>6. ASSUME NEW o \in Order, ProcessCallback(o) PROVE OrdersStay
    <2> DEFINE next == TerminalGuardedStatus(orders[o].status, event[o].outcome)
    <2>1. orders[o] \in OrderRow
        BY <1>6 DEF ProcessCallback, OrderFine, TypeOK
    <2>2. next \in LegacyStatuses
        BY DEF TerminalGuardedStatus, TypeOK, LegacyStatuses
    <2>3. SetStatus(orders[o], next) \in OrderRow
        BY <2>1, <2>2, SetStatusType
    <2>4. /\ inv' \in TransitionOrderInventory(inv, o, orders[o].status, next)
          /\ orders' = [orders EXCEPT ![o] = SetStatus(orders[o], next)]
        BY <1>6 DEF ProcessCallback
    <2> HIDE DEF next
    <2>5. OthersKept(inv, inv', o) /\ inv'.resv[o].items = inv.resv[o].items
        BY <2>4, TransitionSound
    <2> QED
        BY <2>3, <2>4, <2>5, MovedStays
<1>7. ASSUME NEW o \in Order, TransitionColumn(o) PROVE OrdersStay
    BY <1>7, TransitionStays DEF TransitionColumn, Reachable
<1>8. ASSUME NEW o \in Order, SetLegacyStatus(o) PROVE OrdersStay
    BY <1>8, TransitionStays DEF SetLegacyStatus, Reachable
<1>9. ASSUME NEW o \in Order, SetTrackingNumber(o) PROVE OrdersStay
    BY <1>9, TransitionStays DEF SetTrackingNumber, Reachable
<1>10. ASSUME NEW o \in Order, ExpireReservation(o) PROVE OrdersStay
    <2> DEFINE row == IF orders[o].status = "payment_pending"
                      THEN SetStatus(orders[o], "cancelled") ELSE orders[o]
    <2>1. orders[o] \in OrderRow
        BY <1>10 DEF ExpireReservation, Reachable, TypeOK
    <2>2. row \in OrderRow
        BY <2>1, SetStatusType DEF LegacyStatuses
    <2>3. OthersKept(inv, inv', o) /\ inv'.resv[o].items = inv.resv[o].items
        BY <1>10, ReleaseSound DEF ExpireReservation
    <2>4. orders' = [orders EXCEPT ![o] = row]
        BY <1>10 DEF ExpireReservation
    <2> QED
        BY <2>2, <2>3, <2>4, MovedStays
<1>11. ASSUME NEW v \in Variant, SetInventoryBalance(v) PROVE OrdersStay
    <2>1. inv'.resv = inv.resv /\ orders' = orders
        BY <1>11 DEF SetInventoryBalance, TypeOK, Inventory
    <2> QED
        BY <2>1 DEF OrdersStay, OrderStays
<1>12. CASE SetCouponOpen \/ UNCHANGED vars
    BY <1>12 DEF SetCouponOpen, vars, OrdersStay, OrderStays
<1> QED
    BY <1>1, <1>2, <1>3, <1>4, <1>5, <1>6, <1>7, <1>8, <1>9, <1>10, <1>11, <1>12 DEF Next

\* Units put back on the shelf keep the stock sound.
LEMMA ReturnedSound ==
    ASSUME NEW S, Sound(S), NEW back \in [Variant -> Nat]
    PROVE  /\ Sound([S EXCEPT !.onHand = [v \in Variant |-> @[v] + back[v]]])
           /\ [S EXCEPT !.onHand = [v \in Variant |-> @[v] + back[v]]].resv = S.resv
<1> DEFINE T == [S EXCEPT !.onHand = [v \in Variant |-> @[v] + back[v]]]
<1>1. /\ T.onHand = [v \in Variant |-> S.onHand[v] + back[v]]
      /\ T.reserved = S.reserved /\ T.moves = S.moves /\ T.resv = S.resv
      /\ T = [onHand |-> T.onHand, reserved |-> S.reserved, adjusted |-> S.adjusted,
              moves |-> S.moves, resv |-> S.resv]
    BY DEF Sound, Inventory
<1>2. ASSUME NEW v \in Variant PROVE S.onHand[v] + back[v] \in Nat /\ S.onHand[v] \in Nat
    BY DEF Sound, Inventory
<1>3. T \in Inventory
    BY <1>1, <1>2 DEF Sound, Inventory
<1> HIDE DEF T
<1>4. BackedIn(T)
    <2>1. ASSUME NEW v \in Variant PROVE 0 <= T.reserved[v] /\ T.reserved[v] <= T.onHand[v]
        <3>1. /\ T.onHand[v] = S.onHand[v] + back[v] /\ T.reserved[v] = S.reserved[v]
              /\ 0 <= S.reserved[v] /\ S.reserved[v] <= S.onHand[v]
              /\ S.reserved[v] \in Nat /\ S.onHand[v] \in Nat /\ back[v] \in Nat
            BY <1>1 DEF Sound, BackedIn, Inventory
        <3> QED
            BY <3>1
    <2> QED
        BY <2>1 DEF BackedIn
<1>5. HeldIn(T) /\ JournalIn(T)
    BY <1>1 DEF Sound, HeldIn, Units, JournalIn, JournalOf
<1> QED
    BY <1>1, <1>3, <1>4, <1>5 DEF Sound, T


-----------------------------------------------------------------------------
(* The inductive invariant *)

Replacements == {o \in Order : IsReplacement(o)}

\* The rows are typed, and refer to rows that exist.
RowsStand ==
    /\ requests \in Seq(ReturnRequest) /\ Len(requests) <= MaxRequests
    /\ refunds \in Seq(Refund)
    /\ \A k \in DOMAIN refunds : refunds[k].request \in DOMAIN requests
    /\ \A r \in DOMAIN requests :
         /\ orders[requests[r].order] # NoOrder
         /\ requests[r].replacement # NoOrder =>
              /\ orders[requests[r].replacement] # NoOrder
              /\ requests[r].st # "requested"

ReturnsInv ==
    /\ FineExcept(Replacements)
    /\ RowsStand
    /\ RequestedWithinOrdered
    /\ RefundedWithinApproved
    /\ RefundedWithinPaid

\* The requests whose units are counted.
Asked(o) == {r \in RequestsOf(o) : requests[r].st # "rejected"}
Approved(o) == {r \in RequestsOf(o) : requests[r].st \notin {"requested", "rejected"}}

LEMMA RowsTyped ==
    ASSUME RowsStand
    PROVE  /\ DOMAIN requests = 1..Len(requests) /\ Len(requests) \in Nat
           /\ DOMAIN refunds = 1..Len(refunds) /\ Len(refunds) \in Nat
           /\ \A r \in DOMAIN requests : requests[r] \in ReturnRequest
           /\ \A k \in DOMAIN refunds : refunds[k] \in Refund
BY DEF RowsStand

\* What is counted is finite.
LEMMA RowsFinite ==
    ASSUME RowsStand, NEW o
    PROVE  /\ IsFiniteSet(Asked(o)) /\ IsFiniteSet(Approved(o)) /\ IsFiniteSet(RefundsOf(o))
<1>1. IsFiniteSet(DOMAIN requests) /\ IsFiniteSet(DOMAIN refunds)
    BY RowsTyped, FS_Interval
<1>2. Asked(o) \in SUBSET DOMAIN requests /\ Approved(o) \in SUBSET DOMAIN requests
        /\ RefundsOf(o) \in SUBSET DOMAIN refunds
    BY DEF Asked, Approved, RequestsOf, RefundsOf
<1> QED
    BY <1>1, <1>2, FS_Subset

LEMMA UnitsWithin ==
    ASSUME NEW a, NEW b, NEW S, NEW T, IsFiniteSet(T), S \subseteq T,
           \A x \in S : a[x].qty = b[x].qty, NEW v
    PROVE  Cardinality(UnitsIn(a, S, v)) <= Cardinality(UnitsIn(b, T, v))
<1>1. \A x \in S : QtyOf(a, S, v)[x] = QtyOf(b, T, v)[x]
    BY DEF QtyOf
<1>2. MaxQty \in Nat
    BY BoundsAssumption
<1> QED
    BY <1>1, <1>2, PairsWithin, UnitsArePairs

LEMMA UnitsCounted ==
    ASSUME NEW a, NEW S, IsFiniteSet(S), NEW v
    PROVE  /\ Cardinality(UnitsIn(a, S, v)) \in Nat
           /\ S = {} => Cardinality(UnitsIn(a, S, v)) = 0
<1>1. MaxQty \in Nat
    BY BoundsAssumption
<1> QED
    BY <1>1, PairsFinite, PairsOfNothing, UnitsArePairs

\* One more row adds its units.
SameQuantities(a, b, S) == \A y \in S : a[y].qty = b[y].qty

OneMoreCounted(a, b, S, x, v) ==
    Cardinality(UnitsIn(b, S \cup {x}, v)) = Cardinality(UnitsIn(a, S, v)) + b[x].qty[v]

LEMMA UnitsPlusOne ==
    ASSUME NEW a, NEW b, NEW S, IsFiniteSet(S), NEW x, x \notin S,
           SameQuantities(a, b, S), NEW v \in Variant, b[x].qty \in Quantities
    PROVE  OneMoreCounted(a, b, S, x, v)
<1> DEFINE f == QtyOf(a, S, v)
           g == QtyOf(b, S \cup {x}, v)
<1>1. /\ \A y \in S : f[y] = g[y]
      /\ g[x] = b[x].qty[v] /\ g[x] \in 0..MaxQty
    BY DEF QtyOf, Quantities, SameQuantities
<1>2. MaxQty \in Nat
    BY BoundsAssumption
<1>3. /\ UnitsIn(b, S \cup {x}, v) = Pairs(S \cup {x}, MaxQty, g)
      /\ UnitsIn(a, S, v) = Pairs(S, MaxQty, f)
    BY UnitsArePairs
<1> HIDE DEF f, g
<1>4. SameOn(f, g, S)
    BY <1>1 DEF SameOn
<1>5. g[x] \in 0..MaxQty
    BY <1>1
<1>6. GrownBy(S, MaxQty, f, x, g)
    BY <1>2, <1>4, <1>5, PairsAdded
<1> QED
    BY <1>1, <1>3, <1>6 DEF OneMoreCounted, GrownBy

-----------------------------------------------------------------------------
(* Money *)

LEMMA MostIsNat ==
    /\ MostOfLine \in Nat
    /\ Cardinality(Variant) \in Nat
    /\ Cardinality(Variant) * MostOfLine \in Nat
    /\ ShippingFee \in Nat
    /\ MostOfOrder = Cardinality(Variant) * MostOfLine + ShippingFee
    /\ MostOfOrder \in Nat
<1>1. MostOfLine \in Nat
    BY BoundsAssumption, ReturnsAssumption DEF MostOfLine
<1>2. Cardinality(Variant) \in Nat
    BY LinesAssumption, FS_CardinalityType
<1>3. ShippingFee \in Nat
    BY ReturnsAssumption
<1>4. Cardinality(Variant) * MostOfLine \in Nat
    BY <1>1, <1>2
<1> QED
    BY <1>1, <1>2, <1>3, <1>4 DEF MostOfOrder

LEMMA CentsBound ==
    ASSUME NEW S, IsFiniteSet(S), NEW most \in Nat, NEW amount
    PROVE  /\ Cents(S, most, amount) \in Nat
           /\ Cents(S, most, amount) <= Cardinality(S) * most
BY PairsFinite, CentsArePairs

LEMMA TotalsBound ==
    ASSUME NEW o
    PROVE  /\ OrderTotal(o) \in Nat /\ OrderTotal(o) <= MostOfOrder
           /\ \A qty, shipping : RequestedTotal(o, qty, shipping) \in Nat
<1>1. IsFiniteSet(Variant)
    BY LinesAssumption
<1>2. \A amount : /\ Cents(Variant, MostOfLine, amount) \in Nat
                  /\ Cents(Variant, MostOfLine, amount) <= Cardinality(Variant) * MostOfLine
    BY <1>1, MostIsNat, CentsBound
<1>3. \A qty, shipping : RequestedTotal(o, qty, shipping) \in Nat
    BY <1>2, MostIsNat DEF RequestedTotal
<1>4. CASE IsReplacement(o)
    BY <1>3, <1>4, MostIsNat DEF OrderTotal
<1>5. CASE ~IsReplacement(o)
    <2>1. PICK n \in Nat : OrderTotal(o) = n + ShippingFee /\ n <= Cardinality(Variant) * MostOfLine
        BY <1>2, <1>5 DEF OrderTotal
    <2> QED
        BY <1>3, <2>1, MostIsNat
<1> QED
    BY <1>4, <1>5

LEMMA TotalAfter == ASSUME NEW o PROVE OrderTotal(o)' \in Nat
<1>1. \A amount : Cents(Variant, MostOfLine, amount) \in Nat
    BY LinesAssumption, MostIsNat, CentsBound
<1> QED
    BY <1>1, MostIsNat DEF OrderTotal

LEMMA RefundedTotalIsNat ==
    ASSUME RowsStand, NEW o
    PROVE  RefundedTotal(o) \in Nat
BY RowsFinite, MostIsNat, CentsBound DEF RefundedTotal

-----------------------------------------------------------------------------
(* Requests go on *)

\* A step keeps what a request is for, and turns no rejected request into another and no
\* approved one back.
RequestGoesOn(r) ==
    /\ requests'[r].order = requests[r].order
    /\ requests'[r].qty = requests[r].qty
    /\ requests[r].st = "rejected" => requests'[r].st = "rejected"
    /\ requests[r].st \notin {"requested", "rejected"} =>
         requests'[r].st \notin {"requested", "rejected"}

RequestsGoOn ==
    /\ DOMAIN requests \subseteq DOMAIN requests'
    /\ \A r \in DOMAIN requests : RequestGoesOn(r)

\* An order that exists is a replacement after the step if it was before.
ReplacementsStay ==
    \A o \in Order : orders[o] # NoOrder => (IsReplacement(o)' <=> IsReplacement(o))

LEMMA RequestedGoOn ==
    ASSUME RowsStand, RequestedWithinOrdered, OrdersStay, inv' \in Inventory,
           RequestsGoOn, DOMAIN requests' = DOMAIN requests
    PROVE  RequestedWithinOrdered'
<1> SUFFICES ASSUME NEW o \in Order, NEW v \in Variant
             PROVE  Cardinality(RequestedUnits(o, v)') <= inv'.resv[o].items[v]
    BY DEF RequestedWithinOrdered
<1>1. /\ Asked(o)' \subseteq Asked(o)
      /\ \A r \in Asked(o)' : requests'[r].qty = requests[r].qty
    BY DEF Asked, RequestsOf, RequestsGoOn, RequestGoesOn
<1>2. IsFiniteSet(Asked(o))
    BY RowsFinite
<1>3. IsFiniteSet(Asked(o)')
    BY <1>1, <1>2, FS_Subset
<1>4. Cardinality(UnitsIn(requests', Asked(o)', v)) <= Cardinality(UnitsIn(requests, Asked(o), v))
    BY <1>1, <1>2, UnitsWithin
<1>5. /\ Cardinality(UnitsIn(requests', Asked(o)', v)) \in Nat
      /\ Cardinality(UnitsIn(requests, Asked(o), v)) \in Nat
    BY <1>2, <1>3, UnitsCounted
<1>6. Cardinality(UnitsIn(requests, Asked(o), v)) <= inv.resv[o].items[v]
    BY DEF RequestedWithinOrdered, RequestedUnits, Asked
<1>7. RequestedUnits(o, v)' = UnitsIn(requests', Asked(o)', v)
    BY DEF RequestedUnits, Asked
<1>8. inv'.resv[o].items[v] \in Nat
    BY BoundsAssumption DEF Inventory, Reservation
<1>9. CASE orders[o] # NoOrder
    <2>1. inv'.resv[o].items = inv.resv[o].items
        BY <1>9 DEF OrdersStay, OrderStays
    <2> QED
        BY <1>4, <1>5, <1>6, <1>7, <1>8, <2>1
<1>10. CASE orders[o] = NoOrder
    <2>1. Asked(o) = {}
        BY <1>10 DEF Asked, RequestsOf, RowsStand
    <2>2. Asked(o)' = {}
        BY <1>1, <2>1
    <2>3. Cardinality(UnitsIn(requests', Asked(o)', v)) = 0
        BY <1>3, <2>2, UnitsCounted
    <2> QED
        BY <1>7, <1>8, <2>3
<1> QED
    BY <1>9, <1>10

\* Approved units are never fewer.
LEMMA ApprovedGrow ==
    ASSUME RowsStand, RowsStand', RequestsGoOn, NEW o, NEW v
    PROVE  /\ Cardinality(ApprovedUnits(o, v)) <= Cardinality(ApprovedUnits(o, v)')
           /\ Cardinality(ApprovedUnits(o, v)) \in Nat
           /\ Cardinality(ApprovedUnits(o, v)') \in Nat
<1>1. /\ Approved(o) \subseteq Approved(o)'
      /\ \A r \in Approved(o) : requests[r].qty = requests'[r].qty
    BY DEF Approved, RequestsOf, RequestsGoOn, RequestGoesOn
<1>2. IsFiniteSet(Approved(o))
    BY RowsFinite
<1>3. IsFiniteSet(Approved(o))'
    BY RowsFinite, PTL
<1>4. /\ Cardinality(UnitsIn(requests, Approved(o), v))
           <= Cardinality(UnitsIn(requests', Approved(o)', v))
      /\ Cardinality(UnitsIn(requests, Approved(o), v)) \in Nat
      /\ Cardinality(UnitsIn(requests', Approved(o)', v)) \in Nat
    BY <1>1, <1>2, <1>3, UnitsWithin, UnitsCounted
<1>5. /\ ApprovedUnits(o, v) = UnitsIn(requests, Approved(o), v)
      /\ ApprovedUnits(o, v)' = UnitsIn(requests', Approved(o)', v)
    BY DEF ApprovedUnits, Approved
<1> QED
    BY <1>4, <1>5

\* The refunds of an order stay when no refund is made.
LEMMA RefundsStay ==
    ASSUME RowsStand, RequestsGoOn, UNCHANGED refunds, NEW o
    PROVE  RefundsOf(o)' = RefundsOf(o)
BY DEF RefundsOf, OrderOfRefund, RowsStand, RequestsGoOn, RequestGoesOn

LEMMA ApprovedGoOn ==
    ASSUME RowsStand, RowsStand', RefundedWithinApproved, RequestsGoOn, UNCHANGED refunds
    PROVE  RefundedWithinApproved'
<1> SUFFICES ASSUME NEW o \in Order, NEW v \in Variant
             PROVE  Cardinality(RefundedUnits(o, v)') <= Cardinality(ApprovedUnits(o, v)')
    BY DEF RefundedWithinApproved
<1>1. RefundedUnits(o, v)' = RefundedUnits(o, v)
    BY RefundsStay DEF RefundedUnits
<1>2. Cardinality(RefundedUnits(o, v)) \in Nat
    BY RowsFinite, UnitsCounted DEF RefundedUnits
<1>3. Cardinality(RefundedUnits(o, v)) <= Cardinality(ApprovedUnits(o, v))
    BY DEF RefundedWithinApproved
<1> QED
    BY <1>1, <1>2, <1>3, ApprovedGrow

\* The total of an order that exists stays.
LEMMA TotalStays ==
    ASSUME OrdersStay, ReplacementsStay, NEW o \in Order, orders[o] # NoOrder
    PROVE  OrderTotal(o)' = OrderTotal(o)
<1>1. inv'.resv[o].items = inv.resv[o].items /\ (IsReplacement(o)' <=> IsReplacement(o))
    BY DEF OrdersStay, OrderStays, ReplacementsStay
<1> QED
    BY <1>1 DEF OrderTotal

LEMMA PaidGoOn ==
    ASSUME RowsStand, RowsStand', RefundedWithinPaid, OrdersStay, ReplacementsStay, RequestsGoOn,
           UNCHANGED refunds
    PROVE  RefundedWithinPaid'
<1> SUFFICES ASSUME NEW o \in Order
             PROVE  /\ RefundedTotal(o)' <= OrderTotal(o)'
                    /\ Cardinality({k \in RefundsOf(o)' : refunds'[k].shipping}) <= 1
    BY DEF RefundedWithinPaid
<1>1. RefundsOf(o)' = RefundsOf(o)
    BY RefundsStay
<1>2. RefundedTotal(o)' = RefundedTotal(o)
    BY <1>1 DEF RefundedTotal
<1>3. OrderTotal(o)' \in Nat
    BY TotalAfter
<1>4. CASE orders[o] # NoOrder
    BY <1>1, <1>2, <1>4, TotalStays DEF RefundedWithinPaid
<1>5. CASE orders[o] = NoOrder
    <2>1. RefundsOf(o) = {}
        BY <1>5 DEF RefundsOf, OrderOfRefund, RowsStand
    <2>2. RefundedTotal(o) = 0
        BY <2>1, PairsOfNothing, CentsArePairs DEF RefundedTotal
    <2> QED
        BY <1>1, <1>2, <1>3, <2>2 DEF RefundedWithinPaid
<1> QED
    BY <1>4, <1>5

-----------------------------------------------------------------------------
(* Steps of one request *)

\* FineExcept speaks of the replacements of the state it is about.
LEMMA ExceptReplacements ==
    ASSUME NEW R, FineExcept(R)', \A o \in Order \cap R : o \in Replacements'
    PROVE  FineExcept(Replacements)'
BY DEF FineExcept, OrderFine

\* The row of request r may become new.
RequestMoves(r, new) ==
    /\ new.order = requests[r].order /\ new.qty = requests[r].qty
    /\ requests[r].st # "rejected" /\ new.st # "requested"
    /\ new.st = "rejected" => requests[r].st = "requested"
    /\ \/ new.replacement = requests[r].replacement
       \/ /\ requests[r].replacement = NoOrder
          /\ new.replacement \in Order
          /\ orders[new.replacement] = NoOrder /\ orders'[new.replacement] # NoOrder

LEMMA RequestMoved ==
    ASSUME RowsStand, OrdersStay, NEW r \in DOMAIN requests, NEW new \in ReturnRequest,
           requests' = [requests EXCEPT ![r] = new], RequestMoves(r, new),
           refunds' \in Seq(Refund),
           \A k \in DOMAIN refunds' : refunds'[k].request \in DOMAIN requests
    PROVE  /\ RowsStand' /\ RequestsGoOn /\ ReplacementsStay
           /\ DOMAIN requests' = DOMAIN requests
           /\ \A o \in Order : o \in Replacements \/ o = new.replacement => o \in Replacements'
<1>1. /\ DOMAIN requests' = DOMAIN requests
      /\ requests'[r] = new
      /\ \A i \in DOMAIN requests \ {r} : requests'[i] = requests[i]
    OBVIOUS
<1>2. requests' \in Seq(ReturnRequest) /\ Len(requests') = Len(requests)
    <2>1. requests \in Seq(ReturnRequest) /\ r \in 1..Len(requests)
        BY RowsTyped DEF RowsStand
    <2> QED
        BY <2>1, ExceptSeq
<1>3. \A i \in DOMAIN requests : requests[i] \in ReturnRequest
    BY RowsTyped
<1>4. ASSUME NEW i \in DOMAIN requests
      PROVE  /\ orders'[requests'[i].order] # NoOrder
             /\ requests'[i].replacement # NoOrder =>
                  /\ orders'[requests'[i].replacement] # NoOrder
                  /\ requests'[i].st # "requested"
    <2>1. /\ requests[i].order \in Order /\ requests[i].replacement \in Order \cup {NoOrder}
          /\ orders[requests[i].order] # NoOrder
          /\ requests[i].replacement # NoOrder => /\ orders[requests[i].replacement] # NoOrder
                                                  /\ requests[i].st # "requested"
        BY <1>3 DEF ReturnRequest, RowsStand
    <2>2. /\ orders'[requests[i].order] # NoOrder
          /\ requests[i].replacement # NoOrder => orders'[requests[i].replacement] # NoOrder
        BY <2>1 DEF OrdersStay, OrderStays
    <2>3. CASE i = r
        BY <1>1, <2>1, <2>2, <2>3 DEF RequestMoves
    <2>4. CASE i # r
        BY <1>1, <2>1, <2>2, <2>4
    <2> QED
        BY <2>3, <2>4
<1>5. RowsStand'
    BY <1>1, <1>2, <1>4 DEF RowsStand
<1>6. RequestsGoOn
    BY <1>1 DEF RequestsGoOn, RequestGoesOn, RequestMoves
<1>7. ASSUME NEW o \in Order, IsReplacement(o) PROVE IsReplacement(o)'
    <2>1. PICK i \in DOMAIN requests : requests[i].replacement = o
        BY <1>7 DEF IsReplacement
    <2>2. requests'[i].replacement = o
        BY <1>1, <2>1, LinesAssumption DEF RequestMoves
    <2> QED
        BY <1>1, <2>2 DEF IsReplacement
<1>8. ASSUME NEW o \in Order, orders[o] # NoOrder, IsReplacement(o)' PROVE IsReplacement(o)
    BY <1>1, <1>8 DEF IsReplacement, RequestMoves
<1>9. ReplacementsStay
    BY <1>7, <1>8 DEF ReplacementsStay
<1>10. ASSUME NEW o \in Order, o = new.replacement PROVE IsReplacement(o)'
    BY <1>1, <1>10 DEF IsReplacement
<1>11. \A o \in Order : o \in Replacements \/ o = new.replacement => o \in Replacements'
    BY <1>7, <1>10 DEF Replacements
<1> QED
    BY <1>1, <1>5, <1>6, <1>9, <1>11

\* ... without a refund; R are the orders excepted after the step.
LEMMA RequestStep ==
    ASSUME ReturnsInv, OrdersStay, NEW r \in DOMAIN requests, NEW new \in ReturnRequest,
           requests' = [requests EXCEPT ![r] = new], RequestMoves(r, new), UNCHANGED refunds,
           NEW R, FineExcept(R)', \A o \in R : o \in Replacements \/ o = new.replacement
    PROVE  ReturnsInv'
<1>1. /\ RowsStand' /\ RequestsGoOn /\ ReplacementsStay
      /\ DOMAIN requests' = DOMAIN requests
      /\ \A o \in Order : o \in Replacements \/ o = new.replacement => o \in Replacements'
    BY RequestMoved DEF ReturnsInv, RowsStand
<1>2. FineExcept(Replacements)'
    BY <1>1, ExceptReplacements
<1>3. inv' \in Inventory
    BY DEF FineExcept, TypeOK
<1>4. RequestedWithinOrdered'
    BY <1>1, <1>3, RequestedGoOn DEF ReturnsInv
<1>5. RefundedWithinApproved'
    BY <1>1, ApprovedGoOn DEF ReturnsInv
<1>6. RefundedWithinPaid'
    BY <1>1, PaidGoOn DEF ReturnsInv
<1> QED
    BY <1>1, <1>2, <1>4, <1>5, <1>6 DEF ReturnsInv

\* The row of request r with another status is one that it may become.
LEMMA StatusMoves ==
    ASSUME RowsStand, NEW r \in DOMAIN requests,
           NEW st \in RequestStatuses \ {"requested"}, requests[r].st # "rejected",
           st = "rejected" => requests[r].st = "requested"
    PROVE  /\ [requests[r] EXCEPT !.st = st] \in ReturnRequest
           /\ RequestMoves(r, [requests[r] EXCEPT !.st = st])
<1>1. requests[r] \in ReturnRequest
    BY RowsTyped
<1> QED
    BY <1>1 DEF ReturnRequest, RequestMoves

\* The orders and the stock go on as in OrderInventory.
LEMMA OrdersGoOn ==
    ASSUME ReturnsInv, NEW R, R = Replacements, [Next]_vars
    PROVE  FineExcept(R)' /\ OrdersStay
<1>1. FineExcept(R)
    BY DEF ReturnsInv
<1> QED
    BY <1>1, NextFine, NextStays

LEMMA NothingMoves ==
    ASSUME ReturnsInv, NEW R, R = Replacements, UNCHANGED vars
    PROVE  FineExcept(R)' /\ OrdersStay
BY OrdersGoOn

LEMMA NextKeepsReturns ==
    ASSUME ReturnsInv, [Next]_vars, UNCHANGED <<requests, refunds>>
    PROVE  ReturnsInv'
<1> PICK R : R = Replacements
    OBVIOUS
<1>1. FineExcept(R)' /\ OrdersStay
    BY OrdersGoOn
<1>2. \A o : IsReplacement(o)' <=> IsReplacement(o)
    BY DEF IsReplacement
<1>3. FineExcept(Replacements)'
    BY <1>1, <1>2, ExceptReplacements DEF Replacements
<1>4. RowsStand'
    <2>1. \A r \in DOMAIN requests : requests[r] \in ReturnRequest
        BY RowsTyped DEF ReturnsInv
    <2>2. ASSUME NEW r \in DOMAIN requests
          PROVE  /\ orders'[requests[r].order] # NoOrder
                 /\ requests[r].replacement # NoOrder => orders'[requests[r].replacement] # NoOrder
        BY <1>1, <2>1 DEF ReturnRequest, ReturnsInv, RowsStand, OrdersStay, OrderStays
    <2> QED
        BY <2>2 DEF ReturnsInv, RowsStand
<1>5. RequestsGoOn /\ ReplacementsStay
    BY <1>2 DEF RequestsGoOn, RequestGoesOn, ReplacementsStay
<1>6. inv' \in Inventory
    BY <1>1 DEF FineExcept, TypeOK
<1>7. RequestedWithinOrdered'
    BY <1>1, <1>5, <1>6, RequestedGoOn DEF ReturnsInv
<1>8. RefundedWithinApproved'
    BY <1>4, <1>5, ApprovedGoOn DEF ReturnsInv
<1>9. RefundedWithinPaid'
    BY <1>1, <1>4, <1>5, PaidGoOn DEF ReturnsInv
<1> QED
    BY <1>3, <1>4, <1>7, <1>8, <1>9 DEF ReturnsInv

LEMMA RejectKeepsReturns ==
    ASSUME ReturnsInv, NEW r \in DOMAIN requests, RejectReturnRequest(r)
    PROVE  ReturnsInv'
<1> PICK R : R = Replacements
    OBVIOUS
<1> DEFINE new == [requests[r] EXCEPT !.st = "rejected"]
<1>1. new \in ReturnRequest /\ RequestMoves(r, new)
    BY StatusMoves DEF ReturnsInv, RejectReturnRequest, RequestStatuses
<1>2. requests' = [requests EXCEPT ![r] = new] /\ UNCHANGED refunds
    BY DEF RejectReturnRequest
<1>3. FineExcept(R)' /\ OrdersStay
    BY NothingMoves DEF RejectReturnRequest
<1> HIDE DEF new
<1> QED
    BY <1>1, <1>2, <1>3, RequestStep

LEMMA CancellationKeepsReturns ==
    ASSUME ReturnsInv, NEW r \in DOMAIN requests, ApproveCancellation(r)
    PROVE  ReturnsInv'
<1> PICK R : R = Replacements
    OBVIOUS
<1> DEFINE new == [requests[r] EXCEPT !.st = "approved"]
           o == requests[r].order
<1>1. new \in ReturnRequest /\ RequestMoves(r, new)
    BY StatusMoves DEF ReturnsInv, ApproveCancellation, RequestStatuses
<1>2. requests' = [requests EXCEPT ![r] = new] /\ UNCHANGED refunds
    BY DEF ApproveCancellation
<1>3. o \in Order /\ orders[o] # NoOrder
    BY RowsTyped DEF ReturnsInv, RowsStand, ReturnRequest
<1>4. UNCHANGED vars \/ \E changes : TransitionOrder(o, changes)
    BY DEF ApproveCancellation
<1>5. FineExcept(R)
    BY DEF ReturnsInv
<1> HIDE DEF new, o
<1>6. FineExcept(R)' /\ OrdersStay
    <2>1. CASE UNCHANGED vars
        BY <2>1, NothingMoves
    <2>2. ASSUME NEW changes, TransitionOrder(o, changes) PROVE FineExcept(R)' /\ OrdersStay
        BY <1>3, <1>5, <2>2, TransitionOrderFine, TransitionStays
    <2> QED
        BY <1>4, <2>1, <2>2
<1> QED
    BY <1>1, <1>2, <1>6, RequestStep

\* A delivered order that is marked keeps its legacy status.
LEMMA MarkedRow ==
    ASSUME NEW R, FineExcept(R), NEW o \in Order, orders[o] # NoOrder
    PROVE  /\ MarkReturnRequested(o)[o] \in OrderRow
           /\ MarkReturnRequested(o)[o].status = orders[o].status
           /\ Agrees(MarkReturnRequested(o)[o])
           /\ MarkReturnRequested(o) = [orders EXCEPT ![o] = MarkReturnRequested(o)[o]]
           /\ MarkReturnRequested(o) \in [Order -> OrderRow \cup {NoOrder}]
           /\ \A p \in Order \ {o} : MarkReturnRequested(o)[p] = orders[p]
<1>1. orders[o] \in OrderRow /\ Agrees(orders[o]) /\ orders \in [Order -> OrderRow \cup {NoOrder}]
    BY DEF FineExcept, OrderFine, TypeOK
<1>2. CASE orders[o].order = "delivered"
    <2> DEFINE new == [orders[o] EXCEPT !.order = "return_requested"]
               row == TriggerUpdate(orders[o], new)
    <2>1. /\ new \in OrderRow /\ new.status = orders[o].status
          /\ new.order \in {"return_requested", "partially_refunded", "refunded"}
        BY <1>1 DEF OrderRow, OrderStatuses
    <2>2. MarkReturnRequested(o) = [orders EXCEPT ![o] = row]
        BY <1>2 DEF MarkReturnRequested
    <2> HIDE DEF new
    <2>3. row \in OrderRow /\ row.status = orders[o].status /\ Agrees(row)
        BY <1>1, <2>1, ColumnsOnly
    <2> HIDE DEF row
    <2> QED
        BY <1>1, <2>2, <2>3
<1>3. CASE orders[o].order # "delivered"
    <2>1. MarkReturnRequested(o) = orders
        BY <1>3 DEF MarkReturnRequested
    <2> QED
        BY <1>1, <2>1
<1> QED
    BY <1>2, <1>3

\* An order's columns are written, its status is not: nothing else is.
LEMMA ColumnsFine ==
    ASSUME NEW R, FineExcept(R), NEW o \in Order, orders[o] # NoOrder, NEW row \in OrderRow,
           row.status = orders[o].status, Agrees(row), orders' = [orders EXCEPT ![o] = row],
           UNCHANGED <<orderKey, inv, redemption, couponOpen, checkout, event>>
    PROVE  FineExcept(R)' /\ OrdersStay
<1>1. OthersKept(inv, inv', o) /\ inv'.resv[o].items = inv.resv[o].items
    BY DEF OthersKept
<1>2. OrdersStay
    BY <1>1, MovedStays
<1>3. /\ row.status = "cancelled" => inv'.resv[o].st # "active" /\ o \notin Live(redemption')
      /\ o \notin R /\ row.status = "paid" => inv'.resv[o].st = "consumed"
    BY DEF FineExcept, OrderFine, HasStatus
<1>4. /\ Sound(inv') /\ redemption' \in [Order -> RedemptionStatuses]
      /\ \A p \in Order \ {o} : redemption'[p] = redemption[p]
      /\ Cardinality(Live(redemption')) <= CouponLimit
      /\ checkout' \in [Order -> CheckoutStages]
      /\ \A p \in Order \ {o} : checkout'[p] = checkout[p]
      /\ event' \in [Order -> [st : EventStatuses, outcome : {"paid", "cancelled"}]]
      /\ \A p \in Order \ {o} : event'[p] = event[p]
      /\ orderKey' \in [Order -> Key \cup {NoKey}]
      /\ couponOpen' = couponOpen
    BY DEF FineExcept, TypeOK, CouponWithinLimit
<1> QED
    BY <1>1, <1>2, <1>3, <1>4, MovedFine

LEMMA ReturnKeepsReturns ==
    ASSUME ReturnsInv, NEW r \in DOMAIN requests, ApproveReturn(r)
    PROVE  ReturnsInv'
<1> PICK R : R = Replacements
    OBVIOUS
<1> DEFINE new == [requests[r] EXCEPT !.st = "approved"]
           o == requests[r].order
           row == MarkReturnRequested(o)[o]
<1>1. new \in ReturnRequest /\ RequestMoves(r, new)
    BY StatusMoves DEF ReturnsInv, ApproveReturn, RequestStatuses
<1>2. /\ requests' = [requests EXCEPT ![r] = new]
      /\ UNCHANGED <<orderKey, inv, redemption, couponOpen, checkout, event, refunds>>
      /\ orders' = MarkReturnRequested(o)
    BY DEF ApproveReturn
<1>3. o \in Order /\ orders[o] # NoOrder
    BY RowsTyped DEF ReturnsInv, RowsStand, ReturnRequest
<1>4. FineExcept(R)
    BY DEF ReturnsInv
<1> HIDE DEF new, o
<1>5. /\ row \in OrderRow /\ row.status = orders[o].status /\ Agrees(row)
      /\ orders' = [orders EXCEPT ![o] = row]
    BY <1>2, <1>3, <1>4, MarkedRow
<1> HIDE DEF row
<1>6. FineExcept(R)' /\ OrdersStay
    BY <1>2, <1>3, <1>4, <1>5, ColumnsFine
<1> QED
    BY <1>1, <1>2, <1>6, RequestStep

\* A replacement p is inserted as paid with its stock reserved, and order o is marked.
LEMMA ReplacementFine ==
    ASSUME NEW R, FineExcept(R), NEW o \in Order, orders[o] # NoOrder,
           NEW p \in Order, orders[p] = NoOrder, NEW items \in ItemCounts,
           inv' \in Reserve(inv, p, items, NoKey),
           orders' = [MarkReturnRequested(o) EXCEPT ![p] = TriggerInsert("paid", "iban")],
           UNCHANGED <<orderKey, redemption, couponOpen, checkout, event>>
    PROVE  /\ FineExcept(R \cup {p})' /\ OrdersStay
           /\ orders'[p] # NoOrder
<1> DEFINE row == TriggerInsert("paid", "iban")
           marked == MarkReturnRequested(o)[o]
<1>1. row \in OrderRow /\ row.status = "paid" /\ Agrees(row)
    BY TriggerInsertType DEF LegacyStatuses, Methods
<1>2. /\ marked \in OrderRow /\ marked.status = orders[o].status /\ Agrees(marked)
      /\ MarkReturnRequested(o) \in [Order -> OrderRow \cup {NoOrder}]
      /\ \A q \in Order \ {o} : MarkReturnRequested(o)[q] = orders[q]
    BY MarkedRow
<1> HIDE DEF row
<1>3. /\ orders'[p] = row /\ orders'[o] = marked
      /\ \A q \in Order \ {o, p} : orders'[q] = orders[q]
      /\ orders' \in [Order -> OrderRow \cup {NoOrder}]
    BY <1>1, <1>2 DEF row
<1> HIDE DEF marked
<1>4. Sound(inv') /\ OthersKept(inv, inv', p)
    BY ReserveSound DEF FineExcept
<1>5. orders'[p] # NoOrder /\ orders'[o] # NoOrder
    BY <1>1, <1>2, <1>3, NoOrderAssumption
<1>6. OrdersStay
    <2>1. ASSUME NEW q \in Order, orders[q] # NoOrder
          PROVE  orders'[q] # NoOrder /\ inv'.resv[q].items = inv.resv[q].items
        BY <1>3, <1>4, <1>5, <2>1 DEF OthersKept
    <2> QED
        BY <2>1 DEF OrdersStay, OrderStays
<1>7. TypeOK'
    BY <1>3, <1>4 DEF FineExcept, TypeOK, Sound
<1>8. CouponWithinLimit'
    BY DEF FineExcept, CouponWithinLimit
<1>9. ASSUME NEW q \in Order PROVE OrderFine(q, R \cup {p})'
    <2>1. CASE q = p
        BY <1>1, <1>3, <1>5, <2>1 DEF OrderFine, HasStatus
    <2>2. CASE q = o /\ q # p
        <3>1. inv'.resv[q] = inv.resv[q] /\ orders'[q] = marked
            BY <1>3, <1>4, <2>2 DEF OthersKept
        <3> QED
            BY <1>2, <1>5, <2>2, <3>1 DEF FineExcept, OrderFine, HasStatus
    <2>3. CASE q \notin {o, p}
        <3>1. inv'.resv[q] = inv.resv[q] /\ orders'[q] = orders[q]
            BY <1>3, <1>4, <2>3 DEF OthersKept
        <3> QED
            BY <2>3, <3>1 DEF FineExcept, OrderFine, HasStatus
    <2> QED
        BY <2>1, <2>2, <2>3
<1> QED
    BY <1>4, <1>5, <1>6, <1>7, <1>8, <1>9 DEF FineExcept

LEMMA ExchangeKeepsReturns ==
    ASSUME ReturnsInv, NEW r \in DOMAIN requests, ApproveExchange(r)
    PROVE  ReturnsInv'
<1> PICK R : R = Replacements
    OBVIOUS
<1> DEFINE o == requests[r].order
<1>1. PICK p \in Order, sent \in [Variant -> Variant] :
        /\ orders[p] = NoOrder
        /\ inv' \in Reserve(inv, p, [v \in Variant |-> requests[r].qty[sent[v]]], NoKey)
        /\ orders' = [MarkReturnRequested(o) EXCEPT ![p] = TriggerInsert("paid", "iban")]
        /\ requests' = [requests EXCEPT ![r].st = "approved", ![r].replacement = p]
    BY DEF ApproveExchange
<1>2. UNCHANGED <<orderKey, redemption, couponOpen, checkout, event, refunds>>
    BY DEF ApproveExchange
<1> DEFINE new == [requests[r] EXCEPT !.st = "approved", !.replacement = p]
           items == [v \in Variant |-> requests[r].qty[sent[v]]]
<1>3. requests[r] \in ReturnRequest
    BY RowsTyped DEF ReturnsInv
<1>4. o \in Order /\ orders[o] # NoOrder
    BY <1>3 DEF ReturnsInv, RowsStand, ReturnRequest
<1>5. items \in ItemCounts
    BY <1>3 DEF ReturnRequest, Quantities, ItemCounts
<1>6. new \in ReturnRequest /\ new.replacement = p
    BY <1>3 DEF ReturnRequest, RequestStatuses
<1>7. requests[r].st = "requested" /\ requests[r].replacement = NoOrder
    BY DEF ApproveExchange, ReturnsInv, RowsStand
<1>8. requests' = [requests EXCEPT ![r] = new]
    BY <1>1
<1>9. FineExcept(R)
    BY DEF ReturnsInv
<1>10. /\ FineExcept(R \cup {p})' /\ OrdersStay
       /\ orders'[p] # NoOrder
    <2> HIDE DEF o, items, new
    <2>1. inv' \in Reserve(inv, p, items, NoKey)
        BY <1>1 DEF items
    <2> QED
        BY <1>1, <1>2, <1>4, <1>5, <1>9, <2>1, ReplacementFine
<1>11. RequestMoves(r, new)
    BY <1>1, <1>3, <1>7, <1>10 DEF RequestMoves, ReturnRequest
<1> HIDE DEF new
<1>12. \A q \in R \cup {p} : q \in Replacements \/ q = new.replacement
    BY <1>6
<1> QED
    BY <1>2, <1>6, <1>8, <1>10, <1>11, <1>12, RequestStep

LEMMA ReceiveKeepsReturns ==
    ASSUME ReturnsInv, NEW r \in DOMAIN requests, ReceiveReturnRequest(r)
    PROVE  ReturnsInv'
<1> PICK R : R = Replacements
    OBVIOUS
<1>1. PICK back \in Quantities :
        /\ inv' = [inv EXCEPT !.onHand = [v \in Variant |-> @[v] + back[v]]]
        /\ requests' = [requests EXCEPT ![r].st = "inspected", ![r].restocked = back]
    BY DEF ReceiveReturnRequest
<1>2. UNCHANGED <<orders, orderKey, redemption, couponOpen, checkout, event, refunds>>
    BY DEF ReceiveReturnRequest
<1> DEFINE new == [requests[r] EXCEPT !.st = "inspected", !.restocked = back]
<1>3. requests[r] \in ReturnRequest
    BY RowsTyped DEF ReturnsInv
<1>4. new \in ReturnRequest
    BY <1>3 DEF ReturnRequest, RequestStatuses
<1>5. requests' = [requests EXCEPT ![r] = new]
    BY <1>1
<1>6. RequestMoves(r, new)
    BY <1>3 DEF RequestMoves, ReturnRequest, ReceiveReturnRequest
<1>7. FineExcept(R)
    BY DEF ReturnsInv
<1>8. back \in [Variant -> Nat]
    BY BoundsAssumption DEF Quantities
<1>9. Sound(inv') /\ inv'.resv = inv.resv
    BY <1>1, <1>7, <1>8, ReturnedSound DEF FineExcept
<1>10. OrdersStay
    BY <1>2, <1>9 DEF OrdersStay, OrderStays
<1>11. FineExcept(R)'
    <2>1. TypeOK' /\ CouponWithinLimit'
        BY <1>2, <1>7, <1>9 DEF FineExcept, TypeOK, Sound, CouponWithinLimit
    <2>2. ASSUME NEW q \in Order PROVE OrderFine(q, R)'
        BY <1>2, <1>7, <1>9 DEF FineExcept, OrderFine, HasStatus
    <2> QED
        BY <1>9, <2>1, <2>2 DEF FineExcept
<1> HIDE DEF new
<1> QED
    BY <1>2, <1>4, <1>5, <1>6, <1>10, <1>11, RequestStep

-----------------------------------------------------------------------------
(* A new request *)

LEMMA CreateKeepsReturns ==
    ASSUME ReturnsInv, NEW o \in Order, CreateReturnRequest(o)
    PROVE  ReturnsInv'
<1> PICK R : R = Replacements
    OBVIOUS
<1>1. PICK type \in RequestTypes, qty \in Items :
        /\ \A v \in Variant : qty[v] > 0 => qty[v] <= AvailableToRequest(o, v)
        /\ requests' = Append(requests,
             [order |-> o, type |-> type, st |-> "requested", qty |-> qty,
              restocked |-> [v \in Variant |-> 0], replacement |-> NoOrder])
    BY DEF CreateReturnRequest
<1>2. /\ Len(requests) < MaxRequests /\ orders[o] # NoOrder
      /\ UNCHANGED vars /\ UNCHANGED refunds
    BY DEF CreateReturnRequest, Reachable
<1> DEFINE new == [order |-> o, type |-> type, st |-> "requested", qty |-> qty,
                   restocked |-> [v \in Variant |-> 0], replacement |-> NoOrder]
           n == Len(requests) + 1
<1>3. qty \in Quantities /\ new \in ReturnRequest
    BY BoundsAssumption DEF Items, Quantities, ReturnRequest, RequestStatuses
<1>4. /\ new.order = o /\ new.qty = qty /\ new.st = "requested" /\ new.replacement = NoOrder
      /\ requests' = Append(requests, new)
    BY <1>1
<1> HIDE DEF new
<1>5. /\ requests \in Seq(ReturnRequest) /\ Len(requests) \in Nat /\ MaxRequests \in Nat
      /\ DOMAIN requests = 1..Len(requests)
      /\ \A r \in DOMAIN requests : requests[r] \in ReturnRequest
    BY RowsTyped, ReturnsAssumption DEF ReturnsInv, RowsStand
<1>6. /\ requests' \in Seq(ReturnRequest) /\ Len(requests') = n /\ requests'[n] = new
      /\ \A r \in 1..Len(requests) : requests'[r] = requests[r]
    BY <1>3, <1>4, <1>5, AppendProperties
<1>7. /\ DOMAIN requests' = DOMAIN requests \cup {n} /\ n \notin DOMAIN requests
      /\ n <= MaxRequests
    BY <1>2, <1>5, <1>6
<1> HIDE DEF n
<1>8. FineExcept(R)' /\ OrdersStay
    BY <1>2, NothingMoves
<1>9. RequestsGoOn
    BY <1>5, <1>6, <1>7 DEF RequestsGoOn, RequestGoesOn
<1>10. \A p \in Order : IsReplacement(p)' <=> IsReplacement(p)
    BY <1>4, <1>5, <1>6, <1>7, LinesAssumption DEF IsReplacement
<1>11. ReplacementsStay
    BY <1>10 DEF ReplacementsStay
<1>12. FineExcept(Replacements)'
    BY <1>8, <1>10, ExceptReplacements DEF Replacements
<1>13. RowsStand'
    BY <1>2, <1>4, <1>5, <1>6, <1>7 DEF ReturnsInv, RowsStand, vars
<1>14. RefundedWithinApproved' /\ RefundedWithinPaid'
    BY <1>2, <1>8, <1>9, <1>11, <1>13, ApprovedGoOn, PaidGoOn DEF ReturnsInv
<1>15. ASSUME NEW p \in Order, NEW v \in Variant
       PROVE  Cardinality(RequestedUnits(p, v)') <= inv'.resv[p].items[v]
    <2>1. inv' = inv /\ inv.resv[p].items[v] \in Nat
        BY <1>2, BoundsAssumption
        DEF vars, ReturnsInv, FineExcept, TypeOK, Inventory, Reservation
    <2>2. IsFiniteSet(Asked(p)) /\ Asked(p) \subseteq DOMAIN requests
        BY RowsFinite DEF ReturnsInv, Asked, RequestsOf
    <2>3. /\ RequestedUnits(p, v) = UnitsIn(requests, Asked(p), v)
          /\ RequestedUnits(p, v)' = UnitsIn(requests', Asked(p)', v)
        BY DEF RequestedUnits, Asked
    <2>4. /\ Cardinality(UnitsIn(requests, Asked(p), v)) <= inv.resv[p].items[v]
          /\ Cardinality(UnitsIn(requests, Asked(p), v)) \in Nat
        BY <2>2, <2>3, UnitsCounted DEF ReturnsInv, RequestedWithinOrdered
    <2>5. \A r \in Asked(p) : requests[r].qty = requests'[r].qty
        BY <1>5, <1>6, <2>2
    <2>6. CASE p # o
        <3>1. Asked(p)' = Asked(p)
            BY <1>4, <1>5, <1>6, <1>7, <2>6 DEF Asked, RequestsOf
        <3>2. Cardinality(UnitsIn(requests', Asked(p)', v))
                <= Cardinality(UnitsIn(requests, Asked(p), v))
            BY <2>2, <2>5, <3>1, UnitsWithin
        <3>3. Cardinality(UnitsIn(requests', Asked(p)', v)) \in Nat
            BY <2>2, <3>1, UnitsCounted
        <3> QED
            BY <2>1, <2>3, <2>4, <3>2, <3>3
    <2>7. CASE p = o
        <3>1. Asked(p)' = Asked(p) \cup {n} /\ n \notin Asked(p)
            BY <1>4, <1>5, <1>6, <1>7, <2>7 DEF Asked, RequestsOf
        <3>2. requests'[n].qty = qty
            BY <1>4, <1>6
        <3>3. Cardinality(UnitsIn(requests', Asked(p) \cup {n}, v))
                = Cardinality(UnitsIn(requests, Asked(p), v)) + qty[v]
            <4>1. requests'[n].qty \in Quantities
                BY <1>3, <3>2
            <4>2. n \notin Asked(p) /\ IsFiniteSet(Asked(p))
                BY <2>2, <3>1
            <4>3. SameQuantities(requests, requests', Asked(p))
                BY <2>5 DEF SameQuantities
            <4>4. OneMoreCounted(requests, requests', Asked(p), n, v)
                BY <4>1, <4>2, <4>3, UnitsPlusOne
            <4> QED
                BY <3>2, <4>4 DEF OneMoreCounted
        <3>4. qty[v] \in Nat
            BY <1>3, BoundsAssumption DEF Quantities
        <3>5. qty[v] > 0 =>
                qty[v] <= inv.resv[p].items[v] - Cardinality(UnitsIn(requests, Asked(p), v))
            BY <1>1, <2>3, <2>7 DEF AvailableToRequest
        <3> QED
            BY <2>1, <2>3, <2>4, <3>1, <3>3, <3>4, <3>5
    <2> QED
        BY <2>6, <2>7
<1> QED
    BY <1>12, <1>13, <1>14, <1>15 DEF ReturnsInv, RequestedWithinOrdered

-----------------------------------------------------------------------------
(* A new refund *)

Numbered(k, o, r) == IF o = requests[r].order THEN {k} ELSE {}

\* It is counted with its request's order.
LEMMA RefundMade ==
    ASSUME RowsStand, RequestsGoOn, NEW r \in DOMAIN requests, NEW new \in Refund,
           new.request = r, refunds' = Append(refunds, new), NEW o
    PROVE  /\ RefundsOf(o)' = RefundsOf(o) \cup Numbered(Len(refunds) + 1, o, r)
           /\ Len(refunds) + 1 \notin RefundsOf(o)
           /\ refunds'[Len(refunds) + 1] = new
           /\ \A k \in RefundsOf(o) : refunds'[k] = refunds[k]
<1> PICK n : n = Len(refunds) + 1
    OBVIOUS
<1>1. /\ refunds \in Seq(Refund) /\ Len(refunds) \in Nat /\ DOMAIN refunds = 1..Len(refunds)
    BY RowsTyped DEF RowsStand
<1>2. /\ refunds' \in Seq(Refund) /\ Len(refunds') = n /\ refunds'[n] = new
      /\ \A k \in 1..Len(refunds) : refunds'[k] = refunds[k]
    BY <1>1, AppendProperties
<1>3. DOMAIN refunds' = DOMAIN refunds \cup {n} /\ n \notin DOMAIN refunds
    BY <1>1, <1>2
<1>4. OrderOfRefund(n)' = requests[r].order
    <2>1. refunds'[n].request = r
        BY <1>2
    <2>2. requests'[r].order = requests[r].order
        BY DEF RequestsGoOn, RequestGoesOn
    <2> QED
        BY <2>1, <2>2 DEF OrderOfRefund
<1>5. \A k \in DOMAIN refunds : OrderOfRefund(k)' = OrderOfRefund(k)
    BY <1>1, <1>2 DEF OrderOfRefund, RowsStand, RequestsGoOn, RequestGoesOn
<1>6. RefundsOf(o)' = RefundsOf(o) \cup Numbered(n, o, r)
    <2>1. RefundsOf(o)' = {k \in DOMAIN refunds' : OrderOfRefund(k)' = o}
        BY DEF RefundsOf
    <2> QED
        BY <1>3, <1>4, <1>5, <2>1 DEF RefundsOf, Numbered
<1>7. n \notin RefundsOf(o) /\ \A k \in RefundsOf(o) : refunds'[k] = refunds[k]
    BY <1>1, <1>2, <1>3 DEF RefundsOf
<1> QED
    BY <1>2, <1>6, <1>7

\* The units of one approved request are among the approved units of its order.
LEMMA ApprovedOfRequest ==
    ASSUME RowsStand, NEW o, NEW r \in Approved(o), NEW v \in Variant
    PROVE  /\ requests[r].qty[v] \in Nat
           /\ requests[r].qty[v] <= Cardinality(ApprovedUnits(o, v))
           /\ Cardinality(ApprovedUnits(o, v)) \in Nat
<1>1. requests[r].qty \in Quantities
    BY RowsTyped DEF Approved, RequestsOf, ReturnRequest
<1>2. requests[r].qty[v] \in Nat
    BY <1>1, BoundsAssumption DEF Quantities
<1>3. IsFiniteSet({}) /\ r \notin {}
    BY FS_EmptySet
<1>4. OneMoreCounted(requests, requests, {}, r, v)
    BY <1>1, <1>3, UnitsPlusOne DEF SameQuantities
<1>5. Cardinality(UnitsIn(requests, {}, v)) = 0
    BY <1>3, UnitsCounted
<1>6. {} \cup {r} = {r}
    OBVIOUS
<1>7. Cardinality(UnitsIn(requests, {r}, v)) = requests[r].qty[v]
    BY <1>2, <1>4, <1>5, <1>6 DEF OneMoreCounted
<1>8. {r} \subseteq Approved(o) /\ IsFiniteSet(Approved(o))
    BY RowsFinite
<1>9. Cardinality(UnitsIn(requests, {r}, v)) <= Cardinality(UnitsIn(requests, Approved(o), v))
    BY <1>8, UnitsWithin
<1>10. /\ ApprovedUnits(o, v) = UnitsIn(requests, Approved(o), v)
       /\ Cardinality(UnitsIn(requests, Approved(o), v)) \in Nat
    BY <1>8, UnitsCounted DEF ApprovedUnits, Approved
<1> QED
    BY <1>2, <1>7, <1>9, <1>10

\* What createRefund checked of the units is enough for them.
LEMMA RefundKeepsUnits ==
    ASSUME RowsStand, RowsStand', RefundedWithinApproved, RequestsGoOn,
           NEW r \in DOMAIN requests, requests[r].st \notin {"requested", "rejected"},
           NEW new \in Refund, new.request = r, refunds' = Append(refunds, new),
           \A v \in Variant : new.qty[v] > 0 => new.qty[v] <= RefundQuantityAvailable(r, v)
    PROVE  RefundedWithinApproved'
<1> SUFFICES ASSUME NEW o \in Order, NEW v \in Variant
             PROVE  Cardinality(RefundedUnits(o, v)') <= Cardinality(ApprovedUnits(o, v)')
    BY DEF RefundedWithinApproved
<1> DEFINE n == Len(refunds) + 1
           before == UnitsIn(refunds, RefundsOf(o), v)
           after == UnitsIn(refunds', RefundsOf(o)', v)
<1>1. /\ RefundsOf(o)' = RefundsOf(o) \cup Numbered(n, o, r) /\ n \notin RefundsOf(o)
      /\ refunds'[n] = new
      /\ \A k \in RefundsOf(o) : refunds[k] = refunds'[k]
    BY RefundMade
<1>2. IsFiniteSet(RefundsOf(o)) /\ Cardinality(before) \in Nat
    BY RowsFinite, UnitsCounted
<1>3. RefundedUnits(o, v) = before /\ RefundedUnits(o, v)' = after
    BY DEF RefundedUnits
<1>4. Cardinality(before) <= Cardinality(ApprovedUnits(o, v))
    BY <1>3 DEF RefundedWithinApproved
<1>5. /\ Cardinality(ApprovedUnits(o, v)) <= Cardinality(ApprovedUnits(o, v)')
      /\ Cardinality(ApprovedUnits(o, v)) \in Nat /\ Cardinality(ApprovedUnits(o, v)') \in Nat
    BY ApprovedGrow
<1>6. CASE o # requests[r].order
    <2>1. RefundsOf(o)' = RefundsOf(o)
        BY <1>1, <1>6 DEF Numbered
    <2>2. Cardinality(after) <= Cardinality(before) /\ Cardinality(after) \in Nat
        BY <1>1, <1>2, <2>1, UnitsWithin, UnitsCounted
    <2> QED
        BY <1>2, <1>3, <1>4, <1>5, <2>2
<1>7. CASE o = requests[r].order
    <2>1. RefundsOf(o)' = RefundsOf(o) \cup {n}
        BY <1>1, <1>7 DEF Numbered
    <2>2. new.qty \in Quantities /\ refunds'[n].qty \in Quantities
        BY <1>1 DEF Refund
    <2>3. new.qty[v] \in Nat
        BY <2>2, BoundsAssumption DEF Quantities
    <2> HIDE DEF n
    <2>4. OneMoreCounted(refunds, refunds', RefundsOf(o), n, v)
        <3>1. SameQuantities(refunds, refunds', RefundsOf(o))
            BY <1>1 DEF SameQuantities
        <3> QED
            BY <1>1, <1>2, <2>2, <3>1, UnitsPlusOne
    <2>5. Cardinality(after) = Cardinality(before) + new.qty[v]
        BY <1>1, <2>1, <2>4 DEF OneMoreCounted
    <2>6. r \in Approved(o)
        BY <1>7 DEF Approved, RequestsOf
    <2>7. requests[r].qty[v] \in Nat /\ requests[r].qty[v] <= Cardinality(ApprovedUnits(o, v))
        BY <2>6, ApprovedOfRequest
    <2>8. new.qty[v] > 0 => new.qty[v] <= requests[r].qty[v] - Cardinality(before)
        BY <1>3, <1>7 DEF RefundQuantityAvailable
    <2> QED
        BY <1>2, <1>3, <1>4, <1>5, <2>3, <2>5, <2>7, <2>8
<1> QED
    BY <1>6, <1>7

\* ... and what it checked of the money for that.
LEMMA RefundKeepsMoney ==
    ASSUME RowsStand, RowsStand', RefundedWithinPaid, RequestsGoOn, OrdersStay, ReplacementsStay,
           NEW r \in DOMAIN requests,
           NEW new \in Refund, new.request = r, refunds' = Append(refunds, new),
           QuoteAccepted(requests[r].order, new.amount),
           new.shipping => ShippingRefundable(r)
    PROVE  RefundedWithinPaid'
<1> SUFFICES ASSUME NEW o \in Order
             PROVE  /\ orders'[o] # NoOrder => RefundedTotal(o)' <= OrderTotal(o)'
                    /\ Cardinality({k \in RefundsOf(o)' : refunds'[k].shipping}) <= 1
    BY DEF RefundedWithinPaid
<1> DEFINE n == Len(refunds) + 1
           f == [k \in RefundsOf(o) |-> refunds[k].amount]
           g == [k \in RefundsOf(o)' |-> refunds'[k].amount]
           ships == {k \in RefundsOf(o) : refunds[k].shipping}
<1>1. /\ RefundsOf(o)' = RefundsOf(o) \cup Numbered(n, o, r) /\ n \notin RefundsOf(o)
      /\ refunds'[n] = new
      /\ \A k \in RefundsOf(o) : refunds'[k] = refunds[k]
    BY RefundMade
<1>2. IsFiniteSet(RefundsOf(o)) /\ RefundedTotal(o) \in Nat
    BY RowsFinite, RefundedTotalIsNat
<1>3. OrderTotal(o) \in Nat
    BY TotalsBound
<1>4. /\ RefundedTotal(o) = Cardinality(Pairs(RefundsOf(o), MostOfOrder, f))
      /\ RefundedTotal(o)' = Cardinality(Pairs(RefundsOf(o)', MostOfOrder, g))
    <2>1. RefundedTotal(o)' = Cents(RefundsOf(o)', MostOfOrder, g)
        BY DEF RefundedTotal, MostOfOrder, MostOfLine
    <2>2. RefundedTotal(o) = Cents(RefundsOf(o), MostOfOrder, f)
        BY DEF RefundedTotal
    <2> QED
        BY <2>1, <2>2, CentsArePairs
<1>5. Cardinality(ships) <= 1
    BY DEF RefundedWithinPaid
<1>6. CASE o # requests[r].order
    <2>1. RefundsOf(o)' = RefundsOf(o)
        BY <1>1, <1>6 DEF Numbered
    <2>2. \A k \in RefundsOf(o) : g[k] = f[k]
        BY <1>1, <2>1
    <2>3. {k \in RefundsOf(o)' : refunds'[k].shipping} = ships
        BY <1>1, <2>1
    <2> HIDE DEF f, g
    <2>4. RefundedTotal(o)' = RefundedTotal(o)
        BY <1>4, <2>1, <2>2, PairsEqual
    <2>5. CASE orders[o] # NoOrder
        BY <1>5, <2>3, <2>4, <2>5, TotalStays DEF RefundedWithinPaid
    <2>6. CASE orders[o] = NoOrder
        <3>1. RefundsOf(o) = {}
            BY <2>6 DEF RefundsOf, OrderOfRefund, RowsStand
        <3>2. RefundedTotal(o) = 0
            BY <3>1, <1>4, PairsOfNothing
        <3>3. OrderTotal(o)' \in Nat
            BY TotalAfter
        <3>4. RefundedTotal(o)' <= OrderTotal(o)'
            BY <2>4, <3>2, <3>3
        <3>5. Cardinality({k \in RefundsOf(o)' : refunds'[k].shipping}) <= 1
            BY <1>5, <2>3
        <3> QED
            BY <3>4, <3>5
    <2> QED
        BY <2>5, <2>6
<1>7. CASE o = requests[r].order
    <2>1. RefundsOf(o)' = RefundsOf(o) \cup {n}
        BY <1>1, <1>7 DEF Numbered
    <2>2. /\ \A k \in RefundsOf(o) : f[k] = g[k]
          /\ g[n] = new.amount
        BY <1>1, <2>1
    <2>3. new.amount \in 1..MostOfOrder /\ MostOfOrder \in Nat
        BY MostIsNat DEF Refund
    <2>4. orders[o] # NoOrder
        BY <1>7 DEF RowsStand
    <2>5. {k \in RefundsOf(o)' : refunds'[k].shipping}
            = ships \cup (IF new.shipping THEN {n} ELSE {})
        BY <1>1, <2>1
    <2>6. new.shipping => ships = {}
        BY <1>7 DEF ShippingRefundable
    <2> HIDE DEF f, g, n, ships
    <2>7. g[n] \in 0..MostOfOrder
        BY <2>2, <2>3
    <2>8. GrownBy(RefundsOf(o), MostOfOrder, f, n, g)
        <3>1. SameOn(f, g, RefundsOf(o))
            BY <2>2 DEF SameOn
        <3> QED
            BY <1>1, <1>2, <2>3, <2>7, <3>1, PairsAdded
    <2>9. RefundedTotal(o)' = RefundedTotal(o) + new.amount
        BY <1>4, <2>1, <2>2, <2>8 DEF GrownBy
    <2>10. new.amount <= OrderTotal(o) - RefundedTotal(o)
        BY <1>7 DEF QuoteAccepted
    <2>11. RefundedTotal(o)' <= OrderTotal(o)'
        BY <1>2, <1>3, <2>3, <2>4, <2>9, <2>10, TotalStays
    <2>12. Cardinality({k \in RefundsOf(o)' : refunds'[k].shipping}) <= 1
        <3> DEFINE now == {k \in RefundsOf(o)' : refunds'[k].shipping}
        <3>1. now = ships \cup (IF new.shipping THEN {n} ELSE {})
            BY <2>5
        <3> HIDE DEF now
        <3>2. ASSUME new.shipping PROVE Cardinality(now) <= 1
            <4>1. now = {n}
                BY <2>6, <3>1, <3>2
            <4>2. Cardinality({n}) = 1
                BY FS_Singleton
            <4> QED
                BY <4>1, <4>2
        <3>3. ASSUME ~new.shipping PROVE Cardinality(now) <= 1
            <4>1. now = ships
                BY <3>1, <3>3
            <4> QED
                BY <1>5, <4>1
        <3>4. Cardinality(now) <= 1
            BY <3>2, <3>3
        <3> QED
            BY <3>4 DEF now
    <2> QED
        BY <2>11, <2>12
<1> QED
    BY <1>6, <1>7

LEMMA RefundKeepsReturns ==
    ASSUME ReturnsInv, NEW r \in DOMAIN requests, CreateRefund(r)
    PROVE  ReturnsInv'
<1> PICK R : R = Replacements
    OBVIOUS
<1> DEFINE o == requests[r].order
           amount(qty, shipping) == RequestedTotal(o, qty, shipping)
           status(qty, shipping) ==
               IF RefundedTotal(o) + amount(qty, shipping) >= OrderTotal(o)
               THEN "refunded" ELSE "partially_refunded"
<1>1. PICK qty \in Items, shipping \in BOOLEAN :
        /\ \A v \in Variant : qty[v] > 0 => qty[v] <= RefundQuantityAvailable(r, v)
        /\ shipping => ShippingRefundable(r)
        /\ QuoteAccepted(o, amount(qty, shipping))
        /\ refunds' = Append(refunds, [request |-> r, qty |-> qty,
                                       amount |-> amount(qty, shipping),
                                       shipping |-> shipping /\ ShippingFee > 0])
        /\ orders' = [orders EXCEPT ![o] =
                        TriggerUpdate(@, [@ EXCEPT !.payment = status(qty, shipping),
                                                   !.order = status(qty, shipping)])]
    BY DEF CreateRefund
<1>2. /\ requests[r].st \in {"approved", "inspected", "resolved"}
      /\ requests' = [requests EXCEPT ![r].st = "resolved"]
      /\ UNCHANGED <<orderKey, inv, redemption, couponOpen, checkout, event>>
    BY DEF CreateRefund
<1> DEFINE cents == amount(qty, shipping)
           word == status(qty, shipping)
           new == [request |-> r, qty |-> qty, amount |-> cents,
                   shipping |-> shipping /\ ShippingFee > 0]
           moved == [requests[r] EXCEPT !.st = "resolved"]
           row == TriggerUpdate(orders[o], [orders[o] EXCEPT !.payment = word, !.order = word])
<1>3. RowsStand /\ FineExcept(R)
    BY DEF ReturnsInv
<1>4. /\ requests[r] \in ReturnRequest /\ o \in Order /\ orders[o] # NoOrder
      /\ r \in 1..MaxRequests
    BY <1>3, RowsTyped, ReturnsAssumption DEF RowsStand, ReturnRequest
<1>5. word \in {"refunded", "partially_refunded"} /\ orders' = [orders EXCEPT ![o] = row]
    BY <1>1
<1>6. /\ moved \in ReturnRequest /\ RequestMoves(r, moved)
      /\ requests' = [requests EXCEPT ![r] = moved]
    BY <1>2, <1>3, StatusMoves DEF RequestStatuses
<1>7. cents \in Nat /\ QuoteAccepted(o, cents)
    BY <1>1, TotalsBound
<1>8. /\ new.request = r /\ new.qty = qty /\ new.amount = cents
      /\ new.shipping = (shipping /\ ShippingFee > 0)
      /\ refunds' = Append(refunds, new)
    BY <1>1
<1> HIDE DEF o, amount, status, cents, word, row, moved
<1>9. cents \in 1..MostOfOrder
    <2>1. /\ cents >= 1 /\ cents <= OrderTotal(o) - RefundedTotal(o)
          /\ OrderTotal(o) \in Nat /\ OrderTotal(o) <= MostOfOrder
          /\ RefundedTotal(o) \in Nat /\ MostOfOrder \in Nat
        BY <1>3, <1>7, TotalsBound, RefundedTotalIsNat, MostIsNat DEF QuoteAccepted
    <2> QED
        BY <1>7, <2>1
<1>10. new \in Refund
    BY <1>4, <1>9 DEF Refund, Items, Quantities
<1> HIDE DEF new
<1>11. FineExcept(R)' /\ OrdersStay
    <2>1. orders[o] \in OrderRow
        BY <1>3, <1>4 DEF FineExcept, TypeOK
    <2> DEFINE written == [orders[o] EXCEPT !.payment = word, !.order = word]
    <2>2. /\ written \in OrderRow /\ written.status = orders[o].status
          /\ written.order \in {"return_requested", "partially_refunded", "refunded"}
        BY <1>5, <2>1 DEF OrderRow, OrderStatuses, PaymentStatuses
    <2>3. row = TriggerUpdate(orders[o], written)
        BY DEF row
    <2> HIDE DEF written
    <2>4. row \in OrderRow /\ row.status = orders[o].status /\ Agrees(row)
        BY <2>1, <2>2, <2>3, ColumnsOnly
    <2> QED
        BY <1>2, <1>3, <1>4, <1>5, <2>4, ColumnsFine
<1>12. /\ refunds' \in Seq(Refund)
       /\ \A k \in DOMAIN refunds' : refunds'[k].request \in DOMAIN requests
    <2>1. /\ refunds \in Seq(Refund) /\ Len(refunds) \in Nat
          /\ DOMAIN refunds = 1..Len(refunds)
          /\ \A k \in DOMAIN refunds : refunds[k].request \in DOMAIN requests
        BY <1>3, RowsTyped DEF RowsStand
    <2>2. /\ refunds' \in Seq(Refund) /\ Len(refunds') = Len(refunds) + 1
          /\ refunds'[Len(refunds) + 1] = new
          /\ \A k \in 1..Len(refunds) : refunds'[k] = refunds[k]
        BY <1>8, <1>10, <2>1, AppendProperties
    <2>3. DOMAIN refunds' = 1..(Len(refunds) + 1)
        BY <2>1, <2>2
    <2>4. ASSUME NEW k \in DOMAIN refunds' PROVE refunds'[k].request \in DOMAIN requests
        <3>1. CASE k = Len(refunds) + 1
            BY <1>8, <2>2, <3>1
        <3>2. CASE k # Len(refunds) + 1
            <4>1. k \in 1..Len(refunds)
                BY <2>1, <2>3, <2>4, <3>2
            <4> QED
                BY <2>1, <2>2, <4>1
        <3> QED
            BY <3>1, <3>2
    <2> QED
        BY <2>2, <2>4
<1>13. /\ RowsStand' /\ RequestsGoOn /\ ReplacementsStay
       /\ DOMAIN requests' = DOMAIN requests
       /\ \A q \in Order : q \in Replacements \/ q = moved.replacement => q \in Replacements'
    BY <1>3, <1>6, <1>11, <1>12, RequestMoved
<1>14. FineExcept(Replacements)'
    BY <1>11, <1>13, ExceptReplacements
<1>15. RequestedWithinOrdered'
    <2>1. inv' \in Inventory
        BY <1>11 DEF FineExcept, TypeOK
    <2> QED
        BY <1>3, <1>11, <1>13, <2>1, RequestedGoOn DEF ReturnsInv
<1>16. RefundedWithinApproved'
    <2>1. requests[r].st \notin {"requested", "rejected"}
        BY <1>2
    <2>2. \A v \in Variant : new.qty[v] > 0 => new.qty[v] <= RefundQuantityAvailable(r, v)
        BY <1>1, <1>8
    <2>3. RefundedWithinApproved
        BY DEF ReturnsInv
    <2> QED
        BY <1>3, <1>8, <1>10, <1>13, <2>1, <2>2, <2>3, RefundKeepsUnits
<1>17. RefundedWithinPaid'
    <2>1. QuoteAccepted(requests[r].order, new.amount)
        BY <1>7, <1>8 DEF o
    <2>2. new.shipping => ShippingRefundable(r)
        BY <1>1, <1>8
    <2>3. RefundedWithinPaid
        BY DEF ReturnsInv
    <2> QED
        BY <1>3, <1>8, <1>10, <1>11, <1>13, <2>1, <2>2, <2>3, RefundKeepsMoney
<1> QED
    BY <1>13, <1>14, <1>15, <1>16, <1>17 DEF ReturnsInv

-----------------------------------------------------------------------------
(* The theorems *)

LEMMA InitReturns == ReturnsInit => ReturnsInv
<1> SUFFICES ASSUME ReturnsInit PROVE ReturnsInv
    OBVIOUS
<1>1. requests = <<>> /\ refunds = <<>> /\ DOMAIN requests = {} /\ DOMAIN refunds = {}
    BY DEF ReturnsInit
<1>2. FineExcept(Replacements)
    <2>1. IInv /\ Replacements = {}
        BY <1>1, InitFine DEF ReturnsInit, Replacements, IsReplacement
    <2> QED
        BY <2>1 DEF IInv
<1>3. RowsStand
    BY <1>1, ReturnsAssumption DEF RowsStand
<1>4. ASSUME NEW o \in Order
      PROVE  /\ Asked(o) = {} /\ Approved(o) = {} /\ RefundsOf(o) = {}
             /\ {k \in RefundsOf(o) : refunds[k].shipping} = {}
    BY <1>1 DEF Asked, Approved, RequestsOf, RefundsOf
<1>5. ASSUME NEW o \in Order, NEW v \in Variant
      PROVE  /\ Cardinality(RequestedUnits(o, v)) = 0
             /\ Cardinality(RefundedUnits(o, v)) = 0
             /\ Cardinality(ApprovedUnits(o, v)) = 0
    <2>1. IsFiniteSet({})
        BY FS_EmptySet
    <2> QED
        BY <1>4, <2>1, UnitsCounted
        DEF RequestedUnits, RefundedUnits, ApprovedUnits, Asked, Approved
<1>6. RequestedWithinOrdered
    <2>1. \A o \in Order, v \in Variant : inv.resv[o].items[v] \in Nat
        BY <1>2, BoundsAssumption DEF FineExcept, TypeOK, Inventory, Reservation
    <2> QED
        BY <1>5, <2>1 DEF RequestedWithinOrdered
<1>7. RefundedWithinApproved
    BY <1>5 DEF RefundedWithinApproved
<1>8. RefundedWithinPaid
    <2>1. \A o \in Order : orders[o] = NoOrder
        BY DEF ReturnsInit, Init
    <2>2. Cardinality({}) <= 1
        BY FS_EmptySet
    <2> QED
        BY <1>4, <2>1, <2>2 DEF RefundedWithinPaid
<1> QED
    BY <1>2, <1>3, <1>6, <1>7, <1>8 DEF ReturnsInv

\* Every step of ReturnsSpec keeps ReturnsInv.
LEMMA ReturnsNextKeeps == ASSUME ReturnsInv, [ReturnsNext]_returnsVars PROVE ReturnsInv'
<1>1. CASE Next /\ UNCHANGED <<requests, refunds>>
    BY <1>1, NextKeepsReturns
<1>2. ASSUME NEW o \in Order, CreateReturnRequest(o) PROVE ReturnsInv'
    BY <1>2, CreateKeepsReturns
<1>3. ASSUME NEW r \in DOMAIN requests, RejectReturnRequest(r) PROVE ReturnsInv'
    BY <1>3, RejectKeepsReturns
<1>4. ASSUME NEW r \in DOMAIN requests, ApproveCancellation(r) PROVE ReturnsInv'
    BY <1>4, CancellationKeepsReturns
<1>5. ASSUME NEW r \in DOMAIN requests, ApproveReturn(r) PROVE ReturnsInv'
    BY <1>5, ReturnKeepsReturns
<1>6. ASSUME NEW r \in DOMAIN requests, ApproveExchange(r) PROVE ReturnsInv'
    BY <1>6, ExchangeKeepsReturns
<1>7. ASSUME NEW r \in DOMAIN requests, ReceiveReturnRequest(r) PROVE ReturnsInv'
    BY <1>7, ReceiveKeepsReturns
<1>8. ASSUME NEW r \in DOMAIN requests, CreateRefund(r) PROVE ReturnsInv'
    BY <1>8, RefundKeepsReturns
<1>9. CASE UNCHANGED returnsVars
    BY <1>9, NextKeepsReturns DEF returnsVars, vars
<1> QED
    BY <1>1, <1>2, <1>3, <1>4, <1>5, <1>6, <1>7, <1>8, <1>9 DEF ReturnsNext

\* The inductive invariant.
THEOREM ReturnsInvariance == ReturnsSpec => []ReturnsInv
<1>1. ReturnsInit => ReturnsInv
    BY InitReturns
<1>2. ReturnsInv /\ [ReturnsNext]_returnsVars => ReturnsInv'
    BY ReturnsNextKeeps
<1> QED
    BY <1>1, <1>2, PTL DEF ReturnsSpec

\* Requests, refunds, orders and stock stay typed, and a refund names a request that exists.
THEOREM ReturnsTypeCorrectness == ReturnsSpec => []ReturnsTypeOK
<1>1. ReturnsInv => ReturnsTypeOK
    BY DEF ReturnsInv, RowsStand, FineExcept, ReturnsTypeOK
<1> QED
    BY <1>1, ReturnsInvariance, PTL

\* No line is asked back for more units than were ordered.
THEOREM RequestedWithinOrderedHolds == ReturnsSpec => []RequestedWithinOrdered
<1>1. ReturnsInv => RequestedWithinOrdered
    BY DEF ReturnsInv
<1> QED
    BY <1>1, ReturnsInvariance, PTL

\* No unit is refunded that was not approved, or twice.
THEOREM RefundedWithinApprovedHolds == ReturnsSpec => []RefundedWithinApproved
<1>1. ReturnsInv => RefundedWithinApproved
    BY DEF ReturnsInv
<1> QED
    BY <1>1, ReturnsInvariance, PTL

\* However the refunds round, they never exceed the order's total, and the shipping fee is
\* given back once.
THEOREM RefundedWithinPaidHolds == ReturnsSpec => []RefundedWithinPaid
<1>1. ReturnsInv => RefundedWithinPaid
    BY DEF ReturnsInv
<1> QED
    BY <1>1, ReturnsInvariance, PTL

\* Returns, exchanges and refunds do not disturb the stock: the counters stay the units held
\* and backed by stock on hand, the journal stays true, and a cancelled order holds nothing.
THEOREM StockSoundWithReturns ==
    ReturnsSpec => [](/\ ReservedIsHeld /\ NoOversell /\ JournalMatchesReservation
                      /\ CancelledHoldsNothing /\ CouponWithinLimit)
<1>1. ReturnsInv => /\ ReservedIsHeld /\ NoOversell /\ JournalMatchesReservation
                    /\ CancelledHoldsNothing /\ CouponWithinLimit
    BY DEF ReturnsInv, FineExcept, Sound, OrderFine, ReservedIsHeld, NoOversell,
           JournalMatchesReservation, CancelledHoldsNothing
<1> QED
    BY <1>1, ReturnsInvariance, PTL
=============================================================================
