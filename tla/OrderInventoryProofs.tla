------------------------ MODULE OrderInventoryProofs ------------------------
(***************************************************************************)
(* Theorems about OrderInventory, for every value of its constants.        *)
(*                                                                         *)
(* The inductive invariant IInv is TypeOK, Sound(inv), CouponWithinLimit   *)
(* and OrderFine(o, {}) for every order o.  Sound says of the stock that   *)
(* the reserved counters are the units held, that they are backed by stock *)
(* on hand, and that the journal of movements agrees with the reservation  *)
(* rows.  That last part is what makes the others inductive: a movement    *)
(* whose key is already in the journal is skipped, and it is the agreement *)
(* of journal and row that says the key is new.  It is proved inductive    *)
(* for a set R of orders that are paid without their stock being deducted: *)
(* here there are none, in OrderReturns they are the replacements.         *)
(*                                                                         *)
(* The last part shows that the orders implement the stock account: one    *)
(* lemma per operation of inventoryReservations.js says which move of the  *)
(* account it is, or that it is none; the invariant supplies what a move   *)
(* rests on: its key is new, so it is not skipped, and an active           *)
(* reservation was not restocked.                                          *)
(***************************************************************************)
EXTENDS StockRefinement, TLAPS, FiniteSetTheorems

-----------------------------------------------------------------------------
(* Order rows *)

\* The legacy column of a row is the projection of its order_status.
Agrees(row) == row.status = ProjectLegacyStatus(row.order, row.status)

\* The projection of an order_status on the legacy statuses.
LEMMA ProjectLegacyStatusType ==
    ASSUME NEW s \in OrderStatuses, NEW f \in LegacyStatuses
    PROVE  ProjectLegacyStatus(s, f) \in LegacyStatuses
BY DEF ProjectLegacyStatus, OrderStatuses, LegacyStatuses

\* The projection's fallback is used or it does not matter.
LEMMA ProjectLegacyStatusFallback ==
    ASSUME NEW s \in OrderStatuses, NEW f, NEW g
    PROVE  \/ ProjectLegacyStatus(s, f) = ProjectLegacyStatus(s, g)
           \/ ProjectLegacyStatus(s, f) = f /\ ProjectLegacyStatus(s, g) = g
BY DEF ProjectLegacyStatus, OrderStatuses

\* A row with the columns derived from its legacy status is a row, and agrees.
LEMMA DerivedColumnsType ==
    ASSUME NEW row \in OrderRow
    PROVE  /\ DerivedColumns(row) \in OrderRow
           /\ DerivedColumns(row).status = row.status
           /\ Agrees(DerivedColumns(row))
<1>1. /\ row.status \in LegacyStatuses /\ row.order \in OrderStatuses
      /\ row.payment \in PaymentStatuses /\ row.fulfillment \in FulfillmentStatuses
      /\ row.method \in Methods
    BY DEF OrderRow
<1>2. CASE row.status = "payment_pending"
    <2>1. PICK p \in PaymentStatuses :
            DerivedColumns(row) = [row EXCEPT !.order = "pending_payment", !.fulfillment = "unfulfilled",
                                              !.payment = p]
        BY <1>1, <1>2 DEF DerivedColumns, PaymentStatuses
    <2>2. "pending_payment" \in OrderStatuses /\ "unfulfilled" \in FulfillmentStatuses
        BY DEF OrderStatuses, FulfillmentStatuses
    <2>3. ProjectLegacyStatus("pending_payment", row.status) = row.status
        BY <1>2 DEF ProjectLegacyStatus
    <2> QED
        BY <2>1, <2>2, <2>3 DEF OrderRow, Agrees
<1>3. CASE row.status = "new"
    BY <1>3 DEF DerivedColumns, OrderRow, Agrees, ProjectLegacyStatus, LegacyStatuses,
                OrderStatuses, PaymentStatuses, FulfillmentStatuses, Methods
<1>4. CASE row.status = "paid"
    BY <1>4 DEF DerivedColumns, OrderRow, Agrees, ProjectLegacyStatus, LegacyStatuses,
                OrderStatuses, PaymentStatuses, FulfillmentStatuses, Methods
<1>5. CASE row.status = "cancelled"
    <2>1. PICK p \in PaymentStatuses :
            DerivedColumns(row) = [row EXCEPT !.order = "cancelled", !.fulfillment = "cancelled",
                                              !.payment = p]
        BY <1>1, <1>5 DEF DerivedColumns, PaymentStatuses
    <2>2. "cancelled" \in OrderStatuses /\ "cancelled" \in FulfillmentStatuses
        BY DEF OrderStatuses, FulfillmentStatuses
    <2>3. ProjectLegacyStatus("cancelled", row.status) = row.status
        BY <1>5 DEF ProjectLegacyStatus
    <2> QED
        BY <2>1, <2>2, <2>3 DEF OrderRow, Agrees
<1>6. CASE row.status \in {"processing", "shipped", "delivered"}
    <2>1. DerivedColumns(row) = [row EXCEPT !.order = row.status, !.fulfillment = row.status]
        BY <1>6 DEF DerivedColumns
    <2>2. row.status \in OrderStatuses /\ row.status \in FulfillmentStatuses
        BY <1>6 DEF OrderStatuses, FulfillmentStatuses
    <2>3. ProjectLegacyStatus(row.status, row.status) = row.status
        BY <1>6 DEF ProjectLegacyStatus
    <2> QED
        BY <2>1, <2>2, <2>3 DEF OrderRow, Agrees
<1> QED
    BY <1>1, <1>2, <1>3, <1>4, <1>5, <1>6 DEF LegacyStatuses

LEMMA TriggerInsertType ==
    ASSUME NEW status \in LegacyStatuses, NEW method \in Methods
    PROVE  /\ TriggerInsert(status, method) \in OrderRow
           /\ TriggerInsert(status, method).status = status
           /\ Agrees(TriggerInsert(status, method))
<1> DEFINE row == [status |-> status, order |-> "pending_payment", payment |-> "pending",
                   fulfillment |-> "unfulfilled", method |-> method]
<1>1. row \in OrderRow /\ row.status = status
    BY DEF OrderRow, OrderStatuses, PaymentStatuses, FulfillmentStatuses
<1>2. TriggerInsert(status, method) = DerivedColumns(row)
    BY DEF TriggerInsert
<1> HIDE DEF row
<1> QED
    BY <1>1, <1>2, DerivedColumnsType

LEMMA TriggerUpdateType ==
    ASSUME NEW old \in OrderRow, NEW new \in OrderRow
    PROVE  TriggerUpdate(old, new) \in OrderRow
<1>1. CASE new.status # old.status
    BY <1>1, DerivedColumnsType DEF TriggerUpdate
<1>2. CASE new.status = old.status
    <2>1. /\ ProjectLegacyStatus(new.order, old.status) \in LegacyStatuses
          /\ new.status \in LegacyStatuses
        BY ProjectLegacyStatusType DEF OrderRow
    <2> QED
        BY <1>2, <2>1 DEF TriggerUpdate, OrderRow
<1> QED
    BY <1>1, <1>2

\* A writer that sets only `status` gets that status and the columns that go with it.
LEMMA SetStatusType ==
    ASSUME NEW row \in OrderRow, NEW status \in LegacyStatuses
    PROVE  /\ SetStatus(row, status) \in OrderRow
           /\ SetStatus(row, status).status = status
           /\ Agrees(row) => Agrees(SetStatus(row, status))
<1> DEFINE new == [row EXCEPT !.status = status]
<1>1. /\ new \in OrderRow
      /\ new.status = status /\ new.order = row.order /\ new.payment = row.payment
      /\ new.fulfillment = row.fulfillment
      /\ SetStatus(row, status) = TriggerUpdate(row, new)
    BY DEF OrderRow, SetStatus
<1>2. CASE status # row.status
    <2> HIDE DEF new
    <2>1. SetStatus(row, status) = DerivedColumns(new)
        BY <1>1, <1>2 DEF TriggerUpdate
    <2> QED
        BY <1>1, <2>1, DerivedColumnsType
<1>3. CASE status = row.status
    <2>1. new = row
        BY <1>3 DEF OrderRow
    <2>2. TriggerUpdate(row, row) = row
        BY DEF TriggerUpdate, OrderRow
    <2> QED
        BY <1>1, <1>3, <2>1, <2>2
<1> QED
    BY <1>2, <1>3

\* An accepted request names statuses of its domains.
LEMMA AcceptedChangesType ==
    ASSUME NEW row \in OrderRow, NEW changes, AcceptedChanges(row, changes)
    PROVE  /\ NormalizeChanges(row, changes) \in OrderRow
           /\ NormalizeChanges(row, changes).status = row.status
           /\ NormalizeChanges(row, changes).order = Requested(row, changes, "order")
           /\ NextLegacyStatus(row, changes) \in LegacyStatuses
<1> DEFINE o == Requested(row, changes, "order")
           p == Requested(row, changes, "payment")
           f == Requested(row, changes, "fulfillment")
           next == NormalizeChanges(row, changes)
<1>1. next.order = o /\ next.payment = p /\ next.fulfillment = f /\ next.status = row.status
    BY DEF NormalizeChanges, OrderRow
<1>2. /\ AssertTransition("order", row.order, o)
      /\ AssertTransition("payment", row.payment, p)
      /\ AssertTransition("fulfillment", row.fulfillment, f)
    BY <1>1 DEF AcceptedChanges
<1>3. row.order \in OrderStatuses /\ row.payment \in PaymentStatuses
        /\ row.fulfillment \in FulfillmentStatuses
    BY DEF OrderRow
<1> HIDE DEF o, p, f
<1>4. o \in OrderStatuses
    BY <1>2, <1>3 DEF AssertTransition, OrderTransitions, OrderStatuses
<1>5. p \in PaymentStatuses
    BY <1>2, <1>3 DEF AssertTransition, PaymentTransitions, PaymentStatuses
<1>6. f \in FulfillmentStatuses
    BY <1>2, <1>3 DEF AssertTransition, FulfillmentTransitions, FulfillmentStatuses
<1>7. next \in OrderRow
    BY <1>4, <1>5, <1>6 DEF NormalizeChanges, OrderRow, o, p, f
<1>8. NextLegacyStatus(row, changes) \in LegacyStatuses
    BY <1>4, ProjectLegacyStatusType DEF NextLegacyStatus, Requested, OrderRow, o
<1> QED
    BY <1>1, <1>7, <1>8 DEF o

\* The row transitionOrderOperation writes, after the trigger.
LEMMA TransitionedRow ==
    ASSUME NEW row \in OrderRow, NEW changes, AcceptedChanges(row, changes),
           NEW written,
           written = TriggerUpdate(row, [NormalizeChanges(row, changes)
                                           EXCEPT !.status = NextLegacyStatus(row, changes)])
    PROVE  /\ written \in OrderRow
           /\ Agrees(row) => /\ Agrees(written)
                             /\ written.status = NextLegacyStatus(row, changes)
<1> DEFINE legacy == NextLegacyStatus(row, changes)
           next == NormalizeChanges(row, changes)
           new == [next EXCEPT !.status = legacy]
<1>1. /\ next \in OrderRow /\ legacy \in LegacyStatuses
      /\ next.order = Requested(row, changes, "order")
    BY AcceptedChangesType
<1>2. /\ new \in OrderRow /\ new.status = legacy /\ new.order = next.order
      /\ written = TriggerUpdate(row, new)
    <2> HIDE DEF next, legacy
    <2>1. new \in OrderRow /\ new.status = legacy /\ new.order = next.order
        BY <1>1 DEF OrderRow
    <2> QED
        BY <2>1 DEF next, legacy
<1>3. row.status \in LegacyStatuses /\ row.order \in OrderStatuses
        /\ new.order \in OrderStatuses
    BY <1>2 DEF OrderRow
<1>4. \/ legacy = ProjectLegacyStatus(new.order, row.status)
      \/ legacy = row.status /\ new.order = row.order
    BY <1>1, <1>2 DEF NextLegacyStatus, Requested
<1> HIDE DEF new, legacy, next
<1>5. written \in OrderRow
    BY <1>2, TriggerUpdateType
<1>6. ASSUME Agrees(row) PROVE Agrees(written) /\ written.status = legacy
    <2>1. CASE legacy # row.status
        <3>1. legacy = ProjectLegacyStatus(new.order, row.status)
            BY <1>4, <2>1
        <3>2. Agrees(new)
            BY <1>2, <1>3, <2>1, <3>1, ProjectLegacyStatusFallback DEF Agrees
        <3> QED
            BY <1>2, <2>1, <3>2, DerivedColumnsType DEF TriggerUpdate
    <2>2. CASE legacy = row.status
        <3>1. legacy = ProjectLegacyStatus(new.order, row.status)
            BY <1>4, <1>6, <2>2 DEF Agrees
        <3>2. written = new
            <4>1. written = [new EXCEPT !.status = legacy]
                BY <1>2, <2>2, <3>1 DEF TriggerUpdate
            <4> QED
                BY <1>2, <4>1 DEF OrderRow
        <3> QED
            BY <1>2, <2>2, <3>1, <3>2 DEF Agrees
    <2> QED
        BY <2>1, <2>2
<1> QED
    BY <1>5, <1>6 DEF legacy

\* No accepted request takes an order that was shipped or delivered to cancelled.
LEMMA ShippedIsNotCancelled ==
    ASSUME NEW row \in OrderRow, Agrees(row), row.status \in {"shipped", "delivered"},
           NEW changes, AcceptedChanges(row, changes)
    PROVE  NextLegacyStatus(row, changes) # "cancelled"
<1> DEFINE o == Requested(row, changes, "order")
<1>1. row.order \in OrderStatuses /\ row.status = ProjectLegacyStatus(row.order, row.status)
    BY DEF OrderRow, Agrees
<1>2. row.order \in {"shipped", "delivered", "return_requested", "partially_refunded", "refunded"}
    BY <1>1 DEF ProjectLegacyStatus, OrderStatuses
<1>3. AssertTransition("order", row.order, o)
    <2>1. NormalizeChanges(row, changes).order = o
        BY DEF NormalizeChanges, OrderRow
    <2> QED
        BY <2>1 DEF AcceptedChanges
<1> HIDE DEF o
<1>4. o # "cancelled" /\ o \in OrderStatuses
    BY <1>2, <1>3 DEF AssertTransition, OrderTransitions, OrderStatuses
<1>5. ProjectLegacyStatus(o, row.status) # "cancelled"
    BY <1>4 DEF ProjectLegacyStatus, OrderStatuses
<1> QED
    BY <1>5 DEF NextLegacyStatus, Requested, o

-----------------------------------------------------------------------------
(* Counting units *)

\* The units of variant v in the reservations of the orders ps.
UnitsOf(S, v, ps) ==
    {u \in Order \X (1..MaxQty) : u[1] \in ps /\ u[2] <= S.resv[u[1]].items[v]}

\* They are finitely many.
LEMMA UnitsOfFinite ==
    ASSUME NEW S, NEW v, NEW ps
    PROVE  /\ IsFiniteSet(UnitsOf(S, v, ps))
           /\ Cardinality(UnitsOf(S, v, ps)) \in Nat
<1>1. IsFiniteSet(1..MaxQty)
    BY FS_Interval, BoundsAssumption
<1>2. IsFiniteSet(Order \X (1..MaxQty))
    BY <1>1, FS_Product, OrderAssumption
<1>3. UnitsOf(S, v, ps) \in SUBSET (Order \X (1..MaxQty))
    BY DEF UnitsOf
<1> QED
    BY <1>2, <1>3, FS_Subset, FS_CardinalityType

\* The orders whose reservation is active, and those whose reservation stands as sold.
ActiveOrders(S) == {p \in Order : IsActive(S.resv[p])}
SoldOrders(S) == {p \in Order : IsSold(S.resv[p])}

LEMMA UnitsByOrder ==
    ASSUME NEW S, NEW v
    PROVE  /\ Units(S, v, IsActive) = UnitsOf(S, v, ActiveOrders(S))
           /\ Units(S, v, IsSold) = UnitsOf(S, v, SoldOrders(S))
<1>1. Units(S, v, IsActive) = UnitsOf(S, v, ActiveOrders(S))
    BY DEF Units, UnitsOf, ActiveOrders
<1>2. Units(S, v, IsSold) = UnitsOf(S, v, SoldOrders(S))
    BY DEF Units, UnitsOf, SoldOrders
<1> QED
    BY <1>1, <1>2

LEMMA UnitsFinite ==
    ASSUME NEW S, NEW v
    PROVE  /\ Cardinality(Units(S, v, IsActive)) \in Nat
           /\ Cardinality(Units(S, v, IsSold)) \in Nat
           /\ IsFiniteSet(Units(S, v, IsActive))
BY UnitsOfFinite, UnitsByOrder

\* One element of a pair per unit.
LEMMA UnitsOfOne ==
    ASSUME NEW o, NEW q \in Nat
    PROVE  IsFiniteSet({o} \X (1..q)) /\ Cardinality({o} \X (1..q)) = q
<1>1. IsFiniteSet(1..q) /\ Cardinality(1..q) = q
    BY FS_Interval
<1>2. IsFiniteSet({o}) /\ Cardinality({o}) = 1
    BY FS_Singleton
<1> QED
    BY <1>1, <1>2, FS_Product

\* From S to T order o joins those that are counted, and the others' rows are the same.
Joins(S, T, o, ps, qs) ==
    /\ ps \subseteq Order /\ o \notin ps
    /\ qs = ps \cup {o}
    /\ \A p \in ps : T.resv[p] = S.resv[p]

Grown(S, T, v, o, ps, qs) ==
    Cardinality(UnitsOf(T, v, qs)) = Cardinality(UnitsOf(S, v, ps)) + T.resv[o].items[v]

\* When one order joins those that are counted, its quantity of each variant is added.
LEMMA UnitsAdded ==
    ASSUME NEW S, NEW T, NEW o \in Order, NEW v \in Variant,
           T.resv \in [Order -> Reservation], NEW ps, NEW qs, Joins(S, T, o, ps, qs)
    PROVE  Grown(S, T, v, o, ps, qs)
<1> DEFINE q == T.resv[o].items[v]
           added == {o} \X (1..q)
<1>1. q \in 0..MaxQty /\ q \in Nat
    BY BoundsAssumption DEF Reservation
<1>2. IsFiniteSet(added) /\ Cardinality(added) = q
    BY <1>1, UnitsOfOne
<1>3. UnitsOf(T, v, qs) = UnitsOf(S, v, ps) \cup added
    <2>1. ASSUME NEW u \in UnitsOf(T, v, qs)
          PROVE  u \in UnitsOf(S, v, ps) \cup added
        <3>1. /\ u \in Order \X (1..MaxQty) /\ u[1] \in ps \cup {o}
              /\ u[2] <= T.resv[u[1]].items[v]
            BY <2>1 DEF UnitsOf, Joins
        <3>2. CASE u[1] = o
            BY <1>1, <3>1, <3>2
        <3>3. CASE u[1] # o
            BY <3>1, <3>3 DEF UnitsOf, Joins
        <3> QED
            BY <3>2, <3>3
    <2>2. ASSUME NEW u \in UnitsOf(S, v, ps) PROVE u \in UnitsOf(T, v, qs)
        BY <2>2 DEF UnitsOf, Joins
    <2>3. ASSUME NEW u \in added PROVE u \in UnitsOf(T, v, qs)
        <3>1. u[1] = o /\ u[2] \in 1..q /\ u \in Order \X (1..MaxQty)
            BY <1>1, <2>3, BoundsAssumption
        <3> QED
            BY <1>1, <3>1 DEF UnitsOf, Joins
    <2> QED
        BY <2>1, <2>2, <2>3
<1>4. UnitsOf(S, v, ps) \cap added = {}
    BY DEF UnitsOf, Joins
<1> DEFINE before == UnitsOf(S, v, ps)
           after == UnitsOf(T, v, qs)
<1>5. /\ after = before \cup added /\ before \cap added = {}
      /\ IsFiniteSet(before) /\ Cardinality(before) \in Nat
    BY <1>3, <1>4, UnitsOfFinite
<1> HIDE DEF q, added, before, after
<1>6. Cardinality(before \cap added) = 0
    BY <1>5, FS_EmptySet
<1>7. Cardinality(before \cup added) = Cardinality(before) + Cardinality(added) - 0
    BY <1>2, <1>5, <1>6, FS_Union
<1>8. Cardinality(after) = Cardinality(before) + q
    BY <1>1, <1>2, <1>5, <1>7
<1> QED
    BY <1>8 DEF q, before, after, Grown

\* When one reservation becomes active, its quantity of each variant is added.
LEMMA UnitsActivated ==
    ASSUME NEW S, NEW T, NEW o \in Order, NEW v \in Variant,
           T.resv \in [Order -> Reservation],
           \A p \in Order \ {o} : T.resv[p] = S.resv[p],
           S.resv[o].st # "active", T.resv[o].st = "active"
    PROVE  Cardinality(Units(T, v, IsActive))
             = Cardinality(Units(S, v, IsActive)) + T.resv[o].items[v]
<1> DEFINE ps == ActiveOrders(S)
           qs == ActiveOrders(T)
<1>1. Joins(S, T, o, ps, qs)
    BY DEF Joins, ActiveOrders, IsActive
<1>2. /\ Units(T, v, IsActive) = UnitsOf(T, v, qs)
      /\ Units(S, v, IsActive) = UnitsOf(S, v, ps)
    BY UnitsByOrder
<1> HIDE DEF ps, qs
<1>3. Grown(S, T, v, o, ps, qs)
    BY <1>1, UnitsAdded
<1> QED
    BY <1>2, <1>3 DEF Grown

\* The reservations of the other orders are the same.
OthersKept(S, T, o) == \A p \in Order \ {o} : T.resv[p] = S.resv[p]

\* From S to T the reservation of order o comes to stand as sold, and the units sold of
\* every variant grow by its quantity.
ComesToBeSold(S, T, o) ==
    OthersKept(S, T, o) /\ ~IsSold(S.resv[o]) /\ IsSold(T.resv[o])

SoldGrow(S, T, o, v) ==
    Cardinality(Units(T, v, IsSold)) = Cardinality(Units(S, v, IsSold)) + T.resv[o].items[v]

LEMMA UnitsSold ==
    ASSUME NEW S, NEW T, NEW o \in Order, NEW v \in Variant,
           T.resv \in [Order -> Reservation], ComesToBeSold(S, T, o)
    PROVE  SoldGrow(S, T, o, v)
<1> DEFINE ps == SoldOrders(S)
           qs == SoldOrders(T)
<1>1. Joins(S, T, o, ps, qs)
    BY DEF Joins, SoldOrders, ComesToBeSold, OthersKept
<1>2. /\ Units(T, v, IsSold) = UnitsOf(T, v, qs)
      /\ Units(S, v, IsSold) = UnitsOf(S, v, ps)
    BY UnitsByOrder
<1> HIDE DEF ps, qs
<1>3. Grown(S, T, v, o, ps, qs)
    BY <1>1, UnitsAdded
<1> QED
    BY <1>2, <1>3 DEF Grown, SoldGrow

\* When no reservation becomes or stops being active and none changes its items, the
\* units stay.
LEMMA UnitsKept ==
    ASSUME NEW S, NEW T, NEW v \in Variant,
           \A p \in Order : /\ (T.resv[p].st = "active") <=> (S.resv[p].st = "active")
                            /\ S.resv[p].st = "active" => T.resv[p].items = S.resv[p].items
    PROVE  Units(T, v, IsActive) = Units(S, v, IsActive)
    BY DEF Units, IsActive

-----------------------------------------------------------------------------
(* The invariant of the stock, as a predicate of one inventory state *)

Sound(S) == S \in Inventory /\ HeldIn(S) /\ BackedIn(S) /\ JournalIn(S)

ItemCounts == [Variant -> 0..MaxQty]

\* A movement under a new key is applied to every variant, or refused.
LEMMA MoveApplied ==
    ASSUME NEW S \in Inventory, BackedIn(S), NEW items \in ItemCounts,
           NEW a \in {-1, 0, 1}, NEW b \in {-1, 0, 1},
           NEW key \in Movement, key \notin S.moves,
           NEW T \in Move(S, items, a, b, key)
    PROVE  /\ T \in Inventory
           /\ BackedIn(T)
           /\ T.resv = S.resv
           /\ T.moves = S.moves \cup {key}
           /\ T.adjusted = S.adjusted
           /\ \A v \in Variant : /\ T.onHand[v] = S.onHand[v] + a * items[v]
                                /\ T.reserved[v] = S.reserved[v] + b * items[v]
<1> DEFINE onHand == [v \in Variant |-> S.onHand[v] + a * items[v]]
           reserved == [v \in Variant |-> S.reserved[v] + b * items[v]]
<1>1. /\ T = [S EXCEPT !.onHand = onHand, !.reserved = reserved, !.moves = S.moves \cup {key}]
      /\ \A v \in Variant : items[v] > 0 =>
            /\ T.onHand[v] >= 0
            /\ T.reserved[v] >= 0
            /\ T.onHand[v] - T.reserved[v] >= 0
    BY DEF Move
<1>2. /\ T.onHand = onHand
      /\ T.reserved = reserved
      /\ T.adjusted = S.adjusted
      /\ T.moves = S.moves \cup {key}
      /\ T.resv = S.resv
      /\ T = [onHand |-> onHand, reserved |-> reserved, adjusted |-> S.adjusted,
              moves |-> S.moves \cup {key}, resv |-> S.resv]
    BY <1>1 DEF Inventory
<1>3. ASSUME NEW v \in Variant
      PROVE  /\ onHand[v] \in Nat
             /\ reserved[v] \in Nat
             /\ reserved[v] <= onHand[v]
    <2>1. /\ items[v] \in Nat
          /\ S.onHand[v] \in Nat /\ S.reserved[v] \in Nat
          /\ S.reserved[v] <= S.onHand[v]
        BY BoundsAssumption DEF ItemCounts, Inventory, BackedIn
    <2>2. CASE items[v] = 0
        <3>1. onHand[v] = S.onHand[v] /\ reserved[v] = S.reserved[v]
            <4>1. onHand[v] = S.onHand[v] + a * 0 /\ reserved[v] = S.reserved[v] + b * 0
                BY <2>2
            <4> HIDE DEF onHand, reserved
            <4> QED
                BY <2>1, <4>1
        <3> HIDE DEF onHand, reserved
        <3> QED
            BY <2>1, <3>1
    <2>3. CASE items[v] > 0
        <3>1. onHand[v] >= 0 /\ reserved[v] >= 0 /\ onHand[v] - reserved[v] >= 0
            BY <1>1, <1>2, <2>3
        <3>2. a * items[v] \in Int /\ b * items[v] \in Int
            BY <2>1
        <3>3. onHand[v] \in Int /\ reserved[v] \in Int
            BY <2>1, <3>2
        <3> HIDE DEF onHand, reserved
        <3> QED
            BY <3>1, <3>3
    <2> QED
        BY <2>1, <2>2, <2>3
<1>4. onHand \in [Variant -> Nat] /\ reserved \in [Variant -> Nat]
    BY <1>3
<1>5. \A v \in Variant : /\ onHand[v] = S.onHand[v] + a * items[v]
                         /\ reserved[v] = S.reserved[v] + b * items[v]
    OBVIOUS
<1> HIDE DEF onHand, reserved
<1>6. T \in Inventory
    BY <1>2, <1>4 DEF Inventory
<1>7. BackedIn(T)
    BY <1>2, <1>3 DEF BackedIn
<1> QED
    BY <1>2, <1>5, <1>6, <1>7

\* A movement of another order's reservation leaves an order's journal alone.
MovedOnly(S, T, o) == \E kind, n : T.moves = S.moves \cup {<<kind, o, n>>}

LEMMA JournalOfOthers ==
    ASSUME NEW S, NEW T, NEW o, NEW p, p # o, JournalOf(S, p),
           T.resv[p] = S.resv[p], MovedOnly(S, T, o)
    PROVE  JournalOf(T, p)
<1> PICK kind, n : T.moves = S.moves \cup {<<kind, o, n>>}
    BY DEF MovedOnly
<1>1. \A k, i : <<k, p, i>> \in T.moves <=> <<k, p, i>> \in S.moves
    OBVIOUS
<1>2. \A m \in T.moves : m[2] = p => m \in S.moves
    OBVIOUS
<1> QED
    BY <1>1, <1>2 DEF JournalOf

\* S0 is S with order o's reservation row replaced by r.
RowReplaced(S, S0, o, r) ==
    /\ S0 \in Inventory
    /\ S0.onHand = S.onHand /\ S0.reserved = S.reserved /\ S0.adjusted = S.adjusted
    /\ S0.moves = S.moves
    /\ S0.resv[o] = r
    /\ \A p \in Order \ {o} : S0.resv[p] = S.resv[p]

LEMMA RowReplacement ==
    ASSUME NEW S \in Inventory, NEW o \in Order, NEW r \in Reservation
    PROVE  RowReplaced(S, [S EXCEPT !.resv[o] = r], o, r)
BY DEF RowReplaced, Inventory

\* The sign a movement has on the reserved counter when its reservation's row changes from
\* old to new: a row that becomes active holds its units, one that ceases to be gives them
\* back.
Holds(b, old, new) ==
    \/ b = 1 /\ old.st # "active" /\ new.st = "active"
    \/ b = -1 /\ old.st = "active" /\ new.st # "active" /\ new.items = old.items
    \/ b = 0 /\ old.st # "active" /\ new.st # "active"

\* The shelf is explained by the sold reservations of S; of the state, this is
\* StockMatchesReservations.
ShelfIn(S) ==
    \A v \in Variant :
        S.onHand[v] = InitialStock + S.adjusted[v] - Cardinality(Units(S, v, IsSold))

\* The sign a movement has on on_hand for the same change: a row that comes to stand as
\* sold takes its units, one that ceases to puts them back.
Sells(a, old, new) ==
    \/ a = -1 /\ ~IsSold(old) /\ IsSold(new)
    \/ a = 1 /\ IsSold(old) /\ ~IsSold(new) /\ new.items = old.items
    \/ a = 0 /\ ~IsSold(old) /\ ~IsSold(new)

\* Units stay sold or unsold when no reservation starts or stops being sold.
LEMMA SoldKept ==
    ASSUME NEW S, NEW T, NEW v \in Variant, NEW o \in Order,
           OthersKept(S, T, o), ~IsSold(S.resv[o]), ~IsSold(T.resv[o])
    PROVE  Units(T, v, IsSold) = Units(S, v, IsSold)
<1>1. SoldOrders(T) = SoldOrders(S) /\ \A p \in SoldOrders(S) : T.resv[p] = S.resv[p]
    BY DEF SoldOrders, OthersKept
<1>2. UnitsOf(T, v, SoldOrders(T)) = UnitsOf(S, v, SoldOrders(S))
    BY <1>1 DEF UnitsOf
<1> QED
    BY <1>2, UnitsByOrder

\* A movement that goes with the right change of its reservation's row keeps the shelf
\* explained.
LEMMA ShelfMoved ==
    ASSUME NEW S, Sound(S), ShelfIn(S), NEW o \in Order, NEW r \in Reservation,
           NEW T \in Inventory, OthersKept(S, T, o), T.resv[o] = r, T.adjusted = S.adjusted,
           NEW a \in {-1, 0, 1}, Sells(a, S.resv[o], r),
           \A v \in Variant : T.onHand[v] = S.onHand[v] + a * r.items[v]
    PROVE  ShelfIn(T)
<1> SUFFICES ASSUME NEW v \in Variant
             PROVE  T.onHand[v] = InitialStock + T.adjusted[v] - Cardinality(Units(T, v, IsSold))
    BY DEF ShelfIn
<1>1. /\ S.resv \in [Order -> Reservation] /\ T.resv \in [Order -> Reservation]
      /\ S.adjusted[v] \in Int /\ S.onHand[v] \in Nat
    BY DEF Sound, Inventory
<1> DEFINE before == Cardinality(Units(S, v, IsSold))
           after == Cardinality(Units(T, v, IsSold))
           n == r.items[v]
<1>2. before \in Nat /\ after \in Nat /\ n \in Nat
    BY UnitsFinite, BoundsAssumption DEF Reservation
<1>3. /\ S.onHand[v] = InitialStock + S.adjusted[v] - before
      /\ T.onHand[v] = S.onHand[v] + a * n
      /\ T.adjusted[v] = S.adjusted[v]
    BY DEF ShelfIn
<1>4. after = before - a * n
    <2>1. CASE a = -1 /\ ~IsSold(S.resv[o]) /\ IsSold(r)
        <3>1. ComesToBeSold(S, T, o)
            BY <2>1 DEF ComesToBeSold
        <3>2. SoldGrow(S, T, o, v)
            BY <1>1, <3>1, UnitsSold
        <3>3. after = before + n
            BY <3>2 DEF SoldGrow
        <3> HIDE DEF before, after, n
        <3> QED
            BY <1>2, <2>1, <3>3
    <2>2. CASE a = 1 /\ IsSold(S.resv[o]) /\ ~IsSold(r) /\ r.items = S.resv[o].items
        <3>1. ComesToBeSold(T, S, o)
            BY <2>2 DEF ComesToBeSold, OthersKept
        <3>2. SoldGrow(T, S, o, v)
            BY <1>1, <3>1, UnitsSold
        <3>3. before = after + n
            BY <2>2, <3>2 DEF SoldGrow
        <3> HIDE DEF before, after, n
        <3> QED
            BY <1>2, <2>2, <3>3
    <2>3. CASE a = 0 /\ ~IsSold(S.resv[o]) /\ ~IsSold(r)
        <3>1. ~IsSold(S.resv[o]) /\ ~IsSold(T.resv[o])
            BY <2>3
        <3>2. before = after
            BY <3>1, SoldKept
        <3> HIDE DEF before, after, n
        <3> QED
            BY <1>2, <2>3, <3>2
    <2> QED
        BY <2>1, <2>2, <2>3 DEF Sells
<1>5. InitialStock \in Nat /\ a * n \in Int
    BY <1>2, BoundsAssumption
<1> DEFINE an == a * n
<1> HIDE DEF before, after, n, an
<1>6. T.onHand[v] = InitialStock + T.adjusted[v] - after
    BY <1>1, <1>2, <1>3, <1>4, <1>5 DEF an
<1> QED
    BY <1>6 DEF after

\* Only what was consumed is restocked.
LEMMA RestockedIsConsumed ==
    ASSUME NEW S, Sound(S), NEW o \in Order, S.resv[o].restocked
    PROVE  S.resv[o].st = "consumed"
<1>1. JournalOf(S, o) /\ S.resv[o].rev \in 0..S.resv[o].rev
    BY DEF Sound, JournalIn, Inventory, Reservation
<1> QED
    BY <1>1 DEF JournalOf

\* A movement that goes with the right change of its reservation's row keeps the stock
\* sound: it remains to show that the row and the journal agree.
LEMMA ReservationMoved ==
    ASSUME NEW S, Sound(S), NEW o \in Order, NEW r \in Reservation,
           NEW kind \in MovementKinds, NEW n \in Nat,
           NEW key, key = <<kind, o, n>>, key \notin S.moves,
           NEW a \in {-1, 0, 1}, NEW b \in {-1, 0, 1},
           NEW S0, RowReplaced(S, S0, o, r),
           NEW T \in Move(S0, r.items, a, b, key),
           Holds(b, S.resv[o], r),
           T.resv[o] = r /\ T.moves = S.moves \cup {<<kind, o, n>>} => JournalOf(T, o)
    PROVE  /\ Sound(T) /\ T.resv[o] = r /\ OthersKept(S, T, o)
           /\ ShelfIn(S) /\ Sells(a, S.resv[o], r) => ShelfIn(T)
<1>1. /\ S0 \in Inventory
      /\ S0.onHand = S.onHand /\ S0.reserved = S.reserved /\ S0.adjusted = S.adjusted
      /\ S0.moves = S.moves
      /\ S0.resv[o] = r
      /\ \A p \in Order \ {o} : S0.resv[p] = S.resv[p]
    BY DEF RowReplaced
<1>2. BackedIn(S0)
    BY <1>1 DEF Sound, BackedIn
<1>3. r.items \in ItemCounts
    BY DEF Reservation, ItemCounts
<1>4. key \in Movement /\ key \notin S0.moves
    BY <1>1 DEF Movement
<1>5. /\ T \in Inventory
      /\ BackedIn(T)
      /\ T.resv = S0.resv
      /\ T.moves = S0.moves \cup {key}
      /\ T.adjusted = S0.adjusted
      /\ \A v \in Variant : /\ T.onHand[v] = S0.onHand[v] + a * r.items[v]
                           /\ T.reserved[v] = S0.reserved[v] + b * r.items[v]
    BY <1>1, <1>2, <1>3, <1>4, MoveApplied
<1>6. /\ S.resv \in [Order -> Reservation]
      /\ T.resv \in [Order -> Reservation]
      /\ T.resv[o] = r
      /\ \A p \in Order \ {o} : T.resv[p] = S.resv[p]
    BY <1>1, <1>5 DEF Sound, Inventory
<1>7. ASSUME NEW v \in Variant PROVE T.reserved[v] = Cardinality(Units(T, v, IsActive))
    <2>1. /\ S.reserved[v] = Cardinality(Units(S, v, IsActive))
          /\ T.reserved[v] = S.reserved[v] + b * r.items[v]
          /\ r.items[v] \in Nat
          /\ Cardinality(Units(S, v, IsActive)) \in Nat
          /\ Cardinality(Units(T, v, IsActive)) \in Nat
        BY <1>1, <1>3, <1>5, UnitsFinite, BoundsAssumption DEF Sound, HeldIn, ItemCounts
    <2>2. CASE b = 1 /\ S.resv[o].st # "active" /\ r.st = "active"
        <3>1. T.resv[o].st = "active" /\ S.resv[o].st # "active"
            BY <1>6, <2>2
        <3>2. Cardinality(Units(T, v, IsActive))
                = Cardinality(Units(S, v, IsActive)) + T.resv[o].items[v]
            BY <1>6, <3>1, UnitsActivated
        <3> QED
            BY <1>6, <2>1, <2>2, <3>2
    <2>3. CASE b = -1 /\ S.resv[o].st = "active" /\ r.st # "active"
                 /\ r.items = S.resv[o].items
        <3>1. Cardinality(Units(S, v, IsActive))
                = Cardinality(Units(T, v, IsActive)) + S.resv[o].items[v]
            <4>1. /\ \A p \in Order \ {o} : S.resv[p] = T.resv[p]
                  /\ T.resv[o].st # "active"
                BY <1>6, <2>3
            <4> QED
                BY <1>6, <2>3, <4>1, UnitsActivated
        <3> QED
            BY <2>1, <2>3, <3>1
    <2>4. CASE b = 0 /\ S.resv[o].st # "active" /\ r.st # "active"
        <3>1. Units(T, v, IsActive) = Units(S, v, IsActive)
            BY <1>6, <2>4, UnitsKept
        <3> QED
            BY <2>1, <2>4, <3>1
    <2> QED
        BY <2>2, <2>3, <2>4 DEF Holds
<1>8. JournalOf(T, o)
    BY <1>1, <1>5, <1>6
<1>9. ASSUME NEW p \in Order, p # o PROVE JournalOf(T, p)
    <2>1. JournalOf(S, p) /\ T.resv[p] = S.resv[p] /\ MovedOnly(S, T, o)
        BY <1>1, <1>5, <1>6, <1>9 DEF Sound, JournalIn, MovedOnly
    <2> QED
        BY <1>9, <2>1, JournalOfOthers
<1>10. Sound(T) /\ OthersKept(S, T, o)
    BY <1>5, <1>6, <1>7, <1>8, <1>9
    DEF Sound, HeldIn, JournalIn, OthersKept
<1>11. ASSUME ShelfIn(S), Sells(a, S.resv[o], r) PROVE ShelfIn(T)
    <2>1. /\ T.adjusted = S.adjusted
          /\ \A v \in Variant : T.onHand[v] = S.onHand[v] + a * r.items[v]
        BY <1>1, <1>5
    <2> QED
        BY <1>5, <1>6, <1>10, <1>11, <2>1, ShelfMoved
<1> QED
    BY <1>6, <1>10, <1>11

-----------------------------------------------------------------------------
(* The operations on a reservation keep the stock sound *)

LEMMA ReserveSound ==
    ASSUME NEW S, Sound(S), NEW o \in Order, NEW items \in ItemCounts,
           NEW key \in Key \cup {NoKey}, NEW T \in Reserve(S, o, items, key)
    PROVE  /\ Sound(T) /\ OthersKept(S, T, o)
           /\ ShelfIn(S) => ShelfIn(T)
           /\ S.resv[o].st = "none" => T.resv[o].st = "active"
<1>1. CASE S.resv[o].st # "none"
    BY <1>1 DEF Reserve, OthersKept
<1>2. CASE S.resv[o].st = "none"
    <2> DEFINE q == [st |-> "active", rev |-> 0, restocked |-> FALSE,
                     key |-> key, items |-> items]
               S0 == [S EXCEPT !.resv[o] = q]
               m == <<"reserve", o, 0>>
    <2>1. T \in Move(S0, q.items, 0, 1, m)
        BY <1>2 DEF Reserve
    <2>2. /\ q \in Reservation
          /\ q.st = "active" /\ q.rev = 0 /\ q.items = items /\ q.restocked = FALSE
        BY DEF Reservation, ReservationStatuses, ItemCounts
    <2>3. \A p \in S.moves : p[2] # o
        BY <1>2 DEF Sound, JournalIn, JournalOf
    <2>4. m = <<"reserve", o, 0>> /\ m \notin S.moves
        BY <2>3
    <2>r. RowReplaced(S, S0, o, q)
        BY <2>2, RowReplacement DEF Sound
    <2> HIDE DEF q, S0, m
    <2>5. ASSUME T.resv[o] = q, T.moves = S.moves \cup {<<"reserve", o, 0>>}
          PROVE  JournalOf(T, o)
        BY <2>2, <2>3, <2>5 DEF JournalOf
    <2>6. "reserve" \in MovementKinds
        BY DEF MovementKinds
    <2>7. Holds(1, S.resv[o], q)
        BY <1>2, <2>2 DEF Holds
    <2>8. Sells(0, S.resv[o], q)
        BY <1>2, <2>2 DEF Sells, IsSold
    <2>9. Sound(T) /\ T.resv[o] = q /\ OthersKept(S, T, o) /\ (ShelfIn(S) => ShelfIn(T))
        BY <2>1, <2>2, <2>4, <2>5, <2>6, <2>7, <2>8, <2>r, ReservationMoved
    <2> QED
        BY <2>2, <2>9
<1> QED
    BY <1>1, <1>2

LEMMA ConsumeSound ==
    ASSUME NEW S, Sound(S), NEW o \in Order, NEW T \in Consume(S, o)
    PROVE  /\ Sound(T) /\ OthersKept(S, T, o)
           /\ T.resv[o].st = "consumed"
           /\ T.resv[o].restocked = S.resv[o].restocked
           /\ T.resv[o].items = S.resv[o].items
           /\ ShelfIn(S) => ShelfIn(T)
<1> DEFINE r == S.resv[o]
<1>1. r \in Reservation /\ r.rev \in Nat /\ JournalOf(S, o)
    BY DEF Sound, Inventory, Reservation, JournalIn
<1>2. CASE r.st = "consumed"
    BY <1>2 DEF Consume, OthersKept
<1>3. CASE r.st = "active"
    <2> DEFINE q == [r EXCEPT !.st = "consumed"]
               S0 == [S EXCEPT !.resv[o] = q]
               key == <<"consume", o, r.rev>>
    <2>1. T \in Move(S0, q.items, -1, -1, key)
        BY <1>1, <1>3 DEF Consume, Sound, Inventory, Reservation
    <2>2. /\ q \in Reservation
          /\ q.st = "consumed" /\ q.rev = r.rev /\ q.items = r.items
          /\ q.restocked = r.restocked
        BY <1>1 DEF Reservation, ReservationStatuses
    <2>3. key = <<"consume", o, r.rev>> /\ key \notin S.moves
        BY <1>1, <1>3 DEF JournalOf
    <2>r. RowReplaced(S, S0, o, q)
        BY <2>2, RowReplacement DEF Sound
    <2> HIDE DEF q, S0, key
    <2>4. ASSUME T.resv[o] = q, T.moves = S.moves \cup {<<"consume", o, r.rev>>}
          PROVE  JournalOf(T, o)
        BY <1>1, <1>3, <2>2, <2>4 DEF JournalOf
    <2>5. "consume" \in MovementKinds
        BY DEF MovementKinds
    <2>6. Holds(-1, S.resv[o], q)
        BY <1>3, <2>2 DEF Holds
    <2>7. Sells(-1, S.resv[o], q)
        BY <1>1, <1>3, <2>2, RestockedIsConsumed DEF Sells, IsSold
    <2>8. Sound(T) /\ T.resv[o] = q /\ OthersKept(S, T, o) /\ (ShelfIn(S) => ShelfIn(T))
        BY <1>1, <2>1, <2>2, <2>3, <2>4, <2>5, <2>6, <2>7, <2>r, ReservationMoved
    <2> QED
        BY <2>2, <2>8
<1> QED
    BY <1>2, <1>3 DEF Consume

LEMMA ReleaseSound ==
    ASSUME NEW S, Sound(S), NEW o \in Order, NEW final \in {"released", "expired"},
           NEW T \in Release(S, o, final)
    PROVE  /\ Sound(T) /\ OthersKept(S, T, o)
           /\ T.resv[o].st # "active"
           /\ T.resv[o].restocked = S.resv[o].restocked
           /\ S.resv[o].st = "active" => ~IsSold(T.resv[o])
           /\ T.resv[o].items = S.resv[o].items
           /\ ShelfIn(S) => ShelfIn(T)
<1> DEFINE r == S.resv[o]
<1>1. r \in Reservation /\ r.rev \in Nat /\ JournalOf(S, o)
    BY DEF Sound, Inventory, Reservation, JournalIn
<1>2. CASE r.st # "active"
    BY <1>2 DEF Release, OthersKept
<1>3. CASE r.st = "active"
    <2> DEFINE q == [r EXCEPT !.st = final]
               S0 == [S EXCEPT !.resv[o] = q]
               key == <<"release", o, r.rev>>
    <2>1. T \in Move(S0, q.items, 0, -1, key)
        BY <1>1, <1>3 DEF Release, Sound, Inventory, Reservation
    <2>2. /\ q \in Reservation
          /\ q.st = final /\ q.rev = r.rev /\ q.items = r.items
          /\ q.restocked = r.restocked
        BY <1>1 DEF Reservation, ReservationStatuses
    <2>3. key = <<"release", o, r.rev>> /\ key \notin S.moves
        BY <1>1, <1>3 DEF JournalOf
    <2>r. RowReplaced(S, S0, o, q)
        BY <2>2, RowReplacement DEF Sound
    <2> HIDE DEF q, S0, key
    <2>4. ASSUME T.resv[o] = q, T.moves = S.moves \cup {<<"release", o, r.rev>>}
          PROVE  JournalOf(T, o)
        BY <1>1, <1>3, <2>2, <2>4 DEF JournalOf
    <2>5. "release" \in MovementKinds
        BY DEF MovementKinds
    <2>6. Holds(-1, S.resv[o], q)
        BY <1>3, <2>2 DEF Holds
    <2>7. Sells(0, S.resv[o], q)
        BY <1>3, <2>2 DEF Sells, IsSold
    <2>8. Sound(T) /\ T.resv[o] = q /\ OthersKept(S, T, o) /\ (ShelfIn(S) => ShelfIn(T))
        BY <1>1, <2>1, <2>2, <2>3, <2>4, <2>5, <2>6, <2>7, <2>r, ReservationMoved
    <2> QED
        BY <2>2, <2>8 DEF IsSold
<1> QED
    BY <1>2, <1>3 DEF Release

LEMMA RestockSound ==
    ASSUME NEW S, Sound(S), NEW o \in Order, NEW T \in Restock(S, o)
    PROVE  /\ Sound(T) /\ OthersKept(S, T, o)
           /\ T.resv[o].st = S.resv[o].st
           /\ ~IsSold(T.resv[o])
           /\ T.resv[o].items = S.resv[o].items
           /\ ShelfIn(S) => ShelfIn(T)
<1> DEFINE r == S.resv[o]
<1>1. r \in Reservation /\ r.rev \in Nat /\ JournalOf(S, o)
    BY DEF Sound, Inventory, Reservation, JournalIn
<1>2. CASE r.st # "consumed" \/ r.restocked
    BY <1>2 DEF Restock, OthersKept, IsSold
<1>3. CASE r.st = "consumed" /\ ~r.restocked
    <2> DEFINE q == [r EXCEPT !.restocked = TRUE]
               S0 == [S EXCEPT !.resv[o] = q]
               key == <<"restock", o, r.rev>>
    <2>1. T \in Move(S0, q.items, 1, 0, key)
        BY <1>1, <1>3 DEF Restock, Sound, Inventory, Reservation
    <2>2. /\ q \in Reservation
          /\ q.st = r.st /\ q.rev = r.rev /\ q.items = r.items
          /\ q.restocked = TRUE
        BY <1>1 DEF Reservation, ReservationStatuses
    <2>3. key = <<"restock", o, r.rev>> /\ key \notin S.moves
        BY <1>1, <1>3 DEF JournalOf
    <2>r. RowReplaced(S, S0, o, q)
        BY <2>2, RowReplacement DEF Sound
    <2> HIDE DEF q, S0, key
    <2>4. ASSUME T.resv[o] = q, T.moves = S.moves \cup {<<"restock", o, r.rev>>}
          PROVE  JournalOf(T, o)
        BY <1>1, <1>3, <2>2, <2>4 DEF JournalOf
    <2>5. "restock" \in MovementKinds
        BY DEF MovementKinds
    <2>6. Holds(0, S.resv[o], q)
        BY <1>3, <2>2 DEF Holds
    <2>7. Sells(1, S.resv[o], q)
        BY <1>1, <1>3, <2>2 DEF Sells, IsSold
    <2>8. Sound(T) /\ T.resv[o] = q /\ OthersKept(S, T, o) /\ (ShelfIn(S) => ShelfIn(T))
        BY <1>1, <2>1, <2>2, <2>3, <2>4, <2>5, <2>6, <2>7, <2>r, ReservationMoved
    <2> QED
        BY <2>2, <2>8 DEF IsSold
<1> QED
    BY <1>2, <1>3 DEF Restock

LEMMA ReactivateSound ==
    ASSUME NEW S, Sound(S), NEW o \in Order, NEW T \in Reactivate(S, o)
    PROVE  /\ Sound(T) /\ OthersKept(S, T, o)
           /\ T.resv[o].st = "active"
           /\ T.resv[o].items = S.resv[o].items
           /\ ~IsSold(S.resv[o]) /\ ShelfIn(S) => ShelfIn(T)
<1> DEFINE r == S.resv[o]
<1>1. r \in Reservation /\ r.rev \in Nat /\ JournalOf(S, o)
    BY DEF Sound, Inventory, Reservation, JournalIn
<1>2. CASE r.st = "active"
    BY <1>2 DEF Reactivate, OthersKept
<1>3. CASE r.st \in {"consumed", "released", "expired"} /\ r.rev < MaxRevision
    <2> DEFINE rev == r.rev + 1
               q == [r EXCEPT !.st = "active", !.rev = rev, !.restocked = FALSE]
               S0 == [S EXCEPT !.resv[o] = q]
               key == <<"reserve", o, r.rev + 1>>
    <2>1. T \in Move(S0, q.items, 0, 1, key)
        BY <1>1, <1>3 DEF Reactivate, Sound, Inventory, Reservation
    <2>0. rev \in Nat
        BY <1>1
    <2>2. /\ q \in Reservation
          /\ q.st = "active" /\ q.rev = rev /\ q.items = r.items
          /\ q.restocked = FALSE
        <3> HIDE DEF rev, r
        <3> QED
            BY <1>1, <2>0 DEF Reservation, ReservationStatuses
    <2>3. key = <<"reserve", o, r.rev + 1>> /\ key \notin S.moves
        BY <1>1, <1>3 DEF JournalOf
    <2>r. RowReplaced(S, S0, o, q)
        BY <2>2, RowReplacement DEF Sound
    <2> HIDE DEF q, S0, key
    <2>4. ASSUME T.resv[o] = q, T.moves = S.moves \cup {<<"reserve", o, r.rev + 1>>}
          PROVE  JournalOf(T, o)
        <3>1. \A kind : <<kind, o, r.rev + 1>> \notin S.moves
            BY <1>1 DEF JournalOf
        <3>2. \A n \in 0..r.rev :
                 <<"consume", o, n>> \in S.moves <=> <<"release", o, n>> \notin S.moves
            BY <1>1, <1>3 DEF JournalOf
        <3>3. \A n \in 0..q.rev : n \in 0..r.rev \/ n = r.rev + 1
            BY <1>1, <2>2
        <3>4. \A n \in 0..q.rev : n < q.rev <=> n \in 0..r.rev
            BY <1>1, <2>2
        <3>5. /\ \A m \in T.moves : m[2] = o => m[3] <= q.rev
              /\ \A n \in 0..q.rev : <<"reserve", o, n>> \in T.moves
            <4>1. \A m \in S.moves : m[2] = o => m[3] <= r.rev /\ m[3] \in Nat
                BY <1>1 DEF Sound, Inventory, Movement, JournalOf
            <4>2. \A n \in 0..r.rev : <<"reserve", o, n>> \in S.moves
                BY <1>1, <1>3 DEF JournalOf
            <4> HIDE DEF r
            <4> QED
                BY <1>1, <2>2, <2>4, <3>3, <4>1, <4>2
        <3>6. /\ \A n \in 0..q.rev : n < q.rev =>
                    (<<"consume", o, n>> \in T.moves <=> <<"release", o, n>> \notin T.moves)
              /\ \A n \in 0..q.rev : <<"restock", o, n>> \in T.moves
                                        => <<"consume", o, n>> \in T.moves
            BY <1>1, <2>2, <2>4, <3>1, <3>2, <3>3, <3>4 DEF JournalOf
        <3>7. \A kind : kind # "reserve" => <<kind, o, q.rev>> \notin T.moves
            BY <2>2, <2>4, <3>1
        <3> QED
            BY <2>2, <2>4, <3>5, <3>6, <3>7 DEF JournalOf
    <2>5. "reserve" \in MovementKinds
        BY DEF MovementKinds
    <2>6. Holds(1, S.resv[o], q)
        BY <1>3, <2>2 DEF Holds
    <2>7. /\ key = <<"reserve", o, rev>>
          /\ T.resv[o] = q /\ T.moves = S.moves \cup {<<"reserve", o, rev>>} => JournalOf(T, o)
        BY <2>3, <2>4
    <2> HIDE DEF rev
    <2>8. ~IsSold(S.resv[o]) => Sells(0, S.resv[o], q)
        BY <2>2 DEF Sells, IsSold
    <2>9. /\ Sound(T) /\ T.resv[o] = q /\ OthersKept(S, T, o)
          /\ ShelfIn(S) /\ Sells(0, S.resv[o], q) => ShelfIn(T)
        BY <1>1, <2>0, <2>1, <2>2, <2>3, <2>5, <2>6, <2>7, <2>r, ReservationMoved
    <2> QED
        BY <2>2, <2>8, <2>9
<1> QED
    BY <1>2, <1>3 DEF Reactivate

\* Whatever a change of the legacy status does to the stock keeps it sound and leaves
\* the other orders' reservations alone; paying consumes, cancelling deactivates.
LEMMA TransitionSound ==
    ASSUME NEW S, Sound(S), NEW o \in Order, NEW previous, NEW next,
           NEW T \in TransitionOrderInventory(S, o, previous, next)
    PROVE  /\ Sound(T)
           /\ OthersKept(S, T, o)
           /\ T.resv[o].items = S.resv[o].items
           /\ previous = next => T = S
           /\ previous # next /\ next = "paid" => T.resv[o].st = "consumed"
           /\ previous # next /\ next = "cancelled" => T.resv[o].st # "active"
           /\ previous # next /\ next = "cancelled" /\ previous \notin {"shipped", "delivered"}
                => ~IsSold(T.resv[o])
           /\ /\ previous # next /\ next # "cancelled"
              /\ previous # "cancelled" => ~S.resv[o].restocked
              => ~T.resv[o].restocked
           /\ /\ ShelfIn(S)
              /\ previous = "cancelled" => ~IsSold(S.resv[o])
              => ShelfIn(T)
<1>1. CASE previous = next
    BY <1>1 DEF TransitionOrderInventory, OthersKept
<1>2. CASE previous # next /\ previous = "cancelled" /\ next = "payment_pending"
    BY <1>2, ReactivateSound, RestockedIsConsumed DEF TransitionOrderInventory
<1>3. CASE previous # next /\ previous = "cancelled" /\ next # "payment_pending"
    <2>1. PICK U \in Reactivate(S, o) : T \in Consume(U, o)
        BY <1>3 DEF TransitionOrderInventory
    <2>2. /\ Sound(U) /\ OthersKept(S, U, o) /\ ~U.resv[o].restocked
          /\ U.resv[o].items = S.resv[o].items
          /\ ~IsSold(S.resv[o]) /\ ShelfIn(S) => ShelfIn(U)
        BY <2>1, ReactivateSound, RestockedIsConsumed
    <2>3. /\ Sound(T) /\ OthersKept(U, T, o) /\ T.resv[o].st = "consumed"
          /\ ~T.resv[o].restocked /\ T.resv[o].items = U.resv[o].items
          /\ ShelfIn(U) => ShelfIn(T)
        BY <2>1, <2>2, ConsumeSound
    <2> QED
        BY <1>3, <2>2, <2>3 DEF OthersKept
<1>4. CASE /\ previous # next /\ previous # "cancelled"
           /\ next = "paid" \/ (next = "processing" /\ previous = "payment_pending")
    BY <1>4, ConsumeSound DEF TransitionOrderInventory
<1>5. CASE previous # next /\ previous # "cancelled" /\ next = "cancelled"
    <2>1. CASE S.resv[o].st = "active"
        BY <1>5, <2>1, ReleaseSound DEF TransitionOrderInventory
    <2>2. CASE S.resv[o].st # "active" /\ previous \notin {"shipped", "delivered"}
        BY <1>5, <2>2, RestockSound DEF TransitionOrderInventory
    <2>3. CASE S.resv[o].st # "active" /\ previous \in {"shipped", "delivered"}
        BY <1>5, <2>3 DEF TransitionOrderInventory, OthersKept
    <2> QED
        BY <2>1, <2>2, <2>3
<1>6. CASE /\ previous # next /\ previous # "cancelled" /\ next # "cancelled"
           /\ ~(next = "paid" \/ (next = "processing" /\ previous = "payment_pending"))
    BY <1>6 DEF TransitionOrderInventory, OthersKept
<1> QED
    BY <1>1, <1>2, <1>3, <1>4, <1>5, <1>6

\* Setting the available stock of a variant keeps the stock sound.
LEMMA BalanceSound ==
    ASSUME NEW S, Sound(S), NEW v \in Variant, NEW target \in Nat, NEW T \in Inventory,
           T.onHand[v] = S.reserved[v] + target,
           \A w \in Variant \ {v} : T.onHand[w] = S.onHand[w],
           T.reserved = S.reserved, T.moves = S.moves, T.resv = S.resv
    PROVE  Sound(T)
<1>1. BackedIn(T)
    <2>1. ASSUME NEW w \in Variant PROVE 0 <= T.reserved[w] /\ T.reserved[w] <= T.onHand[w]
        <3>1. S.reserved[w] \in Nat
            BY DEF Sound, Inventory
        <3>2. CASE w = v
            BY <3>1, <3>2
        <3>3. CASE w # v
            BY <3>3 DEF Sound, BackedIn
        <3> QED
            BY <3>2, <3>3
    <2> QED
        BY <2>1 DEF BackedIn
<1>2. HeldIn(T)
    BY DEF Sound, HeldIn, Units
<1>3. JournalIn(T)
    BY DEF Sound, JournalIn, JournalOf
<1> QED
    BY <1>1, <1>2, <1>3 DEF Sound

-----------------------------------------------------------------------------
(* The coupon *)

\* The orders that use the coupon are finitely many.
LEMMA LiveFinite ==
    ASSUME NEW red, NEW o
    PROVE  /\ IsFiniteSet(Live(red)) /\ Cardinality(Live(red)) \in Nat
           /\ IsFiniteSet(Live(red) \ {o}) /\ Cardinality(Live(red) \ {o}) \in Nat
<1>1. Live(red) \in SUBSET Order /\ Live(red) \ {o} \in SUBSET Order
    BY DEF Live
<1> QED
    BY <1>1, OrderAssumption, FS_Subset, FS_CardinalityType

\* When one order's use changes, the limit stays respected if the order used the coupon
\* before, does not use it now, or found a use left.
LEMMA LiveChanged ==
    ASSUME NEW red, NEW new, NEW o \in Order,
           \A p \in Order \ {o} : new[p] = red[p],
           Cardinality(Live(red)) <= CouponLimit,
           \/ o \in Live(red)
           \/ o \notin Live(new)
           \/ Cardinality(Live(red) \ {o}) < CouponLimit
    PROVE  Cardinality(Live(new)) <= CouponLimit
<1>0. /\ Cardinality(Live(red)) \in Nat /\ Cardinality(Live(new)) \in Nat
      /\ Cardinality(Live(red) \ {o}) \in Nat /\ CouponLimit \in Nat
    BY LiveFinite, BoundsAssumption
<1>1. CASE o \in Live(red) \/ o \notin Live(new)
    <2>1. Live(new) \subseteq Live(red)
        BY <1>1 DEF Live
    <2>2. Cardinality(Live(new)) <= Cardinality(Live(red))
        BY <2>1, LiveFinite, FS_Subset
    <2> QED
        BY <1>0, <2>2
<1>2. CASE o \in Live(new) /\ Cardinality(Live(red) \ {o}) < CouponLimit
    <2>1. Live(new) = (Live(red) \ {o}) \cup {o}
        BY <1>2 DEF Live
    <2>2. Cardinality(Live(new)) = Cardinality(Live(red) \ {o}) + 1
        BY <2>1, LiveFinite, FS_AddElement
    <2> QED
        BY <1>0, <1>2, <2>2
<1> QED
    BY <1>1, <1>2

\* A change of the legacy status moves at most its own order's redemption, within the
\* limit; cancelling gives the use back.
LEMMA PromotionMoved ==
    ASSUME NEW red \in [Order -> RedemptionStatuses], NEW o \in Order,
           Cardinality(Live(red)) <= CouponLimit, NEW previous, NEW next,
           NEW new \in TransitionOrderPromotion(red, o, previous, next)
    PROVE  /\ new \in [Order -> RedemptionStatuses]
           /\ \A p \in Order \ {o} : new[p] = red[p]
           /\ Cardinality(Live(new)) <= CouponLimit
           /\ previous = next => new = red
           /\ previous # next /\ next = "cancelled" => o \notin Live(new)
<1>1. CASE previous = next \/ red[o] = "none"
    BY <1>1 DEF TransitionOrderPromotion, Live
<1>2. CASE previous # next /\ red[o] # "none" /\ previous = "cancelled" /\ red[o] = "released"
    <2>1. PICK st \in {"reserved", "redeemed"} : new = [red EXCEPT ![o] = st]
        BY <1>2 DEF TransitionOrderPromotion
    <2>2. Cardinality(Live(red) \ {o}) < CouponLimit
        BY <1>2 DEF TransitionOrderPromotion, CouponUsable
    <2>3. /\ new \in [Order -> RedemptionStatuses]
          /\ \A p \in Order \ {o} : new[p] = red[p]
        BY <2>1 DEF RedemptionStatuses
    <2> QED
        BY <1>2, <2>2, <2>3, LiveChanged
<1>3. CASE /\ previous # next /\ red[o] # "none"
           /\ ~(previous = "cancelled" /\ red[o] = "released")
    <2>1. \/ next = "cancelled" /\ new = [red EXCEPT ![o] = "released"]
          \/ next # "cancelled" /\ red[o] = "reserved" /\ new = [red EXCEPT ![o] = "redeemed"]
          \/ next # "cancelled" /\ new = red
        BY <1>3 DEF TransitionOrderPromotion
    <2>2. /\ new \in [Order -> RedemptionStatuses]
          /\ \A p \in Order \ {o} : new[p] = red[p]
        BY <2>1 DEF RedemptionStatuses
    <2>3. next = "cancelled" => o \notin Live(new)
        BY <2>1 DEF Live
    <2>4. o \in Live(red) \/ o \notin Live(new)
        BY <2>1 DEF Live
    <2> QED
        BY <1>3, <2>2, <2>3, <2>4, LiveChanged
<1> QED
    BY <1>1, <1>2, <1>3

-----------------------------------------------------------------------------
(* The inductive invariant *)

\* What is always true of one order: its columns agree, a cancelled order holds nothing,
\* a paid order's stock is deducted, and only an inserted order has a provider request
\* or a callback.  The orders R are paid in another way, and their stock is still reserved:
\* nothing else in the invariant rests on it.
OrderFine(o, R) ==
    /\ orders[o] # NoOrder => Agrees(orders[o])
    /\ HasStatus(o, "cancelled") => inv.resv[o].st # "active" /\ o \notin Live(redemption)
    /\ o \notin R /\ HasStatus(o, "paid") => inv.resv[o].st = "consumed"
    /\ orders[o] = NoOrder => checkout[o] = "none" /\ event[o].st = "none"

FineExcept(R) ==
    /\ TypeOK
    /\ Sound(inv)
    /\ CouponWithinLimit
    /\ \A o \in Order : OrderFine(o, R)

\* The inductive invariant of OrderInventory, where nobody pays in another way.
IInv == FineExcept({})

\* A step of order o: the rows of the other orders are the same.
OnlyOrder(o) ==
    /\ OthersKept(inv, inv', o)
    /\ \A p \in Order \ {o} :
         /\ orders'[p] = orders[p]
         /\ redemption'[p] = redemption[p]
         /\ checkout'[p] = checkout[p]
         /\ event'[p] = event[p]

LEMMA StepFine ==
    ASSUME NEW R, FineExcept(R), NEW o \in Order, OnlyOrder(o),
           TypeOK', Sound(inv)', CouponWithinLimit', OrderFine(o, R)'
    PROVE  FineExcept(R)'
<1>1. ASSUME NEW p \in Order \ {o} PROVE OrderFine(p, R)'
    <2>1. /\ orders'[p] = orders[p] /\ inv'.resv[p] = inv.resv[p]
          /\ redemption'[p] = redemption[p] /\ checkout'[p] = checkout[p]
          /\ event'[p] = event[p]
        BY <1>1 DEF OnlyOrder, OthersKept
    <2> QED
        BY <1>1, <2>1 DEF FineExcept, OrderFine, HasStatus, Live
<1> QED
    BY <1>1 DEF FineExcept

\* A row is not the absence of a row.
LEMMA RowExists ==
    ASSUME TypeOK, NEW o \in Order, orders[o] # NoOrder
    PROVE  orders[o] \in OrderRow
BY DEF TypeOK

-----------------------------------------------------------------------------
(* Every action preserves it *)

LEMMA InitFine == Init => IInv
<1> SUFFICES ASSUME Init PROVE FineExcept({})
    BY DEF IInv
<1>1. NoReservation \in Reservation
    BY BoundsAssumption DEF NoReservation, Reservation, ReservationStatuses
<1>2. /\ inv.onHand = [v \in Variant |-> InitialStock]
      /\ inv.reserved = [v \in Variant |-> 0]
      /\ inv.moves = {}
      /\ inv.resv = [o \in Order |-> NoReservation]
      /\ inv \in Inventory
    BY <1>1, BoundsAssumption DEF Init, Inventory, Movement
<1>3. Live(redemption) = {} /\ Cardinality(Live(redemption)) = 0
    <2>1. Live(redemption) = {}
        BY DEF Init, Live
    <2> QED
        BY <2>1, FS_EmptySet
<1>4. TypeOK
    BY <1>2, ChoicesAssumption
    DEF Init, TypeOK, RedemptionStatuses, CheckoutStages, EventStatuses
<1>5. HeldIn(inv)
    <2>1. ASSUME NEW v \in Variant PROVE Cardinality(Units(inv, v, IsActive)) = 0
        <3>1. Units(inv, v, IsActive) = {}
            BY <1>2 DEF Units, IsActive, NoReservation
        <3> QED
            BY <3>1, FS_EmptySet
    <2> QED
        BY <1>2, <2>1 DEF HeldIn
<1>6. BackedIn(inv)
    BY <1>2, BoundsAssumption DEF BackedIn
<1>7. JournalIn(inv)
    BY <1>2 DEF JournalIn, JournalOf, NoReservation
<1>8. CouponWithinLimit
    BY <1>3, BoundsAssumption DEF CouponWithinLimit
<1>9. ASSUME NEW o \in Order PROVE OrderFine(o, {})
    BY DEF Init, OrderFine, HasStatus
<1> QED
    BY <1>2, <1>4, <1>5, <1>6, <1>7, <1>8, <1>9 DEF FineExcept, Sound

\* Both checkouts insert the order, its reservation and its redemption together.
LEMMA PlaceFine ==
    ASSUME NEW R, FineExcept(R), NEW o \in Order, NEW row \in OrderRow, Agrees(row),
           row.status \in {"payment_pending", "new"}, NEW items \in ItemCounts,
           NEW key \in Key \cup {NoKey}, NEW coupon \in BOOLEAN, NEW consume \in BOOLEAN,
           Place(o, row, items, key, coupon, consume),
           checkout' \in [Order -> CheckoutStages],
           \A p \in Order \ {o} : checkout'[p] = checkout[p]
    PROVE  FineExcept(R)'
<1>1. Sound(inv') /\ OthersKept(inv, inv', o)
    <2>1. PICK S \in Reserve(inv, o, items, key) :
             \E T \in IF consume THEN Consume(S, o) ELSE {S} : inv' = T
        BY DEF Place
    <2>2. Sound(S) /\ OthersKept(inv, S, o)
        BY <2>1, ReserveSound DEF FineExcept
    <2>3. CASE consume
        <3>1. inv' \in Consume(S, o)
            BY <2>1, <2>3
        <3>2. Sound(inv') /\ OthersKept(S, inv', o)
            BY <2>2, <3>1, ConsumeSound
        <3> QED
            BY <2>2, <3>2 DEF OthersKept
    <2>4. CASE ~consume
        BY <2>1, <2>2, <2>4
    <2> QED
        BY <2>3, <2>4
<1>2. /\ orders' = [orders EXCEPT ![o] = row] /\ orderKey' = [orderKey EXCEPT ![o] = key]
      /\ redemption' \in [Order -> RedemptionStatuses]
      /\ \A p \in Order \ {o} : redemption'[p] = redemption[p]
      /\ UNCHANGED <<couponOpen, event>>
    BY DEF Place, FineExcept, TypeOK, RedemptionStatuses
<1>3. orders'[o] = row /\ row # NoOrder
    BY <1>2, NoOrderAssumption DEF FineExcept, TypeOK
<1>4. TypeOK'
    BY <1>1, <1>2 DEF FineExcept, TypeOK, Sound
<1>5. OnlyOrder(o)
    BY <1>1, <1>2 DEF OnlyOrder
<1>6. CouponWithinLimit'
    <2>1. o \notin Live(redemption') \/ Cardinality(Live(redemption) \ {o}) < CouponLimit
        BY DEF Place, CouponUsable, Live, FineExcept, TypeOK
    <2> QED
        BY <1>2, <2>1, LiveChanged DEF FineExcept, CouponWithinLimit
<1>7. OrderFine(o, R)'
    BY <1>3 DEF OrderFine, HasStatus
<1> QED
    BY <1>1, <1>4, <1>5, <1>6, <1>7, StepFine

LEMMA PostOrderFine ==
    ASSUME NEW R, FineExcept(R), NEW o \in Order, PostOrder(o) PROVE FineExcept(R)'
<1>1. PICK method \in Methods, mode \in ManualModes, items \in Items,
           key \in Key \cup {NoKey}, coupon \in BOOLEAN :
         LET keepReservation == method = "iban" /\ mode = "reserve"
             status == IF keepReservation THEN "payment_pending" ELSE "new"
         IN Place(o, TriggerInsert(status, method), items, key, coupon, ~keepReservation)
    BY DEF PostOrder
<1> DEFINE keepReservation == method = "iban" /\ mode = "reserve"
           status == IF keepReservation THEN "payment_pending" ELSE "new"
           row == TriggerInsert(status, method)
           consume == ~keepReservation
<1>2. status \in {"payment_pending", "new"} /\ status \in LegacyStatuses
    BY DEF LegacyStatuses
<1>3. consume \in BOOLEAN /\ items \in ItemCounts
    BY DEF Items, ItemCounts
<1>4. Place(o, row, items, key, coupon, consume)
    BY <1>1
<1> HIDE DEF status, consume
<1>5. row \in OrderRow /\ row.status = status /\ Agrees(row)
    BY <1>2, TriggerInsertType
<1> HIDE DEF row
<1>6. checkout' \in [Order -> CheckoutStages] /\ checkout' = checkout
    BY DEF PostOrder, FineExcept, TypeOK
<1> QED
    BY <1>2, <1>3, <1>4, <1>5, <1>6, PlaceFine

LEMMA InitializePaymentFine ==
    ASSUME NEW R, FineExcept(R), NEW o \in Order, InitializePayment(o) PROVE FineExcept(R)'
<1>1. PICK method \in Methods, mode \in ManualModes, items \in Items,
           key \in Key \cup {NoKey}, coupon \in BOOLEAN :
         LET consume == method = "iban" /\ mode = "consume"
             pending == TriggerInsert("payment_pending", method)
         IN /\ Place(o, IF consume THEN SetStatus(pending, "new") ELSE pending,
                     items, key, coupon, consume)
            /\ checkout' = [checkout EXCEPT ![o] =
                              IF method = "iban" THEN "none" ELSE "calling"]
    BY DEF InitializePayment
<1> DEFINE consume == method = "iban" /\ mode = "consume"
           pending == TriggerInsert("payment_pending", method)
           row == IF consume THEN SetStatus(pending, "new") ELSE pending
<1>2. consume \in BOOLEAN /\ items \in ItemCounts
    BY DEF Items, ItemCounts
<1>3. Place(o, row, items, key, coupon, consume)
    BY <1>1
<1> HIDE DEF consume
<1>4. pending \in OrderRow /\ pending.status = "payment_pending" /\ Agrees(pending)
    BY TriggerInsertType DEF LegacyStatuses
<1> HIDE DEF pending
<1>5. row \in OrderRow /\ row.status \in {"payment_pending", "new"} /\ Agrees(row)
    BY <1>4, SetStatusType DEF LegacyStatuses
<1> HIDE DEF row
<1>6. /\ checkout' \in [Order -> CheckoutStages]
      /\ \A p \in Order \ {o} : checkout'[p] = checkout[p]
    BY <1>1 DEF FineExcept, TypeOK, CheckoutStages
<1> QED
    BY <1>2, <1>3, <1>5, <1>6, PlaceFine

\* An order whose status is set together with the stock and the coupon: the common part
\* of callback, second transaction, compensation, transition and expiry.
LEMMA MovedFine ==
    ASSUME NEW R, FineExcept(R), NEW o \in Order, NEW row \in OrderRow, Agrees(row),
           Sound(inv'), OthersKept(inv, inv', o),
           orders' = [orders EXCEPT ![o] = row],
           redemption' \in [Order -> RedemptionStatuses],
           \A p \in Order \ {o} : redemption'[p] = redemption[p],
           Cardinality(Live(redemption')) <= CouponLimit,
           row.status = "cancelled" => inv'.resv[o].st # "active" /\ o \notin Live(redemption'),
           o \notin R /\ row.status = "paid" => inv'.resv[o].st = "consumed",
           checkout' \in [Order -> CheckoutStages],
           \A p \in Order \ {o} : checkout'[p] = checkout[p],
           event' \in [Order -> [st : EventStatuses, outcome : {"paid", "cancelled"}]],
           \A p \in Order \ {o} : event'[p] = event[p],
           orderKey' \in [Order -> Key \cup {NoKey}],
           couponOpen' = couponOpen
    PROVE  FineExcept(R)'
<1>1. orders'[o] = row /\ row # NoOrder
    BY NoOrderAssumption DEF FineExcept, TypeOK
<1>2. TypeOK'
    BY DEF FineExcept, TypeOK, Sound
<1>3. OnlyOrder(o)
    BY DEF OnlyOrder
<1>4. CouponWithinLimit'
    BY DEF CouponWithinLimit
<1>5. OrderFine(o, R)'
    BY <1>1 DEF OrderFine, HasStatus
<1> QED
    BY <1>2, <1>3, <1>4, <1>5, StepFine

LEMMA InitializeSucceededFine ==
    ASSUME NEW R, FineExcept(R), NEW o \in Order, InitializeSucceeded(o) PROVE FineExcept(R)'
<1>1. PICK initial \in InitialStatuses :
         /\ IF initial = "paid"
            THEN /\ inv' \in Consume(inv, o)
                 /\ redemption' \in
                      TransitionOrderPromotion(redemption, o, "payment_pending", "paid")
                 /\ checkout' \in {[checkout EXCEPT ![o] = s] : s \in {"token", "closed"}}
            ELSE /\ UNCHANGED <<inv, redemption>>
                 /\ checkout' = [checkout EXCEPT ![o] = "token"]
         /\ orders' = [orders EXCEPT ![o] = SetStatus(@, initial)]
    BY DEF InitializeSucceeded
<1> DEFINE row == SetStatus(orders[o], initial)
<1>2. orders[o] \in OrderRow /\ Agrees(orders[o])
    BY DEF InitializeSucceeded, FineExcept, OrderFine, TypeOK
<1>3. row \in OrderRow /\ row.status = initial /\ Agrees(row)
    BY <1>2, SetStatusType, ChoicesAssumption DEF LegacyStatuses
<1>4. orders' = [orders EXCEPT ![o] = row]
    BY <1>1
<1> HIDE DEF row
<1>5. initial \in {"paid", "payment_pending"}
    BY ChoicesAssumption
<1>6. /\ Sound(inv') /\ OthersKept(inv, inv', o)
      /\ o \notin R /\ row.status = "paid" => inv'.resv[o].st = "consumed"
    BY <1>1, <1>3, <1>5, ConsumeSound DEF FineExcept, OthersKept
<1>7. /\ redemption' \in [Order -> RedemptionStatuses]
      /\ \A p \in Order \ {o} : redemption'[p] = redemption[p]
      /\ Cardinality(Live(redemption')) <= CouponLimit
    BY <1>1, PromotionMoved DEF FineExcept, TypeOK, CouponWithinLimit
<1>8. /\ checkout' \in [Order -> CheckoutStages]
      /\ \A p \in Order \ {o} : checkout'[p] = checkout[p]
    BY <1>1 DEF FineExcept, TypeOK, CheckoutStages
<1>9. UNCHANGED <<orderKey, couponOpen, event>>
    BY DEF InitializeSucceeded
<1> QED
    BY <1>3, <1>4, <1>5, <1>6, <1>7, <1>8, <1>9, MovedFine DEF FineExcept, TypeOK

LEMMA InitializeFailedFine ==
    ASSUME NEW R, FineExcept(R), NEW o \in Order, InitializeFailed(o) PROVE FineExcept(R)'
<1> DEFINE row == SetStatus(orders[o], "cancelled")
<1>1. orders[o] \in OrderRow /\ Agrees(orders[o])
    BY DEF InitializeFailed, FineExcept, OrderFine, TypeOK
<1>2. row \in OrderRow /\ row.status = "cancelled" /\ Agrees(row)
    BY <1>1, SetStatusType DEF LegacyStatuses
<1>3. orders' = [orders EXCEPT ![o] = row]
    BY DEF InitializeFailed
<1> HIDE DEF row
<1>4. Sound(inv') /\ OthersKept(inv, inv', o) /\ inv'.resv[o].st # "active"
    BY ReleaseSound DEF InitializeFailed, FineExcept
<1>5. /\ redemption' \in [Order -> RedemptionStatuses]
      /\ \A p \in Order \ {o} : redemption'[p] = redemption[p]
      /\ Cardinality(Live(redemption')) <= CouponLimit
      /\ o \notin Live(redemption')
    BY PromotionMoved DEF InitializeFailed, FineExcept, TypeOK, CouponWithinLimit
<1>6. /\ checkout' \in [Order -> CheckoutStages]
      /\ \A p \in Order \ {o} : checkout'[p] = checkout[p]
      /\ orderKey' \in [Order -> Key \cup {NoKey}]
    BY DEF InitializeFailed, FineExcept, TypeOK, CheckoutStages
<1>7. UNCHANGED <<couponOpen, event>>
    BY DEF InitializeFailed
<1> QED
    BY <1>2, <1>3, <1>4, <1>5, <1>6, <1>7, MovedFine DEF FineExcept, TypeOK

\* A step that leaves orders, stock and coupon alone.
LEMMA RequestFine ==
    ASSUME NEW R, FineExcept(R), NEW o \in Order, orders[o] # NoOrder,
           UNCHANGED <<orders, orderKey, inv, redemption, couponOpen>>,
           checkout' \in [Order -> CheckoutStages],
           \A p \in Order \ {o} : checkout'[p] = checkout[p],
           event' \in [Order -> [st : EventStatuses, outcome : {"paid", "cancelled"}]],
           \A p \in Order \ {o} : event'[p] = event[p]
    PROVE  FineExcept(R)'
<1>1. TypeOK'
    BY DEF FineExcept, TypeOK
<1>2. OnlyOrder(o)
    BY DEF OnlyOrder, OthersKept
<1>3. Sound(inv)' /\ CouponWithinLimit'
    BY DEF FineExcept, CouponWithinLimit
<1>4. OrderFine(o, R)'
    BY DEF FineExcept, OrderFine, HasStatus
<1> QED
    BY <1>1, <1>2, <1>3, <1>4, StepFine

LEMMA InitializeAbortedFine ==
    ASSUME NEW R, FineExcept(R), NEW o \in Order, InitializeAborted(o) PROVE FineExcept(R)'
<1>1. orders[o] # NoOrder
    BY DEF InitializeAborted, FineExcept, OrderFine
<1>2. /\ checkout' \in [Order -> CheckoutStages]
      /\ \A p \in Order \ {o} : checkout'[p] = checkout[p]
    BY DEF InitializeAborted, FineExcept, TypeOK, CheckoutStages
<1> QED
    BY <1>1, <1>2, RequestFine DEF InitializeAborted, FineExcept, TypeOK

LEMMA CallbackArrivesFine ==
    ASSUME NEW R, FineExcept(R), NEW o \in Order, CallbackArrives(o) PROVE FineExcept(R)'
<1>1. orders[o] # NoOrder
    BY DEF CallbackArrives, FineExcept, OrderFine
<1>2. PICK outcome \in Outcomes :
         event' = [event EXCEPT ![o] = [st |-> "queued", outcome |-> outcome]]
    BY DEF CallbackArrives
<1>3. outcome \in {"paid", "cancelled"}
    BY ChoicesAssumption
<1>4. /\ event' \in [Order -> [st : EventStatuses, outcome : {"paid", "cancelled"}]]
      /\ \A p \in Order \ {o} : event'[p] = event[p]
    BY <1>2, <1>3 DEF FineExcept, TypeOK, EventStatuses
<1> QED
    BY <1>1, <1>4, RequestFine DEF CallbackArrives, FineExcept, TypeOK

LEMMA ProcessCallbackFine ==
    ASSUME NEW R, FineExcept(R), NEW o \in Order, ProcessCallback(o) PROVE FineExcept(R)'
<1> DEFINE current == orders[o].status
           next == TerminalGuardedStatus(current, event[o].outcome)
           row == SetStatus(orders[o], next)
<1>1. orders[o] \in OrderRow /\ Agrees(orders[o])
    BY DEF ProcessCallback, FineExcept, OrderFine, TypeOK
<1>2. next \in {"paid", "cancelled"} /\ next \in LegacyStatuses
    BY DEF TerminalGuardedStatus, FineExcept, TypeOK, LegacyStatuses
<1>3. /\ inv' \in TransitionOrderInventory(inv, o, current, next)
      /\ redemption' \in TransitionOrderPromotion(redemption, o, current, next)
      /\ orders' = [orders EXCEPT ![o] = row]
    BY DEF ProcessCallback
<1>c. /\ HasStatus(o, "cancelled") <=> current = "cancelled"
      /\ HasStatus(o, "paid") <=> current = "paid"
    BY DEF HasStatus, ProcessCallback, FineExcept, OrderFine
<1> HIDE DEF next
<1>4. row \in OrderRow /\ row.status = next /\ Agrees(row)
    BY <1>1, <1>2, SetStatusType
<1> HIDE DEF row, current
<1>5. /\ Sound(inv') /\ OthersKept(inv, inv', o)
      /\ current = next => inv' = inv
      /\ current # next /\ next = "paid" => inv'.resv[o].st = "consumed"
      /\ current # next /\ next = "cancelled" => inv'.resv[o].st # "active"
    BY <1>3, TransitionSound DEF FineExcept
<1>6. /\ redemption' \in [Order -> RedemptionStatuses]
      /\ \A p \in Order \ {o} : redemption'[p] = redemption[p]
      /\ Cardinality(Live(redemption')) <= CouponLimit
      /\ current = next => redemption' = redemption
      /\ current # next /\ next = "cancelled" => o \notin Live(redemption')
    BY <1>3, PromotionMoved DEF FineExcept, TypeOK, CouponWithinLimit
<1>7. /\ row.status = "cancelled" => inv'.resv[o].st # "active" /\ o \notin Live(redemption')
      /\ o \notin R /\ row.status = "paid" => inv'.resv[o].st = "consumed"
    BY <1>4, <1>5, <1>6, <1>c DEF FineExcept, OrderFine
<1>8. /\ event' \in [Order -> [st : EventStatuses, outcome : {"paid", "cancelled"}]]
      /\ \A p \in Order \ {o} : event'[p] = event[p]
    BY DEF ProcessCallback, FineExcept, TypeOK, EventStatuses
<1>9. UNCHANGED <<orderKey, couponOpen, checkout>>
    BY DEF ProcessCallback
<1> QED
    BY <1>3, <1>4, <1>5, <1>6, <1>7, <1>8, <1>9, MovedFine DEF FineExcept, TypeOK

\* transitionOrderOperation, whatever the request.
LEMMA TransitionOrderFine ==
    ASSUME NEW R, FineExcept(R), NEW o \in Order, orders[o] # NoOrder, NEW changes,
           TransitionOrder(o, changes)
    PROVE  FineExcept(R)'
<1> DEFINE current == orders[o].status
           next == NextLegacyStatus(orders[o], changes)
           row == TriggerUpdate(orders[o], [NormalizeChanges(orders[o], changes)
                                              EXCEPT !.status = next])
<1>1. orders[o] \in OrderRow /\ Agrees(orders[o])
    BY DEF FineExcept, OrderFine, TypeOK
<1>2. row \in OrderRow /\ row.status = next /\ Agrees(row)
    BY <1>1, TransitionedRow DEF TransitionOrder
<1>3. /\ inv' \in TransitionOrderInventory(inv, o, current, next)
      /\ redemption' \in TransitionOrderPromotion(redemption, o, current, next)
      /\ orders' = [orders EXCEPT ![o] = row]
    BY DEF TransitionOrder
<1>4. /\ HasStatus(o, "cancelled") <=> current = "cancelled"
      /\ HasStatus(o, "paid") <=> current = "paid"
    BY DEF HasStatus
<1> HIDE DEF next, row, current
<1>5. /\ Sound(inv') /\ OthersKept(inv, inv', o)
      /\ current = next => inv' = inv
      /\ current # next /\ next = "paid" => inv'.resv[o].st = "consumed"
      /\ current # next /\ next = "cancelled" => inv'.resv[o].st # "active"
    BY <1>3, TransitionSound DEF FineExcept
<1>6. /\ redemption' \in [Order -> RedemptionStatuses]
      /\ \A p \in Order \ {o} : redemption'[p] = redemption[p]
      /\ Cardinality(Live(redemption')) <= CouponLimit
      /\ current = next => redemption' = redemption
      /\ current # next /\ next = "cancelled" => o \notin Live(redemption')
    BY <1>3, PromotionMoved DEF FineExcept, TypeOK, CouponWithinLimit
<1>7. /\ row.status = "cancelled" => inv'.resv[o].st # "active" /\ o \notin Live(redemption')
      /\ o \notin R /\ row.status = "paid" => inv'.resv[o].st = "consumed"
    BY <1>2, <1>4, <1>5, <1>6 DEF FineExcept, OrderFine
<1>8. UNCHANGED <<orderKey, couponOpen, checkout, event>>
    BY DEF TransitionOrder
<1> QED
    BY <1>2, <1>3, <1>5, <1>6, <1>7, <1>8, MovedFine DEF FineExcept, TypeOK

LEMMA ExpireReservationFine ==
    ASSUME NEW R, FineExcept(R), NEW o \in Order, ExpireReservation(o) PROVE FineExcept(R)'
<1> DEFINE row == IF orders[o].status = "payment_pending"
                  THEN SetStatus(orders[o], "cancelled") ELSE orders[o]
<1>1. orders[o] \in OrderRow /\ Agrees(orders[o]) /\ orders[o] # NoOrder
    BY DEF ExpireReservation, Reachable, FineExcept, OrderFine, TypeOK
<1>2. o \notin R => orders[o].status # "paid"
    BY <1>1 DEF ExpireReservation, FineExcept, OrderFine, HasStatus
<1>3. row \in OrderRow /\ Agrees(row) /\ (o \notin R => row.status # "paid")
    BY <1>1, <1>2, SetStatusType DEF LegacyStatuses
<1>4. orders' = [orders EXCEPT ![o] = row]
    BY DEF ExpireReservation
<1> HIDE DEF row
<1>5. Sound(inv') /\ OthersKept(inv, inv', o) /\ inv'.resv[o].st # "active"
    BY ReleaseSound DEF ExpireReservation, FineExcept
<1>6. /\ redemption' \in [Order -> RedemptionStatuses]
      /\ \A p \in Order \ {o} : redemption'[p] = redemption[p]
      /\ Cardinality(Live(redemption')) <= CouponLimit
      /\ o \notin Live(redemption')
    BY PromotionMoved DEF ExpireReservation, FineExcept, TypeOK, CouponWithinLimit
<1>7. UNCHANGED <<orderKey, couponOpen, checkout, event>>
    BY DEF ExpireReservation
<1> QED
    BY <1>3, <1>4, <1>5, <1>6, <1>7, MovedFine DEF FineExcept, TypeOK

LEMMA SetInventoryBalanceFine ==
    ASSUME NEW R, FineExcept(R), NEW v \in Variant, SetInventoryBalance(v) PROVE FineExcept(R)'
<1>1. PICK target \in 0..MaxStock :
         LET delta == target - (inv.onHand[v] - inv.reserved[v])
         IN inv' = [inv EXCEPT !.onHand[v] = @ + delta, !.adjusted[v] = @ + delta]
    BY DEF SetInventoryBalance
<1> DEFINE delta == target - (inv.onHand[v] - inv.reserved[v])
<1>2. target \in Nat
    BY BoundsAssumption
<1>3. /\ delta \in Int
      /\ inv.onHand[v] + delta = inv.reserved[v] + target
      /\ inv.onHand[v] + delta \in Nat
      /\ inv.adjusted[v] + delta \in Int
    BY <1>2 DEF FineExcept, Sound, Inventory
<1>4. /\ inv'.onHand = [inv.onHand EXCEPT ![v] = inv.onHand[v] + delta]
      /\ inv'.adjusted = [inv.adjusted EXCEPT ![v] = inv.adjusted[v] + delta]
      /\ inv'.reserved = inv.reserved /\ inv'.moves = inv.moves /\ inv'.resv = inv.resv
      /\ inv' = [onHand |-> inv'.onHand, reserved |-> inv'.reserved,
                 adjusted |-> inv'.adjusted, moves |-> inv'.moves, resv |-> inv'.resv]
    BY <1>1 DEF FineExcept, Sound, Inventory
<1> HIDE DEF delta
<1>5. Sound(inv')
    <2>1. inv' \in Inventory
        BY <1>3, <1>4 DEF FineExcept, Sound, Inventory
    <2>2. /\ inv'.onHand[v] = inv.reserved[v] + target
          /\ \A w \in Variant \ {v} : inv'.onHand[w] = inv.onHand[w]
        BY <1>3, <1>4 DEF FineExcept, Sound, Inventory
    <2> QED
        <3>1. /\ Sound(inv)
              /\ inv'.reserved = inv.reserved /\ inv'.moves = inv.moves
              /\ inv'.resv = inv.resv
            BY <1>4 DEF FineExcept
        <3> QED
            BY <1>2, <2>1, <2>2, <3>1, BalanceSound
<1>6. UNCHANGED <<orders, orderKey, redemption, couponOpen, checkout, event>>
    BY DEF SetInventoryBalance
<1>7. TypeOK'
    BY <1>5, <1>6 DEF FineExcept, TypeOK, Sound
<1>8. ASSUME NEW o \in Order PROVE OrderFine(o, R)'
    BY <1>4, <1>6 DEF FineExcept, OrderFine, HasStatus
<1> QED
    BY <1>5, <1>6, <1>7, <1>8 DEF FineExcept, CouponWithinLimit

LEMMA SetCouponOpenFine == ASSUME NEW R, FineExcept(R), SetCouponOpen PROVE FineExcept(R)'
<1>1. TypeOK'
    BY DEF SetCouponOpen, FineExcept, TypeOK
<1>2. ASSUME NEW o \in Order PROVE OrderFine(o, R)'
    BY DEF SetCouponOpen, FineExcept, OrderFine, HasStatus
<1> QED
    BY <1>1, <1>2 DEF SetCouponOpen, FineExcept, CouponWithinLimit

LEMMA StutterFine == ASSUME NEW R, FineExcept(R), UNCHANGED vars PROVE FineExcept(R)'
<1>1. TypeOK'
    BY DEF vars, FineExcept, TypeOK
<1>2. ASSUME NEW o \in Order PROVE OrderFine(o, R)'
    BY DEF vars, FineExcept, OrderFine, HasStatus
<1> QED
    BY <1>1, <1>2 DEF vars, FineExcept, CouponWithinLimit

-----------------------------------------------------------------------------
(* The theorems *)

LEMMA NextFine == ASSUME NEW R, FineExcept(R), [Next]_vars PROVE FineExcept(R)'
<1>1. ASSUME NEW o \in Order, PostOrder(o) PROVE FineExcept(R)'
    BY <1>1, PostOrderFine
<1>2. ASSUME NEW o \in Order, InitializePayment(o) PROVE FineExcept(R)'
    BY <1>2, InitializePaymentFine
<1>3. ASSUME NEW o \in Order, InitializeSucceeded(o) PROVE FineExcept(R)'
    BY <1>3, InitializeSucceededFine
<1>4. ASSUME NEW o \in Order, InitializeFailed(o) PROVE FineExcept(R)'
    BY <1>4, InitializeFailedFine
<1>5. ASSUME NEW o \in Order, InitializeAborted(o) PROVE FineExcept(R)'
    BY <1>5, InitializeAbortedFine
<1>6. ASSUME NEW o \in Order, CallbackArrives(o) PROVE FineExcept(R)'
    BY <1>6, CallbackArrivesFine
<1>7. ASSUME NEW o \in Order, ProcessCallback(o) PROVE FineExcept(R)'
    BY <1>7, ProcessCallbackFine
<1>8. ASSUME NEW o \in Order, TransitionColumn(o) PROVE FineExcept(R)'
    BY <1>8, TransitionOrderFine DEF TransitionColumn, Reachable
<1>9. ASSUME NEW o \in Order, SetLegacyStatus(o) PROVE FineExcept(R)'
    BY <1>9, TransitionOrderFine DEF SetLegacyStatus, Reachable
<1>10. ASSUME NEW o \in Order, SetTrackingNumber(o) PROVE FineExcept(R)'
    BY <1>10, TransitionOrderFine DEF SetTrackingNumber, Reachable
<1>11. ASSUME NEW o \in Order, ExpireReservation(o) PROVE FineExcept(R)'
    BY <1>11, ExpireReservationFine
<1>12. ASSUME NEW v \in Variant, SetInventoryBalance(v) PROVE FineExcept(R)'
    BY <1>12, SetInventoryBalanceFine
<1>13. CASE SetCouponOpen
    BY <1>13, SetCouponOpenFine
<1>14. CASE UNCHANGED vars
    BY <1>14, StutterFine
<1> QED
    BY <1>1, <1>2, <1>3, <1>4, <1>5, <1>6, <1>7, <1>8, <1>9, <1>10, <1>11, <1>12,
       <1>13, <1>14 DEF Next

LEMMA NextInvariant == ASSUME IInv, [Next]_vars PROVE IInv'
BY NextFine DEF IInv

\* The inductive invariant holds in every state of every behaviour.
THEOREM Invariance == Spec => []IInv
<1>1. Init => IInv
    BY InitFine
<1>2. IInv /\ [Next]_vars => IInv'
    BY NextInvariant
<1> QED
    BY <1>1, <1>2, PTL DEF Spec

\* Type correctness: every table row keeps its type whatever is ordered, cancelled,
\* reopened, called back or expired; in particular no stock counter becomes negative.
THEOREM TypeCorrectness == Spec => []TypeOK
<1>1. IInv => TypeOK
    BY DEF IInv, FineExcept
<1> QED
    BY <1>1, Invariance, PTL

\* The reserved counter of every variant is the number of units in active reservations,
\* for any orders, variants and quantities: applyInventoryMovement and the reservation
\* statuses never drift apart.
THEOREM ReservedIsHeldHolds == Spec => []ReservedIsHeld
<1>1. IInv => ReservedIsHeld
    BY DEF IInv, FineExcept, Sound, ReservedIsHeld
<1> QED
    BY <1>1, Invariance, PTL

\* No oversell, for any number of orders and any stock.
THEOREM NoOversellHolds == Spec => []NoOversell
<1>1. IInv => NoOversell
    BY DEF IInv, FineExcept, Sound, NoOversell
<1> QED
    BY <1>1, Invariance, PTL

\* The journal of movements agrees with the reservation rows however often orders are
\* reopened: the idempotency key of every movement the code makes is new.
THEOREM JournalMatchesReservationHolds == Spec => []JournalMatchesReservation
<1>1. IInv => JournalMatchesReservation
    BY DEF IInv, FineExcept, Sound, JournalMatchesReservation
<1> QED
    BY <1>1, Invariance, PTL

\* The legacy status and order_status agree: the projection in JavaScript and the
\* trigger in the database compute the same row.
THEOREM ColumnsAgreeHolds == Spec => []ColumnsAgree
<1>1. IInv => ColumnsAgree
    BY DEF IInv, FineExcept, OrderFine, Agrees, ColumnsAgree
<1> QED
    BY <1>1, Invariance, PTL

\* A paid order's stock has been deducted.
THEOREM PaidIsDeductedHolds == Spec => []PaidIsDeducted
<1>1. IInv => PaidIsDeducted
    BY DEF IInv, FineExcept, OrderFine, PaidIsDeducted
<1> QED
    BY <1>1, Invariance, PTL

\* A cancelled order holds neither stock nor a use of its coupon.
THEOREM CancelledHoldsNothingHolds == Spec => []CancelledHoldsNothing
<1>1. IInv => CancelledHoldsNothing
    BY DEF IInv, FineExcept, OrderFine, CancelledHoldsNothing
<1> QED
    BY <1>1, Invariance, PTL

\* The coupon's limit is respected by any number of concurrent and reopened orders.
THEOREM CouponWithinLimitHolds == Spec => []CouponWithinLimit
<1>1. IInv => CouponWithinLimit
    BY DEF IInv, FineExcept
<1> QED
    BY <1>1, Invariance, PTL

\* The units of one active reservation are among the units counted.
LEMMA ReservedCoversReservation ==
    ASSUME NEW S, Sound(S), NEW o \in Order, S.resv[o].st = "active", NEW v \in Variant
    PROVE  /\ S.resv[o].items[v] \in Nat
           /\ S.resv[o].items[v] <= S.reserved[v]
<1> DEFINE q == S.resv[o].items[v]
           units == {o} \X (1..q)
<1>1. q \in 0..MaxQty /\ q \in Nat /\ MaxQty \in Nat
    BY BoundsAssumption DEF Sound, Inventory, Reservation
<1>2. units \subseteq Units(S, v, IsActive)
    <2>1. ASSUME NEW u \in units PROVE u \in Units(S, v, IsActive)
        <3>1. u[1] = o /\ u[2] \in 1..q /\ u \in Order \X (1..MaxQty)
            BY <1>1, <2>1
        <3> QED
            BY <1>1, <3>1 DEF Units, IsActive
    <2> QED
        BY <2>1
<1>3. Cardinality(units) = q
    BY <1>1, UnitsOfOne
<1>4. Cardinality(units) <= Cardinality(Units(S, v, IsActive))
    BY <1>2, UnitsFinite, FS_Subset
<1> QED
    BY <1>1, <1>3, <1>4 DEF Sound, HeldIn

\* In every reachable state an active reservation can be consumed and can be released:
\* neither the payment nor the expiry of an order ever fails for want of stock.
THEOREM SettlementNeverFailsHolds == Spec => []SettlementNeverFails
<1>1. ASSUME IInv, NEW o \in Order, inv.resv[o].st = "active"
      PROVE  Consume(inv, o) # {} /\ Release(inv, o, "expired") # {}
    <2> DEFINE r == inv.resv[o]
    <2>1. /\ Sound(inv)
          /\ inv.onHand \in [Variant -> Nat] /\ inv.reserved \in [Variant -> Nat]
          /\ \A v \in Variant : /\ r.items[v] \in Nat
                                /\ r.items[v] <= inv.reserved[v]
                                /\ inv.reserved[v] <= inv.onHand[v]
        BY <1>1, ReservedCoversReservation DEF IInv, FineExcept, Sound, Inventory, BackedIn
    <2>2. ASSUME NEW S0, S0.onHand = inv.onHand, S0.reserved = inv.reserved, NEW key,
                 NEW a \in {-1, 0}, S0 \in Inventory
          PROVE  Move(S0, r.items, a, -1, key) # {}
        <3> DEFINE T == [S0 EXCEPT
                      !.onHand   = [v \in Variant |-> S0.onHand[v] + a * r.items[v]],
                      !.reserved = [v \in Variant |-> S0.reserved[v] + (-1) * r.items[v]],
                      !.moves    = S0.moves \cup {key}]
        <3>1. /\ T.onHand = [v \in Variant |-> inv.onHand[v] + a * r.items[v]]
              /\ T.reserved = [v \in Variant |-> inv.reserved[v] + (-1) * r.items[v]]
            BY <2>2 DEF Inventory
        <3>2. ASSUME NEW v \in Variant
              PROVE  T.onHand[v] >= 0 /\ T.reserved[v] >= 0 /\ T.onHand[v] - T.reserved[v] >= 0
            <4>1. /\ T.onHand[v] = inv.onHand[v] + a * r.items[v]
                  /\ T.reserved[v] = inv.reserved[v] - r.items[v]
                BY <2>1, <3>1
            <4> HIDE DEF T
            <4>2. CASE a = 0
                <5>1. T.onHand[v] = inv.onHand[v]
                    BY <2>1, <4>1, <4>2
                <5> QED
                    BY <2>1, <4>1, <5>1
            <4>3. CASE a = -1
                <5>1. T.onHand[v] = inv.onHand[v] - r.items[v]
                    BY <2>1, <4>1, <4>3
                <5> QED
                    BY <2>1, <4>1, <5>1
            <4> QED
                BY <4>2, <4>3
        <3>3. CASE key \in S0.moves
            BY <3>3 DEF Move
        <3>4. CASE key \notin S0.moves
            <4>1. T \in Move(S0, r.items, a, -1, key)
                BY <3>2, <3>4 DEF Move
            <4> QED
                BY <4>1
        <3> QED
            BY <3>3, <3>4
    <2>3. ASSUME NEW st \in ReservationStatuses
          PROVE  LET S0 == [inv EXCEPT !.resv[o].st = st]
                 IN S0 \in Inventory /\ S0.onHand = inv.onHand /\ S0.reserved = inv.reserved
        <3> DEFINE q == [inv.resv[o] EXCEPT !.st = st]
        <3>1. q \in Reservation /\ inv \in Inventory
            BY <2>1 DEF Sound, Inventory, Reservation
        <3>2. RowReplaced(inv, [inv EXCEPT !.resv[o] = q], o, q)
            BY <3>1, RowReplacement
        <3> QED
            BY <3>2 DEF RowReplaced
    <2>4. Consume(inv, o) # {}
        BY <1>1, <2>2, <2>3 DEF Consume, ReservationStatuses
    <2>5. Release(inv, o, "expired") # {}
        BY <1>1, <2>2, <2>3 DEF Release, ReservationStatuses
    <2> QED
        BY <2>4, <2>5
<1>2. IInv => SettlementNeverFails
    BY <1>1 DEF SettlementNeverFails
<1> QED
    BY <1>2, Invariance, PTL

-----------------------------------------------------------------------------
(* When nothing else touches an order during its provider call *)

\* What is true of one order then: it waits for payment, with its stock held, as long as
\* the provider is called; no callback precedes the token; and stock that was put back
\* belongs to a cancelled order.
Undisturbed(o) ==
    /\ orders[o] = NoOrder => inv.resv[o].st = "none"
    /\ checkout[o] = "calling" => HasStatus(o, "payment_pending") /\ inv.resv[o].st = "active"
    /\ checkout[o] \in {"none", "calling"} => event[o].st = "none"
    /\ orders[o] # NoOrder /\ inv.resv[o].restocked => orders[o].status = "cancelled"

NoRefusals == Outcomes \subseteq {"paid"}

\* When the provider refuses no payment either, a cancelled order has sold nothing.
Settled(o) ==
    /\ HasStatus(o, "cancelled") => ~IsSold(inv.resv[o])
    /\ event[o].st = "queued" => event[o].outcome = "paid"

QInv ==
    /\ \A o \in Order : Undisturbed(o)
    /\ NoRefusals => ShelfIn(inv) /\ \A o \in Order : Settled(o)

\* A step of order o, as far as QInv reads it.
Beside(o) ==
    /\ OthersKept(inv, inv', o)
    /\ \A p \in Order \ {o} :
         orders'[p] = orders[p] /\ checkout'[p] = checkout[p] /\ event'[p] = event[p]

LEMMA StepQuiet ==
    ASSUME QInv, NEW o \in Order, Beside(o), Undisturbed(o)',
           NoRefusals => ShelfIn(inv') /\ Settled(o)'
    PROVE  QInv'
<1>1. ASSUME NEW p \in Order \ {o} PROVE Undisturbed(p)' /\ (NoRefusals => Settled(p)')
    <2>1. /\ orders'[p] = orders[p] /\ inv'.resv[p] = inv.resv[p]
          /\ checkout'[p] = checkout[p] /\ event'[p] = event[p]
        BY <1>1 DEF Beside, OthersKept
    <2> QED
        BY <1>1, <2>1 DEF QInv, Undisturbed, Settled, HasStatus
<1>2. NoRefusals' <=> NoRefusals
    BY DEF NoRefusals
<1> QED
    BY <1>1, <1>2 DEF QInv

LEMMA InitQuiet == Init => QInv
<1> SUFFICES ASSUME Init PROVE QInv
    OBVIOUS
<1>1. /\ inv.onHand = [v \in Variant |-> InitialStock]
      /\ inv.adjusted = [v \in Variant |-> 0]
      /\ inv.resv = [o \in Order |-> NoReservation]
    BY DEF Init
<1>2. ASSUME NEW o \in Order PROVE Undisturbed(o) /\ Settled(o)
    BY <1>1 DEF Init, Undisturbed, Settled, HasStatus, NoReservation
<1>3. ASSUME NEW v \in Variant PROVE Cardinality(Units(inv, v, IsSold)) = 0
    <2>1. SoldOrders(inv) = {}
        BY <1>1 DEF SoldOrders, IsSold, NoReservation
    <2>2. UnitsOf(inv, v, SoldOrders(inv)) = {}
        BY <2>1 DEF UnitsOf
    <2> QED
        BY <2>2, UnitsByOrder, FS_EmptySet
<1>4. ShelfIn(inv)
    BY <1>1, <1>3, BoundsAssumption DEF ShelfIn
<1> QED
    BY <1>2, <1>4 DEF QInv

\* Both checkouts insert the order with its stock held or taken.
LEMMA PlaceQuiet ==
    ASSUME IInv, QInv, NEW o \in Order, NEW row \in OrderRow,
           row.status \in {"payment_pending", "new"}, NEW items \in ItemCounts,
           NEW key \in Key \cup {NoKey}, NEW coupon, NEW consume \in BOOLEAN,
           Place(o, row, items, key, coupon, consume),
           \A p \in Order \ {o} : checkout'[p] = checkout[p],
           checkout'[o] = "calling" => ~consume /\ row.status = "payment_pending"
    PROVE  QInv'
<1>1. orders[o] = NoOrder /\ inv.resv[o].st = "none" /\ event[o].st = "none"
    BY DEF Place, QInv, Undisturbed, IInv, FineExcept, OrderFine
<1>2. PICK S \in Reserve(inv, o, items, key) :
         \E T \in IF consume THEN Consume(S, o) ELSE {S} : inv' = T
    BY DEF Place
<1>3. /\ Sound(S) /\ OthersKept(inv, S, o) /\ S.resv[o].st = "active"
      /\ ~S.resv[o].restocked
      /\ ShelfIn(inv) => ShelfIn(S)
    BY <1>1, <1>2, ReserveSound, RestockedIsConsumed DEF IInv, FineExcept
<1>4. /\ OthersKept(inv, inv', o) /\ ~inv'.resv[o].restocked
      /\ ~consume => inv'.resv[o].st = "active"
      /\ ShelfIn(inv) => ShelfIn(inv')
    <2>1. CASE consume
        <3>1. inv' \in Consume(S, o)
            BY <1>2, <2>1
        <3>2. /\ OthersKept(S, inv', o) /\ inv'.resv[o].restocked = S.resv[o].restocked
              /\ ShelfIn(S) => ShelfIn(inv')
            BY <1>3, <3>1, ConsumeSound
        <3> QED
            BY <1>3, <2>1, <3>2 DEF OthersKept
    <2>2. CASE ~consume
        BY <1>2, <1>3, <2>2
    <2> QED
        BY <2>1, <2>2
<1>5. orders' = [orders EXCEPT ![o] = row] /\ UNCHANGED event
    BY DEF Place
<1>6. orders'[o] = row /\ row # NoOrder
    BY <1>5, NoOrderAssumption DEF IInv, FineExcept, TypeOK
<1>7. Beside(o)
    BY <1>4, <1>5 DEF Beside
<1>8. Undisturbed(o)'
    BY <1>1, <1>4, <1>5, <1>6 DEF Undisturbed, HasStatus
<1>9. Settled(o)'
    BY <1>1, <1>5, <1>6 DEF Settled, HasStatus
<1> QED
    BY <1>4, <1>7, <1>8, <1>9, StepQuiet DEF QInv

LEMMA PostOrderQuiet == ASSUME IInv, QInv, NEW o \in Order, PostOrder(o) PROVE QInv'
<1>1. PICK method \in Methods, mode \in ManualModes, items \in Items,
           key \in Key \cup {NoKey}, coupon \in BOOLEAN :
         LET keepReservation == method = "iban" /\ mode = "reserve"
             status == IF keepReservation THEN "payment_pending" ELSE "new"
         IN Place(o, TriggerInsert(status, method), items, key, coupon, ~keepReservation)
    BY DEF PostOrder
<1> DEFINE keepReservation == method = "iban" /\ mode = "reserve"
           status == IF keepReservation THEN "payment_pending" ELSE "new"
           row == TriggerInsert(status, method)
           consume == ~keepReservation
<1>2. status \in {"payment_pending", "new"} /\ status \in LegacyStatuses
    BY DEF LegacyStatuses
<1>3. consume \in BOOLEAN /\ items \in ItemCounts
    BY DEF Items, ItemCounts
<1>4. Place(o, row, items, key, coupon, consume)
    BY <1>1
<1> HIDE DEF status, consume
<1>5. row \in OrderRow /\ row.status = status
    BY <1>2, TriggerInsertType
<1> HIDE DEF row
<1>6. checkout' = checkout /\ checkout[o] = "none"
    BY <1>4 DEF PostOrder, Place, IInv, FineExcept, OrderFine
<1> QED
    BY <1>2, <1>3, <1>4, <1>5, <1>6, PlaceQuiet

LEMMA InitializePaymentQuiet ==
    ASSUME IInv, QInv, NEW o \in Order, InitializePayment(o) PROVE QInv'
<1>1. PICK method \in Methods, mode \in ManualModes, items \in Items,
           key \in Key \cup {NoKey}, coupon \in BOOLEAN :
         LET consume == method = "iban" /\ mode = "consume"
             pending == TriggerInsert("payment_pending", method)
         IN /\ Place(o, IF consume THEN SetStatus(pending, "new") ELSE pending,
                     items, key, coupon, consume)
            /\ checkout' = [checkout EXCEPT ![o] =
                              IF method = "iban" THEN "none" ELSE "calling"]
    BY DEF InitializePayment
<1> DEFINE consume == method = "iban" /\ mode = "consume"
           pending == TriggerInsert("payment_pending", method)
           row == IF consume THEN SetStatus(pending, "new") ELSE pending
<1>2. consume \in BOOLEAN /\ items \in ItemCounts
    BY DEF Items, ItemCounts
<1>3. Place(o, row, items, key, coupon, consume)
    BY <1>1
<1>4. /\ \A p \in Order \ {o} : checkout'[p] = checkout[p]
      /\ checkout'[o] = "calling" => ~consume
    BY <1>1 DEF IInv, FineExcept, TypeOK
<1> HIDE DEF consume
<1>5. pending \in OrderRow /\ pending.status = "payment_pending"
    BY TriggerInsertType DEF LegacyStatuses
<1> HIDE DEF pending
<1>6. /\ row \in OrderRow /\ row.status \in {"payment_pending", "new"}
      /\ ~consume => row.status = "payment_pending"
    BY <1>5, SetStatusType DEF LegacyStatuses
<1> HIDE DEF row
<1> QED
    BY <1>2, <1>3, <1>4, <1>6, PlaceQuiet

\* The common part of the steps that set an order's status with its stock: what holds of
\* the new row and reservation is all there is to show.
LEMMA MovedQuiet ==
    ASSUME IInv, QInv, NEW o \in Order, NEW row \in OrderRow,
           OthersKept(inv, inv', o), orders' = [orders EXCEPT ![o] = row],
           \A p \in Order \ {o} : checkout'[p] = checkout[p] /\ event'[p] = event[p],
           checkout'[o] \notin {"none", "calling"} \/
              (checkout[o] = "none" /\ checkout'[o] = "none" /\ event'[o] = event[o]),
           inv'.resv[o].restocked => row.status = "cancelled",
           event'[o].st = "queued" => event[o].st = "queued" /\ event'[o].outcome = event[o].outcome,
           NoRefusals => /\ ShelfIn(inv')
                         /\ row.status = "cancelled" => ~IsSold(inv'.resv[o])
    PROVE  QInv'
<1>1. orders'[o] = row /\ row # NoOrder
    BY NoOrderAssumption DEF IInv, FineExcept, TypeOK
<1>2. Beside(o)
    BY DEF Beside
<1>3. Undisturbed(o)'
    BY <1>1 DEF Undisturbed, HasStatus, QInv
<1>4. NoRefusals => Settled(o)'
    BY <1>1 DEF Settled, HasStatus, QInv
<1> QED
    BY <1>2, <1>3, <1>4, StepQuiet

LEMMA InitializeSucceededQuiet ==
    ASSUME IInv, QInv, NEW o \in Order, InitializeSucceeded(o) PROVE QInv'
<1>1. PICK initial \in InitialStatuses :
         /\ IF initial = "paid"
            THEN /\ inv' \in Consume(inv, o)
                 /\ checkout' \in {[checkout EXCEPT ![o] = s] : s \in {"token", "closed"}}
            ELSE /\ UNCHANGED inv
                 /\ checkout' = [checkout EXCEPT ![o] = "token"]
         /\ orders' = [orders EXCEPT ![o] = SetStatus(@, initial)]
    BY DEF InitializeSucceeded
<1> DEFINE row == SetStatus(orders[o], initial)
<1>2. /\ orders[o] \in OrderRow /\ inv.resv[o].st = "active" /\ ~inv.resv[o].restocked
      /\ checkout[o] = "calling"
    BY RestockedIsConsumed
    DEF InitializeSucceeded, IInv, FineExcept, QInv, Undisturbed, HasStatus, TypeOK
<1>3. initial \in {"paid", "payment_pending"}
    BY ChoicesAssumption
<1>4. row \in OrderRow /\ row.status = initial
    BY <1>2, <1>3, SetStatusType DEF LegacyStatuses
<1>5. orders' = [orders EXCEPT ![o] = row]
    BY <1>1
<1> HIDE DEF row
<1>6. /\ OthersKept(inv, inv', o) /\ ~inv'.resv[o].restocked
      /\ ShelfIn(inv) => ShelfIn(inv')
    BY <1>1, <1>2, ConsumeSound DEF IInv, FineExcept, OthersKept
<1>7. /\ checkout'[o] \in {"token", "closed"}
      /\ \A p \in Order \ {o} : checkout'[p] = checkout[p]
      /\ UNCHANGED event
    BY <1>1 DEF InitializeSucceeded, IInv, FineExcept, TypeOK
<1>8. checkout'[o] \notin {"none", "calling"}
    BY <1>7
<1> QED
    BY <1>3, <1>4, <1>5, <1>6, <1>7, <1>8, MovedQuiet DEF QInv

LEMMA InitializeFailedQuiet ==
    ASSUME IInv, QInv, NEW o \in Order, InitializeFailed(o) PROVE QInv'
<1> DEFINE row == SetStatus(orders[o], "cancelled")
<1>1. orders[o] \in OrderRow /\ inv.resv[o].st = "active" /\ checkout[o] = "calling"
    BY DEF InitializeFailed, IInv, FineExcept, QInv, Undisturbed, HasStatus, TypeOK
<1>2. row \in OrderRow /\ row.status = "cancelled"
    BY <1>1, SetStatusType DEF LegacyStatuses
<1>3. orders' = [orders EXCEPT ![o] = row]
    BY DEF InitializeFailed
<1> HIDE DEF row
<1>4. /\ OthersKept(inv, inv', o) /\ ~IsSold(inv'.resv[o])
      /\ ShelfIn(inv) => ShelfIn(inv')
    BY <1>1, ReleaseSound DEF InitializeFailed, IInv, FineExcept
<1>5. /\ checkout'[o] = "closed"
      /\ \A p \in Order \ {o} : checkout'[p] = checkout[p]
      /\ UNCHANGED event
    BY DEF InitializeFailed, IInv, FineExcept, TypeOK
<1>6. checkout'[o] \notin {"none", "calling"}
    BY <1>5
<1> QED
    BY <1>2, <1>3, <1>4, <1>5, <1>6, MovedQuiet DEF QInv

LEMMA InitializeAbortedQuiet ==
    ASSUME IInv, QInv, NEW o \in Order, InitializeAborted(o) PROVE QInv'
<1>1. /\ UNCHANGED <<orders, inv, event>>
      /\ checkout'[o] = "closed" /\ \A p \in Order \ {o} : checkout'[p] = checkout[p]
    BY DEF InitializeAborted, IInv, FineExcept, TypeOK
<1>2. Beside(o)
    BY <1>1 DEF Beside, OthersKept
<1>3. Undisturbed(o)' /\ (NoRefusals => Settled(o)')
    BY <1>1 DEF QInv, Undisturbed, Settled, HasStatus
<1> QED
    BY <1>1, <1>2, <1>3, StepQuiet DEF QInv

LEMMA CallbackArrivesQuiet ==
    ASSUME IInv, QInv, NEW o \in Order, CallbackArrives(o) PROVE QInv'
<1>1. /\ UNCHANGED <<orders, inv, checkout>> /\ checkout[o] = "token"
      /\ event'[o].outcome \in Outcomes
      /\ \A p \in Order \ {o} : event'[p] = event[p]
    BY DEF CallbackArrives, IInv, FineExcept, TypeOK
<1>2. Beside(o)
    BY <1>1 DEF Beside, OthersKept
<1>3. Undisturbed(o)' /\ (NoRefusals => Settled(o)')
    BY <1>1 DEF QInv, Undisturbed, Settled, HasStatus, NoRefusals
<1> QED
    BY <1>1, <1>2, <1>3, StepQuiet DEF QInv

LEMMA ProcessCallbackQuiet ==
    ASSUME IInv, QInv, NEW o \in Order, ProcessCallback(o) PROVE QInv'
<1> DEFINE current == orders[o].status
           next == TerminalGuardedStatus(current, event[o].outcome)
           row == SetStatus(orders[o], next)
<1>1. /\ event[o].st = "queued" /\ event[o].outcome \in {"paid", "cancelled"}
      /\ checkout[o] \notin {"none", "calling"}
      /\ orders[o] # NoOrder /\ orders[o] \in OrderRow
    BY DEF ProcessCallback, IInv, FineExcept, OrderFine, QInv, Undisturbed, TypeOK
<1>2. /\ inv' \in TransitionOrderInventory(inv, o, current, next)
      /\ orders' = [orders EXCEPT ![o] = row]
      /\ UNCHANGED checkout
    BY DEF ProcessCallback
<1>3. /\ event'[o].outcome = event[o].outcome
      /\ \A p \in Order \ {o} : event'[p] = event[p]
    BY DEF ProcessCallback, IInv, FineExcept, TypeOK
<1>4. /\ HasStatus(o, "cancelled") <=> current = "cancelled"
      /\ inv.resv[o].restocked => current = "cancelled"
    BY <1>1 DEF HasStatus, QInv, Undisturbed
<1>5. /\ next \in LegacyStatuses
      /\ current = "cancelled" => next = current
      /\ NoRefusals /\ next = "cancelled" => current = "cancelled"
    BY <1>1 DEF TerminalGuardedStatus, QInv, Settled, OrderRow, LegacyStatuses
<1>6. row \in OrderRow /\ row.status = next
    BY <1>1, <1>5, SetStatusType
<1> HIDE DEF next, row, current
<1>7. /\ OthersKept(inv, inv', o)
      /\ current = next => inv' = inv
      /\ next # "cancelled" => ~inv'.resv[o].restocked
      /\ ShelfIn(inv) => ShelfIn(inv')
    <2>1. CASE current = next
        BY <1>2, <1>4, <2>1, TransitionSound DEF IInv, FineExcept
    <2>2. CASE current # next
        BY <1>2, <1>4, <1>5, <2>2, TransitionSound DEF IInv, FineExcept
    <2> QED
        BY <2>1, <2>2
<1>8. ASSUME NoRefusals PROVE /\ ShelfIn(inv')
                              /\ row.status = "cancelled" => ~IsSold(inv'.resv[o])
    BY <1>4, <1>5, <1>6, <1>7, <1>8 DEF QInv, Settled
<1>9. checkout'[o] \notin {"none", "calling"}
    BY <1>1, <1>2
<1> QED
    BY <1>1, <1>2, <1>3, <1>6, <1>7, <1>8, <1>9, MovedQuiet

\* transitionOrderOperation, whatever the request: a cancelled order's stock was put back,
\* and no request cancels an order that was shipped.
LEMMA TransitionOrderQuiet ==
    ASSUME IInv, QInv, NEW o \in Order, orders[o] # NoOrder, checkout[o] # "calling",
           NEW changes, TransitionOrder(o, changes)
    PROVE  QInv'
<1> DEFINE current == orders[o].status
           next == NextLegacyStatus(orders[o], changes)
           row == TriggerUpdate(orders[o], [NormalizeChanges(orders[o], changes)
                                              EXCEPT !.status = next])
<1>1. orders[o] \in OrderRow /\ Agrees(orders[o]) /\ AcceptedChanges(orders[o], changes)
    BY DEF IInv, FineExcept, OrderFine, TypeOK, TransitionOrder
<1>2. row \in OrderRow /\ row.status = next
    BY <1>1, TransitionedRow
<1>3. /\ inv' \in TransitionOrderInventory(inv, o, current, next)
      /\ orders' = [orders EXCEPT ![o] = row]
      /\ UNCHANGED <<checkout, event>>
    BY DEF TransitionOrder
<1>4. /\ HasStatus(o, "cancelled") <=> current = "cancelled"
      /\ inv.resv[o].restocked => current = "cancelled"
    BY DEF HasStatus, QInv, Undisturbed
<1>5. current \in {"shipped", "delivered"} => next # "cancelled"
    BY <1>1, ShippedIsNotCancelled
<1> HIDE DEF next, row, current
<1>6. /\ OthersKept(inv, inv', o)
      /\ current = next => inv' = inv
      /\ next # "cancelled" => ~inv'.resv[o].restocked
      /\ current # next /\ next = "cancelled" => ~IsSold(inv'.resv[o])
      /\ ShelfIn(inv) /\ (current = "cancelled" => ~IsSold(inv.resv[o])) => ShelfIn(inv')
    <2>1. CASE current = next
        BY <1>3, <1>4, <2>1, TransitionSound DEF IInv, FineExcept
    <2>2. CASE current # next
        BY <1>3, <1>4, <1>5, <2>2, TransitionSound DEF IInv, FineExcept
    <2> QED
        BY <2>1, <2>2
<1>7. ASSUME NoRefusals PROVE /\ ShelfIn(inv')
                              /\ row.status = "cancelled" => ~IsSold(inv'.resv[o])
    <2>1. ShelfIn(inv) /\ (current = "cancelled" => ~IsSold(inv.resv[o]))
        BY <1>4, <1>7 DEF QInv, Settled
    <2> QED
        BY <1>2, <1>6, <2>1
<1>8. \/ checkout'[o] \notin {"none", "calling"}
      \/ checkout[o] = "none" /\ checkout'[o] = "none" /\ event'[o] = event[o]
    BY <1>3
<1> QED
    BY <1>2, <1>3, <1>6, <1>7, <1>8, MovedQuiet

LEMMA ExpireReservationQuiet ==
    ASSUME IInv, QInv, NEW o \in Order, checkout[o] # "calling", ExpireReservation(o)
    PROVE  QInv'
<1> DEFINE row == IF orders[o].status = "payment_pending"
                  THEN SetStatus(orders[o], "cancelled") ELSE orders[o]
<1>1. orders[o] \in OrderRow /\ inv.resv[o].st = "active" /\ ~inv.resv[o].restocked
    BY RestockedIsConsumed DEF ExpireReservation, Reachable, IInv, FineExcept, TypeOK
<1>2. row \in OrderRow
    BY <1>1, SetStatusType DEF LegacyStatuses
<1>3. orders' = [orders EXCEPT ![o] = row]
    BY DEF ExpireReservation
<1> HIDE DEF row
<1>4. /\ OthersKept(inv, inv', o) /\ ~inv'.resv[o].restocked /\ ~IsSold(inv'.resv[o])
      /\ ShelfIn(inv) => ShelfIn(inv')
    BY <1>1, ReleaseSound DEF ExpireReservation, IInv, FineExcept
<1>5. UNCHANGED <<checkout, event>>
    BY DEF ExpireReservation
<1>6. \/ checkout'[o] \notin {"none", "calling"}
      \/ checkout[o] = "none" /\ checkout'[o] = "none" /\ event'[o] = event[o]
    BY <1>5
<1> QED
    BY <1>2, <1>3, <1>4, <1>5, <1>6, MovedQuiet DEF QInv

LEMMA SetInventoryBalanceQuiet ==
    ASSUME IInv, QInv, NEW v \in Variant, SetInventoryBalance(v) PROVE QInv'
<1>1. PICK target \in 0..MaxStock :
         LET delta == target - (inv.onHand[v] - inv.reserved[v])
         IN inv' = [inv EXCEPT !.onHand[v] = @ + delta, !.adjusted[v] = @ + delta]
    BY DEF SetInventoryBalance
<1> DEFINE delta == target - (inv.onHand[v] - inv.reserved[v])
<1>2. delta \in Int
    BY BoundsAssumption DEF IInv, FineExcept, Sound, Inventory
<1>3. /\ inv'.onHand = [inv.onHand EXCEPT ![v] = inv.onHand[v] + delta]
      /\ inv'.adjusted = [inv.adjusted EXCEPT ![v] = inv.adjusted[v] + delta]
      /\ inv'.resv = inv.resv
    BY <1>1 DEF IInv, FineExcept, Sound, Inventory
<1>4. UNCHANGED <<orders, checkout, event>>
    BY DEF SetInventoryBalance
<1> HIDE DEF delta
<1>5. ASSUME ShelfIn(inv) PROVE ShelfIn(inv')
  <2> SUFFICES ASSUME NEW w \in Variant
               PROVE  inv'.onHand[w]
                        = InitialStock + inv'.adjusted[w] - Cardinality(Units(inv', w, IsSold))
      BY DEF ShelfIn
  <2>1. Units(inv', w, IsSold) = Units(inv, w, IsSold)
      BY <1>3 DEF Units
  <2> DEFINE n == Cardinality(Units(inv, w, IsSold))
  <2>2. /\ n \in Nat /\ InitialStock \in Nat /\ inv.onHand[w] \in Int
        /\ inv.adjusted[w] \in Int
        /\ inv.onHand[w] = InitialStock + inv.adjusted[w] - n
      BY <1>5, UnitsFinite, BoundsAssumption DEF ShelfIn, IInv, FineExcept, Sound, Inventory
  <2> HIDE DEF n
  <2>3. inv'.onHand[w] = InitialStock + inv'.adjusted[w] - n
      <3>1. CASE w = v
          <4>1. /\ inv'.onHand[w] = inv.onHand[w] + delta
                /\ inv'.adjusted[w] = inv.adjusted[w] + delta
              BY <1>3, <3>1 DEF IInv, FineExcept, Sound, Inventory
          <4> QED
              BY <1>2, <2>2, <4>1
      <3>2. CASE w # v
          <4>1. /\ inv'.onHand[w] = inv.onHand[w]
                /\ inv'.adjusted[w] = inv.adjusted[w]
              BY <1>3, <3>2 DEF IInv, FineExcept, Sound, Inventory
          <4> QED
              BY <2>2, <4>1
      <3> QED
          BY <3>1, <3>2
  <2> QED
      BY <2>1, <2>3 DEF n
<1>6. ASSUME NEW o \in Order PROVE Undisturbed(o)' /\ (NoRefusals => Settled(o)')
    BY <1>3, <1>4 DEF QInv, Undisturbed, Settled, HasStatus
<1> QED
    BY <1>5, <1>6 DEF QInv, NoRefusals

LEMMA OtherwiseQuiet ==
    ASSUME QInv, UNCHANGED <<orders, inv, checkout, event>> PROVE QInv'
<1>1. ASSUME NEW o \in Order PROVE Undisturbed(o)' /\ (NoRefusals => Settled(o)')
    BY DEF QInv, Undisturbed, Settled, HasStatus
<1> QED
    BY <1>1 DEF QInv, NoRefusals

\* With short provider calls every step keeps QInv.
LEMMA NextQuiet == ASSUME ~ProviderCallRaces, IInv, QInv, [Next]_vars PROVE QInv'
<1>1. ASSUME NEW o \in Order, PostOrder(o) PROVE QInv'
    BY <1>1, PostOrderQuiet
<1>2. ASSUME NEW o \in Order, InitializePayment(o) PROVE QInv'
    BY <1>2, InitializePaymentQuiet
<1>3. ASSUME NEW o \in Order, InitializeSucceeded(o) PROVE QInv'
    BY <1>3, InitializeSucceededQuiet
<1>4. ASSUME NEW o \in Order, InitializeFailed(o) PROVE QInv'
    BY <1>4, InitializeFailedQuiet
<1>5. ASSUME NEW o \in Order, InitializeAborted(o) PROVE QInv'
    BY <1>5, InitializeAbortedQuiet
<1>6. ASSUME NEW o \in Order, CallbackArrives(o) PROVE QInv'
    BY <1>6, CallbackArrivesQuiet
<1>7. ASSUME NEW o \in Order, ProcessCallback(o) PROVE QInv'
    BY <1>7, ProcessCallbackQuiet
<1>8. ASSUME NEW o \in Order, TransitionColumn(o) PROVE QInv'
    BY <1>8, TransitionOrderQuiet DEF TransitionColumn, Reachable
<1>9. ASSUME NEW o \in Order, SetLegacyStatus(o) PROVE QInv'
    BY <1>9, TransitionOrderQuiet DEF SetLegacyStatus, Reachable
<1>10. ASSUME NEW o \in Order, SetTrackingNumber(o) PROVE QInv'
    BY <1>10, TransitionOrderQuiet DEF SetTrackingNumber, Reachable
<1>11. ASSUME NEW o \in Order, ExpireReservation(o) PROVE QInv'
    <2>1. checkout[o] # "calling"
        BY <1>11 DEF ExpireReservation, Reachable
    <2> QED
        BY <1>11, <2>1, ExpireReservationQuiet
<1>12. ASSUME NEW v \in Variant, SetInventoryBalance(v) PROVE QInv'
    BY <1>12, SetInventoryBalanceQuiet
<1>13. CASE SetCouponOpen \/ UNCHANGED vars
    BY <1>13, OtherwiseQuiet DEF SetCouponOpen, vars
<1> QED
    BY <1>1, <1>2, <1>3, <1>4, <1>5, <1>6, <1>7, <1>8, <1>9, <1>10, <1>11, <1>12,
       <1>13 DEF Next

LEMMA QuietInvariance == ASSUME ~ProviderCallRaces PROVE Spec => []QInv
<1>1. Init => QInv
    BY InitQuiet
<1>2. IInv /\ QInv /\ [Next]_vars => QInv'
    BY NextQuiet
<1> QED
    BY <1>1, <1>2, Invariance, PTL DEF Spec

\* When no other transaction touches an order during its provider call, the stock of a paid
\* order has been deducted and not been put back: it was not cancelled since, and reopening
\* clears restocked_at.
THEOREM PaidStaysDeductedHolds == ASSUME ~ProviderCallRaces PROVE Spec => []PaidStaysDeducted
<1>1. IInv /\ QInv => PaidStaysDeducted
    BY DEF IInv, FineExcept, OrderFine, QInv, Undisturbed, PaidStaysDeducted, HasStatus, IsSold
<1> QED
    BY <1>1, Invariance, QuietInvariance, PTL

\* When the provider refuses no payment either, on_hand of every variant is the initial
\* stock and the manual adjustments less the units of the orders that stand as sold,
\* through any number of orders, cancellations, restocks and reopenings.
THEOREM StockMatchesReservationsHolds ==
    ASSUME ~ProviderCallRaces, Outcomes \subseteq {"paid"}
    PROVE  Spec => []StockMatchesReservations
<1>1. QInv => StockMatchesReservations
    BY DEF QInv, NoRefusals, ShelfIn, StockMatchesReservations
<1> QED
    BY <1>1, QuietInvariance, PTL

-----------------------------------------------------------------------------
(* The orders implement the stock account *)

Free(S, v) == S.onHand[v] - S.reserved[v]

\* The moves of the account between two inventories, seen at order o.
Takes(S, T, o) ==
    /\ S.resv[o].st # "active"
    /\ S.resv[o].st = "none" \/ T.resv[o].items = S.resv[o].items
    /\ T.resv[o].st = "active" \/ IsSold(T.resv[o])
    /\ \A v \in Variant : /\ T.resv[o].items[v] <= Free(S, v)
                          /\ Free(T, v) = Free(S, v) - T.resv[o].items[v]

Settles(S, T, o) ==
    /\ S.resv[o].st = "active"
    /\ IsSold(T.resv[o])
    /\ T.resv[o].items = S.resv[o].items
    /\ \A v \in Variant : Free(T, v) = Free(S, v)

GivesBack(S, T, o) ==
    /\ S.resv[o].st = "active" \/ IsSold(S.resv[o])
    /\ \/ T.resv[o].st \in {"released", "expired"}
       \/ T.resv[o].st = "consumed" /\ T.resv[o].restocked
    /\ T.resv[o].items = S.resv[o].items
    /\ \A v \in Variant : Free(T, v) = Free(S, v) + S.resv[o].items[v]

Moves(S, T, o) == T = S \/ Takes(S, T, o) \/ Settles(S, T, o) \/ GivesBack(S, T, o)

-----------------------------------------------------------------------------
\* A movement under a new key changes both counters by its signs.
LEMMA MoveBalances ==
    ASSUME NEW S \in Inventory, NEW items, NEW a, NEW b, NEW key, key \notin S.moves,
           NEW T \in Move(S, items, a, b, key)
    PROVE  /\ T.resv = S.resv
           /\ \A v \in Variant : /\ T.onHand[v] = S.onHand[v] + a * items[v]
                                 /\ T.reserved[v] = S.reserved[v] + b * items[v]
<1> DEFINE onHand == [v \in Variant |-> S.onHand[v] + a * items[v]]
           reserved == [v \in Variant |-> S.reserved[v] + b * items[v]]
<1>1. T = [S EXCEPT !.onHand = onHand, !.reserved = reserved, !.moves = S.moves \cup {key}]
    BY DEF Move
<1>2. \A v \in Variant : /\ onHand[v] = S.onHand[v] + a * items[v]
                         /\ reserved[v] = S.reserved[v] + b * items[v]
    OBVIOUS
<1> HIDE DEF onHand, reserved
<1>3. T.resv = S.resv /\ T.onHand = onHand /\ T.reserved = reserved
    BY <1>1 DEF Inventory
<1> QED
    BY <1>2, <1>3

\* The same with the row of the movement's reservation replaced, in units that are free.
LEMMA FreeMoved ==
    ASSUME NEW S \in Inventory, NEW o \in Order, NEW r \in Reservation,
           NEW S0, RowReplaced(S, S0, o, r),
           NEW a \in {-1, 0, 1}, NEW b \in {-1, 0, 1}, NEW key, key \notin S.moves,
           NEW T \in Move(S0, r.items, a, b, key)
    PROVE  /\ T.resv[o] = r
           /\ \A v \in Variant : /\ r.items[v] \in Nat
                                 /\ Free(S, v) \in Int
                                 /\ a = b => Free(T, v) = Free(S, v)
                                 /\ a = b + 1 => Free(T, v) = Free(S, v) + r.items[v]
                                 /\ b = a + 1 => Free(T, v) = Free(S, v) - r.items[v]
<1>1. /\ T.resv = S0.resv
      /\ \A v \in Variant : /\ T.onHand[v] = S.onHand[v] + a * r.items[v]
                            /\ T.reserved[v] = S.reserved[v] + b * r.items[v]
    BY MoveBalances DEF RowReplaced
<1>2. ASSUME NEW v \in Variant
      PROVE  r.items[v] \in Nat /\ S.onHand[v] \in Nat /\ S.reserved[v] \in Nat
    BY BoundsAssumption DEF Inventory, Reservation
<1>3. ASSUME NEW v \in Variant
      PROVE  /\ Free(S, v) \in Int
             /\ a = b => Free(T, v) = Free(S, v)
             /\ a = b + 1 => Free(T, v) = Free(S, v) + r.items[v]
             /\ b = a + 1 => Free(T, v) = Free(S, v) - r.items[v]
    <2>1. /\ T.onHand[v] = S.onHand[v] + a * r.items[v]
          /\ T.reserved[v] = S.reserved[v] + b * r.items[v]
        BY <1>1
    <2>2. a \in {-1, 0, 1} /\ b \in {-1, 0, 1}
        OBVIOUS
    <2> DEFINE n == r.items[v]  h == S.onHand[v]  k == S.reserved[v]
    <2>3. n \in Nat /\ h \in Nat /\ k \in Nat
        BY <1>2
    <2>4. Free(T, v) = (h + a * n) - (k + b * n) /\ Free(S, v) = h - k
        BY <2>1 DEF Free
    <2> HIDE DEF n, h, k
    <2>5. /\ h - k \in Int
          /\ a = b => (h + a * n) - (k + b * n) = h - k
          /\ a = b + 1 => (h + a * n) - (k + b * n) = h - k + n
          /\ b = a + 1 => (h + a * n) - (k + b * n) = h - k - n
        BY <2>2, <2>3
    <2> QED
        BY <2>4, <2>5 DEF n
<1> QED
    BY <1>1, <1>2, <1>3 DEF RowReplaced

\* What a move needs of a sound inventory: rows are typed and the current revision's keys
\* are used exactly as the row's status says.
LEMMA RowFacts ==
    ASSUME NEW S, Sound(S), NEW o \in Order
    PROVE  /\ S \in Inventory
           /\ S.resv[o] \in Reservation /\ S.resv[o].rev \in Nat
           /\ JournalOf(S, o)
           /\ S.resv[o].st = "active" => ~S.resv[o].restocked
           /\ \A v \in Variant : Free(S, v) \in Nat
<1>1. S \in Inventory /\ S.resv[o] \in Reservation /\ S.resv[o].rev \in Nat /\ JournalOf(S, o)
    BY DEF Sound, Inventory, Reservation, JournalIn
<1>2. S.resv[o].st = "active" => ~S.resv[o].restocked
    BY <1>1 DEF JournalOf, Reservation
<1>3. ASSUME NEW v \in Variant PROVE Free(S, v) \in Nat
    BY <1>1 DEF Sound, BackedIn, Inventory, Free
<1> QED
    BY <1>1, <1>2, <1>3

-----------------------------------------------------------------------------
(* The operations on a reservation *)

LEMMA ReserveMoves ==
    ASSUME NEW S, Sound(S), NEW o \in Order, NEW items \in ItemCounts,
           NEW key \in Key \cup {NoKey}, NEW T \in Reserve(S, o, items, key)
    PROVE  T = S \/ (Takes(S, T, o) /\ T.resv[o].st = "active")
<1>1. CASE S.resv[o].st # "none"
    BY <1>1 DEF Reserve
<1>2. CASE S.resv[o].st = "none"
    <2> DEFINE q == [st |-> "active", rev |-> 0, restocked |-> FALSE,
                     key |-> key, items |-> items]
               S0 == [S EXCEPT !.resv[o] = q]
               m == <<"reserve", o, 0>>
    <2>1. /\ T \in Move(S0, q.items, 0, 1, m)
          /\ \A v \in Variant : items[v] <= Free(S, v)
        BY <1>2 DEF Reserve, Free
    <2>2. q \in Reservation /\ q.st = "active" /\ q.items = items
        BY DEF Reservation, ReservationStatuses, ItemCounts
    <2>3. m \notin S.moves
        BY <1>2 DEF Sound, JournalIn, JournalOf
    <2>4. RowReplaced(S, S0, o, q)
        BY <2>2, RowReplacement DEF Sound
    <2> HIDE DEF q, S0, m
    <2>5. T.resv[o] = q /\ \A v \in Variant : Free(T, v) = Free(S, v) - items[v]
        BY <2>1, <2>2, <2>3, <2>4, RowFacts, FreeMoved
    <2> QED
        BY <1>2, <2>1, <2>2, <2>5 DEF Takes
<1> QED
    BY <1>1, <1>2

LEMMA ConsumeMoves ==
    ASSUME NEW S, Sound(S), NEW o \in Order, NEW T \in Consume(S, o)
    PROVE  T = S \/ Settles(S, T, o)
<1> DEFINE r == S.resv[o]
<1>1. CASE r.st = "consumed"
    BY <1>1 DEF Consume
<1>2. CASE r.st = "active"
    <2> DEFINE q == [r EXCEPT !.st = "consumed"]
               S0 == [S EXCEPT !.resv[o] = q]
               key == <<"consume", o, r.rev>>
    <2>1. T \in Move(S0, q.items, -1, -1, key)
        BY <1>2, RowFacts DEF Consume, Inventory, Reservation
    <2>2. /\ q \in Reservation
          /\ q.st = "consumed" /\ q.items = r.items /\ ~q.restocked
        BY <1>2, RowFacts DEF Reservation, ReservationStatuses
    <2>3. key \notin S.moves
        BY <1>2, RowFacts DEF JournalOf
    <2>4. RowReplaced(S, S0, o, q)
        BY <2>2, RowReplacement DEF Sound
    <2> HIDE DEF q, S0, key
    <2>5. T.resv[o] = q /\ \A v \in Variant : Free(T, v) = Free(S, v)
        BY <2>1, <2>2, <2>3, <2>4, RowFacts, FreeMoved
    <2> QED
        BY <1>2, <2>2, <2>5 DEF Settles, IsSold
<1> QED
    BY <1>1, <1>2 DEF Consume

LEMMA ReleaseMoves ==
    ASSUME NEW S, Sound(S), NEW o \in Order, NEW final \in {"released", "expired"},
           NEW T \in Release(S, o, final)
    PROVE  T = S \/ GivesBack(S, T, o)
<1> DEFINE r == S.resv[o]
<1>1. CASE r.st # "active"
    BY <1>1 DEF Release
<1>2. CASE r.st = "active"
    <2> DEFINE q == [r EXCEPT !.st = final]
               S0 == [S EXCEPT !.resv[o] = q]
               key == <<"release", o, r.rev>>
    <2>1. T \in Move(S0, q.items, 0, -1, key)
        BY <1>2, RowFacts DEF Release, Inventory, Reservation
    <2>2. q \in Reservation /\ q.st = final /\ q.items = r.items
        BY RowFacts DEF Reservation, ReservationStatuses
    <2>3. key \notin S.moves
        BY <1>2, RowFacts DEF JournalOf
    <2>4. RowReplaced(S, S0, o, q)
        BY <2>2, RowReplacement DEF Sound
    <2> HIDE DEF q, S0, key
    <2>5. T.resv[o] = q /\ \A v \in Variant : Free(T, v) = Free(S, v) + q.items[v]
        BY <2>1, <2>2, <2>3, <2>4, RowFacts, FreeMoved
    <2> QED
        BY <1>2, <2>2, <2>5 DEF GivesBack
<1> QED
    BY <1>1, <1>2

LEMMA RestockMoves ==
    ASSUME NEW S, Sound(S), NEW o \in Order, NEW T \in Restock(S, o)
    PROVE  T = S \/ GivesBack(S, T, o)
<1> DEFINE r == S.resv[o]
<1>0. S \in Inventory /\ r \in Reservation /\ r.rev \in Nat /\ JournalOf(S, o)
    BY RowFacts
<1>1. CASE r.st # "consumed" \/ r.restocked
    BY <1>1 DEF Restock
<1>2. CASE r.st = "consumed" /\ ~r.restocked
    <2> DEFINE q == [r EXCEPT !.restocked = TRUE]
               S0 == [S EXCEPT !.resv[o] = q]
               key == <<"restock", o, r.rev>>
    <2>1. T \in Move(S0, q.items, 1, 0, key)
        BY <1>2, RowFacts DEF Restock, Inventory, Reservation
    <2>2. q \in Reservation /\ q.st = "consumed" /\ q.items = r.items
        BY <1>2, RowFacts DEF Reservation, ReservationStatuses
    <2>r. q.restocked
        BY <1>2, RowFacts DEF Reservation, ReservationStatuses
    <2>3. key \notin S.moves
        BY <1>0, <1>2 DEF JournalOf
    <2>4. RowReplaced(S, S0, o, q)
        BY <2>2, RowReplacement DEF Sound
    <2> HIDE DEF q, S0, key
    <2>5. T.resv[o] = q /\ \A v \in Variant : Free(T, v) = Free(S, v) + q.items[v]
        BY <1>0, <2>1, <2>2, <2>3, <2>4, FreeMoved
    <2> QED
        BY <1>2, <2>2, <2>r, <2>5 DEF GivesBack, IsSold
<1> QED
    BY <1>1, <1>2

LEMMA ReactivateMoves ==
    ASSUME NEW S, Sound(S), NEW o \in Order, NEW T \in Reactivate(S, o)
    PROVE  T = S \/ (Takes(S, T, o) /\ T.resv[o].st = "active")
<1> DEFINE r == S.resv[o]
<1>0. S \in Inventory /\ r \in Reservation /\ r.rev \in Nat /\ JournalOf(S, o)
    BY RowFacts
<1>1. CASE r.st = "active"
    BY <1>1 DEF Reactivate
<1>2. CASE r.st \in {"consumed", "released", "expired"} /\ r.rev < MaxRevision
    <2> DEFINE q == [r EXCEPT !.st = "active", !.rev = r.rev + 1, !.restocked = FALSE]
               S0 == [S EXCEPT !.resv[o] = q]
               key == <<"reserve", o, r.rev + 1>>
    <2>1. T \in Move(S0, q.items, 0, 1, key)
        BY <1>2, RowFacts DEF Reactivate, Inventory, Reservation
    <2>2. q \in Reservation /\ q.st = "active" /\ q.items = r.items
        <3>1. r.rev + 1 \in Nat /\ r \in Reservation
            BY RowFacts
        <3> HIDE DEF r
        <3> QED
            BY <3>1 DEF Reservation, ReservationStatuses
    <2>3. key \notin S.moves
        BY <1>0, <1>2 DEF JournalOf
    <2>4. RowReplaced(S, S0, o, q)
        BY <2>2, RowReplacement DEF Sound
    <2> HIDE DEF q, S0, key
    <2>5. T.resv[o] = q /\ \A v \in Variant : Free(T, v) = Free(S, v) - q.items[v]
        BY <1>0, <2>1, <2>2, <2>3, <2>4, FreeMoved
    <2>6. \A v \in Variant : Free(T, v) \in Nat /\ Free(S, v) \in Nat /\ q.items[v] \in Nat
        <3>1. Sound(T)
            BY ReactivateSound
        <3> QED
            BY <2>2, <3>1, RowFacts, BoundsAssumption DEF Reservation
    <2>7. \A v \in Variant : q.items[v] <= Free(S, v)
        BY <2>5, <2>6
    <2> QED
        BY <1>2, <2>2, <2>5, <2>7 DEF Takes
<1> QED
    BY <1>1, <1>2 DEF Reactivate

\* A claim that is taken and settled in one transaction is one that is sold at once.
LEMMA TakeAndSettle ==
    ASSUME NEW S, NEW U, NEW T, NEW o \in Order,
           U = S \/ (Takes(S, U, o) /\ U.resv[o].st = "active"),
           T = U \/ Settles(U, T, o)
    PROVE  Moves(S, T, o)
<1>1. CASE Takes(S, U, o) /\ Settles(U, T, o)
    BY <1>1 DEF Takes, Settles, Moves
<1> QED
    BY <1>1 DEF Moves

LEMMA TransitionMoves ==
    ASSUME NEW S, Sound(S), NEW o \in Order, NEW previous, NEW next,
           NEW T \in TransitionOrderInventory(S, o, previous, next)
    PROVE  Moves(S, T, o)
<1>1. CASE previous # next /\ previous = "cancelled" /\ next = "payment_pending"
    BY <1>1, ReactivateMoves DEF TransitionOrderInventory, Moves
<1>2. CASE previous # next /\ previous = "cancelled" /\ next # "payment_pending"
    <2>1. PICK U \in Reactivate(S, o) : T \in Consume(U, o)
        BY <1>2 DEF TransitionOrderInventory
    <2> QED
        BY <2>1, ReactivateSound, ReactivateMoves, ConsumeMoves, TakeAndSettle
<1>3. CASE previous = next \/ previous # "cancelled"
    <2>1. \/ T = S
          \/ T \in Consume(S, o)
          \/ T \in Release(S, o, "released")
          \/ T \in Restock(S, o)
        BY <1>3 DEF TransitionOrderInventory
    <2> QED
        BY <2>1, ConsumeMoves, ReleaseMoves, RestockMoves DEF Moves
<1> QED
    BY <1>1, <1>2, <1>3

-----------------------------------------------------------------------------
(* The transactions *)

\* A transaction of one order that leaves its reservation's claim to a move.
LEMMA MoveImplements ==
    ASSUME Sound(inv), Sound(inv'), NEW o \in Order,
           OthersKept(inv, inv', o), Moves(inv, inv', o)
    PROVE  [Account!AccountNext]_(Account!accountVars)
<1> DEFINE claims == [p \in Order |-> ClaimOf(inv.resv[p])]
           after == [p \in Order |-> ClaimOf(inv'.resv[p])]
<1>1. /\ inv.resv[o] \in Reservation /\ inv'.resv[o] \in Reservation
      /\ \A v \in Variant : Free(inv, v) \in Nat /\ Free(inv', v) \in Nat
    BY RowFacts
<1>2. inv.resv \in [Order -> Reservation] /\ inv'.resv \in [Order -> Reservation]
    BY DEF Sound, Inventory
<1>3. after = [claims EXCEPT ![o] = ClaimOf(inv'.resv[o])]
    BY <1>2 DEF OthersKept
<1>4. /\ Available = [v \in Variant |-> Free(inv, v)]
      /\ Available' = [v \in Variant |-> Free(inv', v)]
    BY DEF Available, Free
<1>5. CASE inv' = inv
    BY <1>5 DEF Account!accountVars, Available
<1>6. CASE Takes(inv, inv', o)
    <2> DEFINE items == inv'.resv[o].items
    <2>1. items \in Account!Basket
        BY <1>1 DEF Reservation, Account!Basket
    <2>2. /\ claims[o].st # "held"
          /\ claims[o].st = "none" \/ items = claims[o].items
        BY <1>1, <1>6 DEF Takes, ClaimOf, IsSold, Reservation, ReservationStatuses
    <2>3. ClaimOf(inv'.resv[o]) \in {[st |-> s, items |-> items] : s \in {"held", "sold"}}
        BY <1>6 DEF Takes, ClaimOf, IsSold
    <2>4. /\ \A v \in Variant : items[v] <= Available[v]
          /\ Available' = [v \in Variant |-> Available[v] - items[v]]
        BY <1>4, <1>6 DEF Takes
    <2>5. Account!Take(o, items)
        BY <1>3, <2>2, <2>3, <2>4 DEF Account!Take
    <2> QED
        BY <2>1, <2>5 DEF Account!AccountNext
<1>7. CASE Settles(inv, inv', o)
    <2>1. /\ claims[o].st = "held"
          /\ ClaimOf(inv'.resv[o]) = [claims[o] EXCEPT !.st = "sold"]
        BY <1>7 DEF Settles, ClaimOf, IsSold
    <2>2. Available' = Available
        BY <1>4, <1>7 DEF Settles
    <2>3. Account!Settle(o)
        BY <1>3, <2>1, <2>2 DEF Account!Settle
    <2> QED
        BY <2>3 DEF Account!AccountNext
<1>8. CASE GivesBack(inv, inv', o)
    <2>1. /\ claims[o].st \in {"held", "sold"}
          /\ claims[o].items = inv.resv[o].items
          /\ ClaimOf(inv'.resv[o]) = [claims[o] EXCEPT !.st = "returned"]
        BY <1>8 DEF GivesBack, ClaimOf, IsSold
    <2>2. Available' = [v \in Variant |-> Available[v] + claims[o].items[v]]
        BY <1>4, <1>8, <2>1 DEF GivesBack
    <2>3. Account!GiveBack(o)
        BY <1>3, <2>1, <2>2 DEF Account!GiveBack
    <2> QED
        BY <2>3 DEF Account!AccountNext
<1> QED
    BY <1>5, <1>6, <1>7, <1>8 DEF Moves

\* The inventories before and after a step are sound.
LEMMA StepSound == ASSUME IInv, [Next]_vars PROVE Sound(inv) /\ Sound(inv')
BY NextInvariant DEF IInv, FineExcept

\* A transaction that does not touch the stock.
LEMMA QuietImplements ==
    ASSUME inv' = inv PROVE [Account!AccountNext]_(Account!accountVars)
BY DEF Account!accountVars, Available

LEMMA PlaceImplements ==
    ASSUME IInv, Sound(inv'), NEW o \in Order, NEW row, NEW items \in ItemCounts,
           NEW key \in Key \cup {NoKey}, NEW coupon, NEW consume,
           Place(o, row, items, key, coupon, consume)
    PROVE  [Account!AccountNext]_(Account!accountVars)
<1>1. PICK S \in Reserve(inv, o, items, key) :
         \E T \in IF consume THEN Consume(S, o) ELSE {S} : inv' = T
    BY DEF Place
<1>2. inv' = S \/ inv' \in Consume(S, o)
    BY <1>1
<1>3. Sound(S) /\ OthersKept(inv, S, o)
    BY <1>1, ReserveSound DEF IInv, FineExcept
<1>4. OthersKept(inv, inv', o)
    BY <1>2, <1>3, ConsumeSound DEF OthersKept
<1>5. Moves(inv, inv', o)
    BY <1>1, <1>2, <1>3, ReserveMoves, ConsumeMoves, TakeAndSettle DEF IInv, FineExcept
<1> QED
    BY <1>4, <1>5, MoveImplements DEF IInv, FineExcept

LEMMA TransitionImplements ==
    ASSUME IInv, Sound(inv'), NEW o \in Order, NEW previous, NEW next,
           inv' \in TransitionOrderInventory(inv, o, previous, next)
    PROVE  [Account!AccountNext]_(Account!accountVars)
BY TransitionSound, TransitionMoves, MoveImplements DEF IInv, FineExcept

LEMMA CountImplements ==
    ASSUME IInv, Sound(inv'), NEW v \in Variant, SetInventoryBalance(v)
    PROVE  [Account!AccountNext]_(Account!accountVars)
<1>1. inv \in Inventory /\ inv' \in Inventory
    BY DEF IInv, FineExcept, Sound
<1>2. /\ inv'.reserved = inv.reserved /\ inv'.resv = inv.resv
      /\ \A u \in Variant \ {v} : inv'.onHand[u] = inv.onHand[u]
    BY <1>1 DEF SetInventoryBalance, Inventory
<1>3. \A u \in Variant : inv'.onHand[u] - inv'.reserved[u] \in Nat
    BY <1>1 DEF Sound, BackedIn, Inventory
<1>4. /\ Available' \in [Variant -> Nat]
      /\ \A u \in Variant \ {v} : Available'[u] = Available[u]
    BY <1>2, <1>3 DEF Available
<1>5. Account!Count(v)
    BY <1>2, <1>4 DEF Account!Count
<1> QED
    BY <1>5 DEF Account!AccountNext

-----------------------------------------------------------------------------
(* The theorem *)

LEMMA InitImplements == ASSUME Init PROVE Account!AccountInit
<1>1. /\ inv.onHand = [v \in Variant |-> InitialStock]
      /\ inv.reserved = [v \in Variant |-> 0]
      /\ inv.resv = [o \in Order |-> NoReservation]
    BY DEF Init
<1>2. Available \in [Variant -> Nat]
    BY <1>1, BoundsAssumption DEF Available
<1>3. ClaimOf(NoReservation) = Account!NoClaim
    <2>1. /\ NoReservation.st = "none"
          /\ NoReservation.items = [v \in Variant |-> 0]
        BY DEF NoReservation
    <2> QED
        BY <2>1 DEF ClaimOf, IsSold, Account!NoClaim
<1> QED
    BY <1>1, <1>2, <1>3 DEF Account!AccountInit

LEMMA NextImplements ==
    ASSUME IInv, [Next]_vars PROVE [Account!AccountNext]_(Account!accountVars)
<1>s. Sound(inv) /\ Sound(inv')
    BY StepSound
<1>1. ASSUME NEW o \in Order, PostOrder(o) PROVE [Account!AccountNext]_(Account!accountVars)
    <2>1. \E row, consume : \E items \in Items, key \in Key \cup {NoKey}, coupon \in BOOLEAN :
             Place(o, row, items, key, coupon, consume)
        BY <1>1, Zenon DEF PostOrder
    <2>2. Items \subseteq ItemCounts
        BY DEF Items, ItemCounts
    <2> QED
        BY <1>s, <2>1, <2>2, PlaceImplements
<1>2. ASSUME NEW o \in Order, InitializePayment(o)
      PROVE  [Account!AccountNext]_(Account!accountVars)
    <2>1. PICK method \in Methods, mode \in ManualModes, items \in Items,
               key \in Key \cup {NoKey}, coupon \in BOOLEAN :
             LET consume == method = "iban" /\ mode = "consume"
                 pending == TriggerInsert("payment_pending", method)
             IN Place(o, IF consume THEN SetStatus(pending, "new") ELSE pending,
                      items, key, coupon, consume)
        BY <1>2 DEF InitializePayment
    <2>2. Items \subseteq ItemCounts
        BY DEF Items, ItemCounts
    <2> QED
        BY <1>s, <2>1, <2>2, PlaceImplements
<1>3. ASSUME NEW o \in Order, InitializeSucceeded(o)
      PROVE  [Account!AccountNext]_(Account!accountVars)
    <2>1. inv' = inv \/ inv' \in Consume(inv, o)
        BY <1>3 DEF InitializeSucceeded
    <2> QED
        BY <1>s, <2>1, QuietImplements, ConsumeSound, ConsumeMoves, MoveImplements DEF Moves
<1>4. ASSUME NEW o \in Order, InitializeFailed(o) \/ ExpireReservation(o)
      PROVE  [Account!AccountNext]_(Account!accountVars)
    <2>1. PICK final \in {"released", "expired"} : inv' \in Release(inv, o, final)
        BY <1>4 DEF InitializeFailed, ExpireReservation
    <2> QED
        BY <1>s, <2>1, ReleaseSound, ReleaseMoves, MoveImplements DEF Moves
<1>5. ASSUME NEW o \in Order, InitializeAborted(o) \/ CallbackArrives(o)
      PROVE  [Account!AccountNext]_(Account!accountVars)
    BY <1>5, QuietImplements DEF InitializeAborted, CallbackArrives
<1>6. ASSUME NEW o \in Order, ProcessCallback(o)
      PROVE  [Account!AccountNext]_(Account!accountVars)
    BY <1>s, <1>6, TransitionImplements DEF ProcessCallback
<1>7. ASSUME NEW o \in Order, TransitionColumn(o) \/ SetLegacyStatus(o) \/ SetTrackingNumber(o)
      PROVE  [Account!AccountNext]_(Account!accountVars)
    <2>1. PICK changes : TransitionOrder(o, changes)
        BY <1>7 DEF TransitionColumn, SetLegacyStatus, SetTrackingNumber
    <2> QED
        BY <1>s, <2>1, TransitionImplements DEF TransitionOrder
<1>8. ASSUME NEW v \in Variant, SetInventoryBalance(v)
      PROVE  [Account!AccountNext]_(Account!accountVars)
    BY <1>s, <1>8, CountImplements
<1>9. CASE SetCouponOpen \/ UNCHANGED vars
    BY <1>9, QuietImplements DEF SetCouponOpen, vars
<1> QED
    BY <1>1, <1>2, <1>3, <1>4, <1>5, <1>6, <1>7, <1>8, <1>9 DEF Next

\* The stock account is implemented: whatever checkouts, callbacks, expiry, administrators
\* and stock edits do, each step gives, keeps or takes the units of one claim, or edits one
\* balance, and the available stock is never overdrawn.
THEOREM StockIsAnAccountHolds == Spec => StockIsAnAccount
<1>1. Init => Account!AccountInit
    BY InitImplements
<1>2. IInv /\ [Next]_vars => [Account!AccountNext]_(Account!accountVars)
    BY NextImplements
<1> QED
    BY <1>1, <1>2, Invariance, PTL DEF Spec, StockIsAnAccount, Account!AccountSpec
=============================================================================
