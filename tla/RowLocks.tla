------------------------------ MODULE RowLocks ------------------------------
(***************************************************************************)
(* Which rows the transactions of the order core lock, and in which order  *)
(* (services/inventoryReservations.js, services/orderOperations.js,        *)
(* services/promotionEngine.js, routes/payment.js,                         *)
(* modules/returns/service.js, services/productVariants.js).  What they    *)
(* write is in OrderInventory, OrderReturns and ProductStock; here a       *)
(* transaction is the list of its locks, and who waits for whom is the     *)
(* question.  PostgreSQL ends a circle of waiting transactions by aborting *)
(* one of them, and its caller sees an error.                              *)
(* Left out are rows that only one transaction can reach (the order a      *)
(* checkout has just inserted), transactions with a single lock, the cart  *)
(* and the customer of a checkout, the rows of imports and notifications,  *)
(* and the KEY SHARE on products, which nothing below is in the way of.    *)
(***************************************************************************)
EXTENDS Naturals, FiniteSets, SequencesExt

CONSTANTS
    Transaction,    \* connections in use
    OrderId,        \* orders placed before
    NumVariants,    \* variants have the ids 1..NumVariants
    Stocked,        \* the variants of the reservation of each order
    ProductId,
    ProductOf,      \* the product of each variant
    OrdersLimited,  \* whether the plan of the store limits its orders per month
    BatchLimit      \* bound: reservations one expiry run takes

VariantId == 1..NumVariants

ASSUME LockAssumption ==
    /\ IsFiniteSet(OrderId)
    /\ NumVariants \in Nat
    /\ Stocked \in [OrderId -> SUBSET VariantId]
    /\ ProductOf \in [VariantId -> ProductId]
    /\ OrdersLimited \in BOOLEAN

VARIABLE work  \* what each transaction does: the locks it takes, and how many it has

lockVars == <<work>>

NoWork == [kind |-> "none", locks |-> <<>>, taken |-> 0]

-----------------------------------------------------------------------------
(* Locks *)

\* FOR UPDATE, the FOR NO KEY UPDATE of an UPDATE that leaves the keys alone, and the FOR KEY
\* SHARE with which a foreign key is checked.
ForUpdate(table, id) == [table |-> table, id |-> id, mode |-> "update"]
Written(table, id) == [table |-> table, id |-> id, mode |-> "write"]
Referenced(table, id) == [table |-> table, id |-> id, mode |-> "share"]

SameRow(l, m) == l.table = m.table /\ l.id = m.id
Clash(l, m) ==
    /\ SameRow(l, m)
    /\ "update" \in {l.mode, m.mode} \/ "share" \notin {l.mode, m.mode}

Waiting(t) == work[t].taken < Len(work[t].locks)
Wanted(t) == work[t].locks[work[t].taken + 1]

\* u has a lock that t cannot get beside it.
WaitsFor(t, u) ==
    t # u /\ Waiting(t) /\ \E i \in 1..work[u].taken : Clash(Wanted(t), work[u].locks[i])

\* None of these goes on before another of them does.
Deadlocked(D) == D # {} /\ \A t \in D : \E u \in D : WaitsFor(t, u)

-----------------------------------------------------------------------------
(* Lists of locks *)

\* The lists of the members of S, and those in ascending order.
ListsOf(S) == {s \in [1..Cardinality(S) -> S] : \A i, j \in DOMAIN s : s[i] = s[j] => i = j}
AscendingListsOf(S) ==
    {s \in [1..Cardinality(S) -> S] : \A i, j \in DOMAIN s : i < j => s[i] < s[j]}

VariantLocks(s) == [i \in DOMAIN s |-> ForUpdate("variant", s[i])]
\* syncProductStock: one UPDATE of all products, in an order it does not say.
ProductLocks(q) == [i \in DOMAIN q |-> Written("product", q[i])]
ProductsOf(vs) == {ProductOf[v] : v \in vs}

\* Mutant of StockLocks: the variants come in the order of the items.
UnsortedStockLocks(vs) ==
    {VariantLocks(s) \o ProductLocks(q) : s \in ListsOf(vs), q \in ListsOf(ProductsOf(vs))}

\* applyInventoryMovement on some variants in ascending order, then syncProductStock.
StockLocks(vs) ==
    {VariantLocks(s) \o ProductLocks(q) : s \in AscendingListsOf(vs), q \in ListsOf(ProductsOf(vs))}

\* transitionOrderOperation, transitionOrderInventory and transitionOrderPromotion.
TransitionLocks(o) ==
    {<<ForUpdate("order", o), ForUpdate("reservation", o)>> \o stock
        \o <<ForUpdate("redemption", o)>> : stock \in StockLocks(Stocked[o])}

\* createInventoryReservation, after the foreign keys of the new order items were checked in
\* the order of the items.
ReserveLocks(items) ==
    {[i \in DOMAIN items |-> Referenced("variant", items[i])] \o stock :
        stock \in StockLocks(Range(items))}

ItemLists == UNION {ListsOf(vs) : vs \in (SUBSET VariantId) \ {{}}}

\* lockCapacity, when the plan has a limit, and the coupon, when the customer has one.
CapacityLock == IF OrdersLimited THEN <<ForUpdate("capacity", 0)>> ELSE <<>>
CouponLocks == {<<>>, <<ForUpdate("coupon", 0)>>}

\* Mutant of CheckoutLocks: the limit is looked at last.
CapacityLast(items) ==
    {coupon \o reserve \o CapacityLock : coupon \in CouponLocks, reserve \in ReserveLocks(items)}

CheckoutLocks(items) ==
    {CapacityLock \o coupon \o reserve : coupon \in CouponLocks, reserve \in ReserveLocks(items)}

\* What an expiry run does to each reservation it has: releaseReservation, then the order.
ExpiryLocks(o) ==
    {stock \o <<Written("order", o), ForUpdate("redemption", o)>> :
        stock \in StockLocks(Stocked[o])}

-----------------------------------------------------------------------------
(* Transactions *)

StartWork(t, kind, locks) ==
    work' = [work EXCEPT ![t] = [kind |-> kind, locks |-> locks, taken |-> 0]]

\* A callback, an administrator or, with the request locked, the approval of a cancellation
\* moves an order on.
Settle(t, o) ==
    \E approval \in {<<>>, <<ForUpdate("request", o)>>}, locks \in TransitionLocks(o) :
        StartWork(t, "settle", approval \o locks)

\* A cancelled order with a coupon is taken up again.
Reopen(t, o) ==
    \E locks \in TransitionLocks(o) : StartWork(t, "reopen", locks \o <<ForUpdate("coupon", 0)>>)

\* PATCH /bulk-stock and POST /inventory/adjustments set the stock of variants they name:
\* setInventoryBalances sorts them.
Adjust(t, vs) == \E locks \in StockLocks(vs) : StartWork(t, "adjust", locks)

\* Entries that name a product alone sort as 0, and so lock its default variant in the order
\* they came, before the others.
AdjustDefaults(t, defaults, vs) ==
    \E named \in AscendingListsOf(vs), q \in ListsOf(ProductsOf(Range(defaults) \cup vs)) :
        StartWork(t, "adjustDefaults", VariantLocks(defaults \o named) \o ProductLocks(q))

\* Both checkouts, up to the commit before the provider is called.
BeginCheckout(t, items) == \E locks \in CheckoutLocks(items) : StartWork(t, "checkout", locks)

\* After the provider was called, when it could not be reached or there was nothing to pay: the
\* reservation is released or consumed, then the coupon, and the order is written last.
Compensate(t, o) ==
    \E stock \in StockLocks(Stocked[o]) :
        StartWork(t, "compensate", <<ForUpdate("reservation", o)>> \o stock
                               \o <<ForUpdate("redemption", o), Written("order", o)>>)

\* The reservations of the batch, and then what is done to each.
BeginExpiry(t, batch) ==
    \E each \in [DOMAIN batch -> UNION {ExpiryLocks(o) : o \in OrderId}] :
        /\ \A i \in DOMAIN batch : each[i] \in ExpiryLocks(batch[i])
        /\ work' = [work EXCEPT ![t] = [kind |-> "expire",
               locks |-> [i \in DOMAIN batch |-> ForUpdate("reservation", batch[i])]
                         \o FlattenSeq(each),
               taken |-> Len(batch)]]

\* Mutant of Expire: the reservations are read and not locked.
ExpireUnlocked(t, batch) == BeginExpiry(t, batch)

\* expireInventoryReservations: FOR UPDATE SKIP LOCKED takes reservations nobody has, all at
\* once.
Expire(t, batch) ==
    /\ \A o \in Range(batch), u \in Transaction :
         ~\E i \in 1..work[u].taken : SameRow(work[u].locks[i], ForUpdate("reservation", o))
    /\ BeginExpiry(t, batch)

\* decideReturnRequest approves an exchange, whose new order reserves like a checkout.
Exchange(t, o, items) ==
    \E locks \in ReserveLocks(items) :
        StartWork(t, "exchange", <<ForUpdate("request", o), ForUpdate("order", o)>> \o locks)

\* receiveReturnRequest restocks in the order of the receipt.
Receive(t, o, s) ==
    \E q \in ListsOf(ProductsOf(Range(s))) :
        StartWork(t, "receive", <<ForUpdate("request", o)>> \o VariantLocks(s) \o ProductLocks(q))

\* The product form writes the product, and syncProductVariants locks all its variants.
EditProduct(t, p) ==
    \E s \in ListsOf({v \in VariantId : ProductOf[v] = p}) :
        StartWork(t, "edit", <<Written("product", p)>> \o VariantLocks(s))

-----------------------------------------------------------------------------
TakeLock(t) ==
    /\ Waiting(t) /\ ~\E u \in Transaction : WaitsFor(t, u)
    /\ work' = [work EXCEPT ![t].taken = @ + 1]

\* Commit, or an early return or an error before.
End(t) ==
    /\ work[t] # NoWork /\ ~\E u \in Transaction : WaitsFor(t, u)
    /\ work' = [work EXCEPT ![t] = NoWork]

\* PostgreSQL aborts one of a circle.
AbortDeadlocked(t) ==
    /\ \E D \in SUBSET Transaction : t \in D /\ Deadlocked(D)
    /\ work' = [work EXCEPT ![t] = NoWork]

LockInit == work = [t \in Transaction |-> NoWork]

\* A connection that is free takes up something to do.
TakeUp(t) ==
    \/ \E o \in OrderId : Settle(t, o) \/ Reopen(t, o) \/ Compensate(t, o)
    \/ \E vs \in (SUBSET VariantId) \ {{}} : Adjust(t, vs)
    \/ \E items \in ItemLists :
         \/ BeginCheckout(t, items)
         \/ \E o \in OrderId : Exchange(t, o, items) \/ Receive(t, o, items)
         \/ \E vs \in SUBSET (VariantId \ Range(items)) : AdjustDefaults(t, items, vs)
    \/ \E S \in (SUBSET OrderId) \ {{}} :
         Cardinality(S) <= BatchLimit /\ \E batch \in ListsOf(S) : Expire(t, batch)
    \/ \E p \in ProductId : EditProduct(t, p)

LockNext ==
    \E t \in Transaction :
        \/ work[t] = NoWork /\ TakeUp(t)
        \/ TakeLock(t) \/ End(t) \/ AbortDeadlocked(t)

LockSpec == LockInit /\ [][LockNext]_lockVars

-----------------------------------------------------------------------------
(* Properties *)

WorkKinds == {"none", "settle", "reopen", "adjust", "adjustDefaults", "checkout", "compensate",
              "expire", "exchange", "receive", "edit"}

\* A transaction has taken a part of its locks, and none that clashes with another's.
LocksAreHeld ==
    \A t \in Transaction :
        /\ work[t].kind \in WorkKinds
        /\ work[t].taken \in 0..Len(work[t].locks)
        /\ \A u \in Transaction \ {t} : \A i \in 1..work[t].taken, j \in 1..work[u].taken :
             ~Clash(work[t].locks[i], work[u].locks[j])

\* "This query locks every requested stock unit in ascending variant order. Concurrent
\* checkouts therefore serialize without deadlock or oversell."
\* (services/inventoryReservations.js:69-70)
CheckoutsSerialize ==
    \A D \in SUBSET Transaction : Deadlocked(D) => \E t \in D : work[t].kind # "checkout"

\* Callbacks, administrators, reopened orders and stock edits follow one order, order before
\* reservation before ascending variants before products before coupon: they deadlock over
\* nothing but products, when one has a product and waits for another (syncProductStock).
SettlementsSerialize ==
    \A D \in SUBSET Transaction :
        Deadlocked(D) /\ (\A t \in D : work[t].kind \in {"settle", "reopen", "adjust"})
        => \E t \in D : /\ Wanted(t).table = "product"
                        /\ \E i \in 1..work[t].taken : work[t].locks[i].table = "product"

\* The deadlocks of checkouts alone and of settlements alone are those over products, and those
\* of checkouts when no limit of the plan serializes them.
DeadlocksAreKnown == (OrdersLimited => CheckoutsSerialize) /\ SettlementsSerialize
=============================================================================
