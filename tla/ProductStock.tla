----------------------------- MODULE ProductStock -----------------------------
(***************************************************************************)
(* products.stock, the sum over the active variants of one product         *)
(* (services/inventory.js, services/productVariants.js,                    *)
(* modules/catalog/service.js, routes/products.js,                         *)
(* modules/imports/worker.js).  Orders, returns and bulk edits move the    *)
(* stock of variants they have locked, and then update the product from a  *)
(* sum; the product form and the import of a product lock the product      *)
(* first.  The sum is what was committed when that update started; it may  *)
(* have to wait for the product, and writes the old sum then.              *)
(***************************************************************************)
EXTENDS Naturals, FiniteSets

LOCAL INSTANCE Functions

CONSTANTS
    StockVariant,  \* variants of the product
    Keeper,        \* transactions in progress
    MaxAvailable   \* bound: available units of a variant

ASSUME StockAssumption == IsFiniteSet(StockVariant) /\ StockVariant # {} /\ MaxAvailable \in Nat

VARIABLES
    shelf,    \* available and is_active of each variant
    product,  \* stock and status of the product
    keeper,   \* the transaction of each request
    stale     \* whether the last sum was overtaken before it was written, or left out (history)

stockVars == <<shelf, product, keeper, stale>>

ShelfRows == [available : 0..MaxAvailable, active : BOOLEAN]
ProductStatuses == {"active", "draft", "out"}

\* change: the variants a transaction has locked, as it leaves them; form: it has locked the
\* product.
NoStockWork == [pc |-> "idle", form |-> FALSE, change |-> <<>>, sum |-> 0, late |-> FALSE]

VariantsAreFree(vs) == \A w \in Keeper : DOMAIN keeper[w].change \cap vs = {}
ProductIsFree(w) == \A u \in Keeper \ {w} : ~keeper[u].form

\* The shelf as the transaction of w sees it.
SeenShelf(w) == [v \in StockVariant |-> IF v \in DOMAIN keeper[w].change THEN keeper[w].change[v]
                                        ELSE shelf[v]]
ActiveSum(rows) ==
    FoldFunction(LAMBDA row, n : n + (IF row.active THEN row.available ELSE 0), 0, rows)

-----------------------------------------------------------------------------
\* Reservations, their ends, returns, bulk and API edits: applyInventoryMovement on the
\* variants they lock together.  An inactive variant may get units back.
MoveStock(w, vs, units) ==
    /\ keeper[w].pc = "idle" /\ VariantsAreFree(vs)
    /\ \A v \in vs : units[v] # shelf[v].available
    /\ keeper' = [keeper EXCEPT ![w] = [NoStockWork EXCEPT !.pc = "open",
           !.change = [v \in vs |-> [shelf[v] EXCEPT !.available = units[v]]]]]
    /\ UNCHANGED <<shelf, product, stale>>

\* The product form writes, and so locks, the product.
OpenForm(w) ==
    /\ keeper[w].pc = "idle" /\ ProductIsFree(w)
    /\ keeper' = [keeper EXCEPT ![w] = [NoStockWork EXCEPT !.pc = "form", !.form = TRUE]]
    /\ UNCHANGED <<shelf, product, stale>>

\* Then syncProductVariants locks all variants, sets those of the form to its numbers and
\* makes the others inactive.
WriteVariants(w, kept, units) ==
    /\ keeper[w].pc = "form" /\ VariantsAreFree(StockVariant)
    /\ keeper' = [keeper EXCEPT ![w].pc = "open",
           ![w].change = [v \in StockVariant |->
               IF v \in kept THEN [available |-> units[v], active |-> TRUE]
               ELSE [shelf[v] EXCEPT !.active = FALSE]]]
    /\ UNCHANGED <<shelf, product, stale>>

\* applyProductUpsert locks variant and product and makes the variant active; then
\* setInventoryBalance moves it to the number of the file, or returns if it has that already.
ImportVariant(w, v, units) ==
    /\ keeper[w].pc = "idle" /\ VariantsAreFree({v}) /\ ProductIsFree(w)
    /\ keeper' = [keeper EXCEPT ![w] = [NoStockWork EXCEPT
           !.pc = IF units = shelf[v].available THEN "unmoved" ELSE "open",
           !.form = TRUE,
           !.change = [x \in {v} |-> [available |-> units, active |-> TRUE]]]]
    /\ UNCHANGED <<shelf, product, stale>>

\* Mutant of SumVariants: the sum is taken before the variants are written.
SumOldVariants(w) ==
    /\ keeper[w].pc = "open"
    /\ keeper' = [keeper EXCEPT ![w].pc = "summed", ![w].sum = ActiveSum(shelf)]
    /\ UNCHANGED <<shelf, product, stale>>

\* syncProductStock takes its snapshot.
SumVariants(w) ==
    /\ keeper[w].pc = "open"
    /\ keeper' = [keeper EXCEPT ![w].pc = "summed", ![w].sum = ActiveSum(SeenShelf(w))]
    /\ UNCHANGED <<shelf, product, stale>>

\* The status syncProductStock gives the product.
SyncedStatus(status, sum) ==
    IF sum = 0 THEN "out" ELSE IF status = "out" THEN "active" ELSE status

\* w commits: sums of others that had their snapshot are late now.
Overtaken(w) ==
    [u \in Keeper |->
        IF u = w THEN NoStockWork
        ELSE IF keeper[u].pc = "summed" THEN [keeper[u] EXCEPT !.late = TRUE] ELSE keeper[u]]

\* The product is free, the sum is written and the transaction commits.  A form and an import
\* have set the status before.
SyncProduct(w) ==
    LET q == keeper[w]
    IN /\ q.pc = "summed" /\ ProductIsFree(w)
       /\ \E status \in IF q.form THEN ProductStatuses ELSE {product.status} :
            product' = [stock |-> q.sum, status |-> SyncedStatus(status, q.sum)]
       /\ shelf' = SeenShelf(w)
       /\ stale' = q.late
       /\ keeper' = Overtaken(w)

\* An import that moved nothing commits without a sum, though its variant may count again.
CommitUnmoved(w) ==
    /\ keeper[w].pc = "unmoved"
    /\ \E status \in ProductStatuses : product' = [product EXCEPT !.status = status]
    /\ shelf' = SeenShelf(w)
    /\ stale' = (stale \/ ActiveSum(SeenShelf(w)) # ActiveSum(shelf))
    /\ keeper' = Overtaken(w)

\* An error, or the deadlock of a form or import that waits for a variant with a movement that waits
\* for the product, of which PostgreSQL aborts one.
AbortStockWork(w) ==
    /\ keeper[w].pc # "idle"
    /\ keeper' = [keeper EXCEPT ![w] = NoStockWork]
    /\ UNCHANGED <<shelf, product, stale>>

\* POST bulk: the status alone.
SetProductStatus(status) ==
    /\ \A w \in Keeper : ~keeper[w].form
    /\ product' = [product EXCEPT !.status = status]
    /\ UNCHANGED <<shelf, keeper, stale>>

-----------------------------------------------------------------------------
\* The product was created, and its sum taken, with nothing on the shelf.
StockInit ==
    /\ shelf = [v \in StockVariant |-> [available |-> 0, active |-> TRUE]]
    /\ product = [stock |-> ActiveSum(shelf), status |-> "out"]
    /\ keeper = [w \in Keeper |-> NoStockWork]
    /\ stale = FALSE

StockNext ==
    \/ \E w \in Keeper :
         \/ \E vs \in SUBSET StockVariant \ {{}} :
              \E units \in [vs -> 0..MaxAvailable] : MoveStock(w, vs, units)
         \/ \E kept \in SUBSET StockVariant \ {{}} :
              \E units \in [kept -> 0..MaxAvailable] : WriteVariants(w, kept, units)
         \/ \E v \in StockVariant, units \in 0..MaxAvailable : ImportVariant(w, v, units)
         \/ OpenForm(w) \/ SumVariants(w) \/ SyncProduct(w) \/ CommitUnmoved(w)
         \/ AbortStockWork(w)
    \/ \E status \in ProductStatuses : SetProductStatus(status)

StockSpec == StockInit /\ [][StockNext]_stockVars

-----------------------------------------------------------------------------
(* Properties *)

\* Rows and transactions hold values of their kind.
StockTypeOK ==
    /\ shelf \in [StockVariant -> ShelfRows]
    /\ product.stock \in 0..MaxAvailable * Cardinality(StockVariant)
    /\ product.status \in ProductStatuses
    /\ \A w \in Keeper :
         /\ keeper[w].pc \in {"idle", "form", "open", "unmoved", "summed"}
         /\ \A v \in DOMAIN keeper[w].change : keeper[w].change[v] \in ShelfRows
         /\ keeper[w].form \in BOOLEAN /\ keeper[w].late \in BOOLEAN
    /\ stale \in BOOLEAN

\* "product stock is only a read model of active variant available balances"
\* (test/inventoryPassiveVariant.test.js:18): the stock the storefront lists is the sum over
\* the active variants, after a product form always, which nobody can overtake.  It is not when
\* the last sum came from a movement that another one overtook, and after an import made a
\* variant active whose number of units was right; the next sum on its own repairs both.
ShelfMatchesVariants ==
    /\ ~stale => product.stock = ActiveSum(shelf)
    /\ \A w \in Keeper : keeper[w].form => ~keeper[w].late
=============================================================================
