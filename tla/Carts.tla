-------------------------------- MODULE Carts --------------------------------
(***************************************************************************)
(* The stored carts of one shopper (modules/cart/service.js, routes/cart.js)*)
(* and the checkouts that turn them into orders (routes/payment.js), one   *)
(* transaction per action: every request locks the cart row it works on.   *)
(*                                                                         *)
(* A quantity stands for the lines of a cart.  The order takes its lines   *)
(* from the request; the cart's version, if the request names it, ties     *)
(* them to what the shopper saw.  A checkout without a cart touches none   *)
(* and is left out.                                                        *)
(* Reminders of abandoned carts are left out: no code sets recovery_consent*)
(* or registers a delivery adapter, so no cart is ever abandoned.          *)
(***************************************************************************)
EXTENDS Naturals, FiniteSets

CONSTANTS
    Cart,        \* rows carts may hold
    NoCart,
    Checkout,    \* checkouts, each with an order of its own
    NoCheckout,
    MaxQty,      \* MAX_QTY of a line (99 in the code)
    MaxVersion   \* bound: versions of a cart

ASSUME CartAssumption ==
    /\ NoCart \notin Cart /\ NoCheckout \notin Checkout
    /\ {MaxQty, MaxVersion} \subseteq Nat \ {0}

VARIABLES
    carts,      \* carts: status, owner, lines, version and converted_order_id
    checkouts   \* each checkout: where it is, its cart and what the shopper saw

cartVars == <<carts, checkouts>>

CartStates ==
    [st : {"none", "active", "converted", "merged", "ended"},
     owner : {"customer", "guest"}, qty : 0..MaxQty, version : 0..MaxVersion,
     order : Checkout \cup {NoCheckout}]
CheckoutStates ==
    [pc : {"idle", "seen", "refused", "initializing", "failing", "cancelled", "stuck", "placed"},
     cart : Cart \cup {NoCart}, version : 0..MaxVersion, qty : 0..MaxQty]

\* A request without cart_version; the versions of rows begin at 1.
NoVersion == 0

Unborn == [st |-> "none", owner |-> "guest", qty |-> 0, version |-> 0, order |-> NoCheckout]
Born(owner, qty) == [Unborn EXCEPT !.st = "active", !.owner = owner, !.qty = qty, !.version = 1]
NoView == [pc |-> "idle", cart |-> NoCart, version |-> NoVersion, qty |-> 0]
OfCustomer(c) == carts[c].owner = "customer" /\ carts[c].st = "active"
CustomerCarts == {c \in Cart : OfCustomer(c)}

\* persistPricedCart: lines and version are written together.
Priced(table, c, qty) == [table EXCEPT ![c].qty = qty, ![c].version = @ + 1]

-----------------------------------------------------------------------------
(* service.js *)

\* resolveCart for a signed-in shopper: the active cart or a new one; the unique index keeps
\* two requests from creating two.
ResolveCustomerCart(c) ==
    \/ OfCustomer(c)
    \/ CustomerCarts = {} /\ carts[c] = Unborn
Resolved(c, owner) == IF carts[c] = Unborn THEN [carts EXCEPT ![c] = Born(owner, 0)] ELSE carts

\* The first request of a guest creates a cart; the cookie names it from then on.
ResolveGuestCart(c) ==
    \/ carts[c].owner = "guest" /\ carts[c].st = "active"
    \/ carts[c] = Unborn

\* mutateCart: items added, changed, removed or cleared, a coupon or a gift wrap.
MutateCart(c, owner) ==
    /\ IF owner = "customer" THEN ResolveCustomerCart(c) ELSE ResolveGuestCart(c)
    /\ carts[c].version < MaxVersion - 1
    /\ \E qty \in 0..MaxQty : carts' = Priced(Resolved(c, owner), c, qty)
    /\ UNCHANGED checkouts

\* viewCart prices a filled cart again and writes it back, whether or not anything moved;
\* lines that ran out of stock shrink.
ViewCart(c) ==
    /\ carts[c].st = "active" /\ carts[c].qty > 0
    /\ carts[c].version < MaxVersion
    /\ \E qty \in 0..carts[c].qty : carts' = Priced(carts, c, qty)
    /\ UNCHANGED checkouts

\* mergeGuestIntoCustomer
MergeGuestIntoCustomer(g, c) ==
    LET sum == carts[g].qty + carts[c].qty
    IN /\ g # c
       /\ carts[g].owner = "guest" /\ carts[g].st = "active"
       /\ ResolveCustomerCart(c)
       /\ carts[c].version < MaxVersion - 1
       /\ carts' = [Priced(Resolved(c, "customer"), c, IF sum > MaxQty THEN MaxQty ELSE sum)
                    EXCEPT ![g].st = "merged", ![g].owner = "customer"]
       /\ UNCHANGED checkouts

\* expireStaleCarts and cancelCart: the row is expired or cancelled, which nothing tells apart.
EndCart(c) ==
    /\ carts[c].st = "active"
    /\ carts' = [carts EXCEPT ![c].st = "ended"]
    /\ UNCHANGED checkouts

-----------------------------------------------------------------------------
(* routes/payment.js *)

\* The shopper opens the checkout page with what the storefront last answered; an empty cart
\* is refused.  The client may leave out cart_version.
OpenCheckout(k, c) ==
    /\ checkouts[k].pc = "idle"
    /\ carts[c].st = "active" /\ carts[c].qty > 0
    /\ \E version \in {carts[c].version, NoVersion} :
         checkouts' = [checkouts EXCEPT ![k] =
             [pc |-> "seen", cart |-> c, version |-> version, qty |-> carts[c].qty]]
    /\ UNCHANGED carts

\* prepareCartConversion compares the version only if the request has one.
VersionConflict(k) ==
    checkouts[k].version \notin {NoVersion, carts[checkouts[k].cart].version}

Convert(k) ==
    /\ carts' = [carts EXCEPT ![checkouts[k].cart].st = "converted",
                              ![checkouts[k].cart].order = k]
    /\ checkouts' = [checkouts EXCEPT ![k].pc = "initializing"]

\* Mutant of PlaceOrder: prepareCartConversion without its status check.
PlaceOrderAgain(k) ==
    /\ checkouts[k].pc = "seen"
    /\ carts[checkouts[k].cart].st \in {"active", "converted"}
    /\ ~VersionConflict(k)
    /\ Convert(k)

\* prepareCartConversion locks and checks the cart, the order is written, markCartConverted,
\* commit.
PlaceOrder(k) ==
    /\ checkouts[k].pc = "seen"
    /\ carts[checkouts[k].cart].st = "active"
    /\ ~VersionConflict(k)
    /\ Convert(k)

\* The cart was converted, ended or changed: 409.
RefuseOrder(k) ==
    /\ checkouts[k].pc = "seen"
    /\ carts[checkouts[k].cart].st # "active" \/ VersionConflict(k)
    /\ checkouts' = [checkouts EXCEPT ![k] = [NoView EXCEPT !.pc = "refused"]]
    /\ UNCHANGED carts

\* initializePayment, outside any transaction, succeeds or fails; when the process dies in
\* between, the order stays pending and its cart converted, as after a success.
InitializePayment(k) ==
    /\ checkouts[k].pc = "initializing"
    /\ \E pc \in {"placed", "failing"} : checkouts' = [checkouts EXCEPT ![k].pc = pc]
    /\ UNCHANGED carts

\* The transaction after a failed initialization: the order is cancelled and
\* restoreConvertedCart makes its cart active.  When the customer has another active cart by
\* now, the unique index refuses that and the whole transaction rolls back.
CompensateCheckout(k) ==
    LET c == checkouts[k].cart
        clash == carts[c].owner = "customer" /\ CustomerCarts # {}
    IN /\ checkouts[k].pc = "failing"
       /\ IF clash
          THEN checkouts' = [checkouts EXCEPT ![k].pc = "stuck"] /\ UNCHANGED carts
          ELSE /\ checkouts' = [checkouts EXCEPT ![k].pc = "cancelled"]
               /\ carts' = [carts EXCEPT ![c].st = "active", ![c].order = NoCheckout]

-----------------------------------------------------------------------------
CartInit ==
    /\ carts = [c \in Cart |-> Unborn]
    /\ checkouts = [k \in Checkout |-> NoView]

CartNext ==
    \/ \E c \in Cart :
         \/ ViewCart(c) \/ EndCart(c)
         \/ \E owner \in {"customer", "guest"} : MutateCart(c, owner)
         \/ \E g \in Cart : MergeGuestIntoCustomer(g, c)
    \/ \E k \in Checkout :
         \/ PlaceOrder(k) \/ RefuseOrder(k) \/ InitializePayment(k) \/ CompensateCheckout(k)
         \/ \E c \in Cart : OpenCheckout(k, c)

CartSpec == CartInit /\ [][CartNext]_cartVars

-----------------------------------------------------------------------------
(* Properties *)

\* Rows and checkouts hold values of their kind, and a cart names an order exactly while it
\* is converted.
CartTypeOK ==
    /\ carts \in [Cart -> CartStates]
    /\ checkouts \in [Checkout -> CheckoutStates]
    /\ \A c \in Cart : carts[c].st = "converted" <=> carts[c].order # NoCheckout

\* Orders that stand, whether or not their payment has begun
Standing(k) == checkouts[k].pc \in {"initializing", "failing", "stuck", "placed"}

OrderAsSeen(k) ==
    LET c == checkouts[k].cart
    IN /\ carts[c].order = k
       /\ checkouts[k].version # NoVersion => carts[c].qty = checkouts[k].qty

\* Two tabs, retries after a failed payment, a merge at sign-in, an edit or a sweep in
\* between: a cart has at most one order that stands and it is the order the cart names.  If
\* the client sent cart_version, the lines of the cart are those the shopper saw on the
\* checkout page; without it nothing compares the two.
OneOrderAsSeen == \A k \in Checkout : Standing(k) => OrderAsSeen(k)

\* Expected by a comment of payment.js and refuted: a checkout whose payment could not be
\* initialized does not leave its cart converted.
FailedCheckoutReturnsCart ==
    \A k \in Checkout :
        checkouts[k].pc \in {"cancelled", "stuck"} => carts[checkouts[k].cart].order # k
=============================================================================
