------------------------------ MODULE OrderDesk ------------------------------
(***************************************************************************)
(* The order desk of the dashboard (components/sections/                   *)
(* orders-section.tsx) against the order rows of the API                   *)
(* (routes/orders.js): one administrator works on rows as the query cache  *)
(* last saw them, previews and applies bulk moves, moves one order from    *)
(* its detail and edits its tracking data, while others, the customer and  *)
(* the workers move the same orders.                                       *)
(*                                                                         *)
(* What protects the rows is the version a request carries.  The trigger   *)
(* of migration 044 raises it when a lifecycle column changes, and only    *)
(* then: two forms of tracking data opened at one version overwrite each   *)
(* other, which is why no property is stated of the tracking data.         *)
(* One lifecycle column stands for the three, and whether there is a       *)
(* tracking number for the tracking data.                                  *)
(***************************************************************************)
EXTENDS Naturals, FiniteSets

CONSTANTS
    DeskOrder,   \* orders of the store
    NoDeskOrder,
    Target,      \* the statuses somebody moves an order to
    MaxMoves     \* bound on the version of an order

ASSUME DeskAssumption ==
    /\ NoDeskOrder \notin DeskOrder
    /\ MaxMoves \in Nat

VARIABLES
    orders,      \* order_status, version and tracking number of each row
    list,        \* ordersQuery.data: rows as last fetched, None for a row the filter hides
    detail,      \* detailQuery.data while the detail is open
    selectedIds,
    bulk,        \* bulkDomain and bulkStatus, one target
    bulkPreview, \* the mutation's state, and the order ids it found valid
    shipping,    \* shippingOrderId and shippingForm
    inFlight     \* writes sent and not yet served

deskVars == <<orders, list, detail, selectedIds, bulk, bulkPreview, shipping, inFlight>>

Lifecycle == INSTANCE OrderLifecycle

ASSUME TargetAssumption == Target # {} /\ Target \subseteq Lifecycle!OrderStatuses

DeskRow == [status : Lifecycle!OrderStatuses, version : 0..MaxMoves, tracked : BOOLEAN]
Hidden == [status |-> "cancelled", version |-> MaxMoves + 1, tracked |-> FALSE]
NoPreview == [st |-> "none", of |-> {}, to |-> CHOOSE t \in Target : TRUE, valid |-> {}]
Closed == [order |-> NoDeskOrder, row |-> Hidden, tracked |-> FALSE]
NoDetail == [order |-> NoDeskOrder, row |-> Hidden]

\* A write names the row it was made from; shown is what the screen said of it then.
DeskWrite(kind, o, row, to, tracked) ==
    [kind |-> kind, order |-> o, version |-> row.version, shown |-> row.status,
     to |-> to, tracked |-> tracked]

Valid(from, to) == to \in Lifecycle!OrderTransitions[from] \/ to = from
Moved(row, to) ==
    IF to = row.status THEN row
    ELSE [row EXCEPT !.status = to, !.version = @ + 1]

-----------------------------------------------------------------------------
(* What the desk reads *)

\* A list for the filters of the moment replaces the rows shown.
FetchOrders(shown) ==
    /\ list' = [o \in DeskOrder |-> IF o \in shown THEN orders[o] ELSE Hidden]
    /\ list' # list
    /\ UNCHANGED <<orders, detail, selectedIds, bulk, bulkPreview, shipping, inFlight>>

\* The detail is opened, or fetched again.
FetchDetail(o) ==
    /\ detail.order = o \/ (detail = NoDetail /\ list[o] # Hidden)
    /\ detail' = [order |-> o, row |-> orders[o]]
    /\ detail' # detail
    /\ UNCHANGED <<orders, list, selectedIds, bulk, bulkPreview, shipping, inFlight>>

CloseDetail ==
    /\ detail # NoDetail
    /\ detail' = NoDetail
    /\ UNCHANGED <<orders, list, selectedIds, bulk, bulkPreview, shipping, inFlight>>

-----------------------------------------------------------------------------
(* The bulk bar *)

\* Mutant of ToggleOrder: the preview stays.
ToggleKeepsPreview(o) ==
    /\ list[o] # Hidden
    /\ selectedIds' = IF o \in selectedIds THEN selectedIds \ {o} ELSE selectedIds \cup {o}
    /\ UNCHANGED <<orders, list, detail, bulk, bulkPreview, shipping, inFlight>>

\* toggleOrder.  The reset also detaches a preview that was asked for and not answered.
ToggleOrder(o) ==
    /\ list[o] # Hidden
    /\ selectedIds' = IF o \in selectedIds THEN selectedIds \ {o} ELSE selectedIds \cup {o}
    /\ bulkPreview' = NoPreview
    /\ UNCHANGED <<orders, list, detail, bulk, shipping, inFlight>>

SelectAll ==
    /\ selectedIds' = {o \in DeskOrder : list[o] # Hidden}
    /\ bulkPreview' = NoPreview
    /\ UNCHANGED <<orders, list, detail, bulk, shipping, inFlight>>

ChooseTarget(t) ==
    /\ selectedIds # {} /\ t # bulk
    /\ bulk' = t
    /\ bulkPreview' = NoPreview
    /\ UNCHANGED <<orders, list, detail, selectedIds, shipping, inFlight>>

AskPreview ==
    /\ selectedIds # {} /\ bulkPreview.st # "pending"
    /\ bulkPreview' = [st |-> "pending", of |-> selectedIds, to |-> bulk, valid |-> {}]
    /\ UNCHANGED <<orders, list, detail, selectedIds, bulk, shipping, inFlight>>

\* POST /bulk-status/preview: the rows as they are, nothing locked.
AnswerPreview ==
    /\ bulkPreview.st = "pending"
    /\ bulkPreview' = [bulkPreview EXCEPT !.st = "shown",
         !.valid = {o \in bulkPreview.of : Valid(orders[o].status, bulkPreview.to)}]
    /\ UNCHANGED <<orders, list, detail, selectedIds, bulk, shipping, inFlight>>

\* bulkApply: the valid ones of the preview, at the versions of the list.
ApplyBulk ==
    LET chosen == {o \in bulkPreview.valid : list[o] # Hidden}
    IN /\ selectedIds # {} /\ bulkPreview.st = "shown" /\ bulkPreview.valid # {}
       /\ \A w \in inFlight : w.kind # "bulk"
       /\ inFlight' = inFlight \cup {DeskWrite("bulk", o, list[o], bulk, FALSE) : o \in chosen}
       /\ UNCHANGED <<orders, list, detail, selectedIds, bulk, bulkPreview, shipping>>

-----------------------------------------------------------------------------
(* One order *)

\* A button of the detail, of valid_transitions as fetched.
ClickTransition(to) ==
    /\ detail # NoDetail /\ to \in Lifecycle!OrderTransitions[detail.row.status]
    /\ \A w \in inFlight : w.kind # "move"
    /\ inFlight' = inFlight \cup {DeskWrite("move", detail.order, detail.row, to, FALSE)}
    /\ UNCHANGED <<orders, list, detail, selectedIds, bulk, bulkPreview, shipping>>

\* openShipping, from a row of the list or from the detail, which closes.
OpenShipping(o) ==
    /\ shipping = Closed
    /\ \E tracked \in BOOLEAN :
         \/ /\ list[o] # Hidden /\ detail = NoDetail
            /\ shipping' = [order |-> o, row |-> list[o], tracked |-> tracked]
            /\ UNCHANGED detail
         \/ /\ detail.order = o /\ detail' = NoDetail
            /\ shipping' = [order |-> o, row |-> detail.row, tracked |-> tracked]
    /\ UNCHANGED <<orders, list, selectedIds, bulk, bulkPreview, inFlight>>

CloseShipping ==
    /\ shipping # Closed
    /\ shipping' = Closed
    /\ UNCHANGED <<orders, list, detail, selectedIds, bulk, bulkPreview, inFlight>>

\* Mutant of SaveShipping: the version of the list as it is now.
SaveShippingAfresh ==
    /\ shipping # Closed /\ list[shipping.order] # Hidden
    /\ \A w \in inFlight : w.kind # "ship"
    /\ inFlight' = inFlight \cup
         {[DeskWrite("ship", shipping.order, shipping.row, "shipped", shipping.tracked)
            EXCEPT !.version = list[shipping.order].version]}
    /\ UNCHANGED <<orders, list, detail, selectedIds, bulk, bulkPreview, shipping>>

SaveShipping ==
    /\ shipping # Closed
    /\ \A w \in inFlight : w.kind # "ship"
    /\ inFlight' = inFlight \cup
         {DeskWrite("ship", shipping.order, shipping.row, "shipped", shipping.tracked)}
    /\ UNCHANGED <<orders, list, detail, selectedIds, bulk, bulkPreview, shipping>>

-----------------------------------------------------------------------------
(* What the API does with a write, each order in a transaction of its own *)

\* transitionOrderOperation, or PUT /:id/shipping, which moves an order that was only waiting
\* for its tracking number.
Served(w) ==
    LET row == orders[w.order]
    IN CASE w.version # row.version -> row
         [] w.kind # "ship" -> IF Valid(row.status, w.to) THEN Moved(row, w.to) ELSE row
         [] w.kind = "ship" /\ w.tracked /\ row.status = "ready_to_ship" ->
              [Moved(row, w.to) EXCEPT !.tracked = TRUE]
         [] OTHER -> [row EXCEPT !.tracked = w.tracked]

\* The answer: a bulk run that is over clears the selection, and whatever form of tracking
\* data is open by then closes.
ServeWrite(w) ==
    /\ w \in inFlight
    /\ Served(w).version <= MaxMoves
    /\ orders' = [orders EXCEPT ![w.order] = Served(w)]
    /\ inFlight' = inFlight \ {w}
    /\ selectedIds' = IF w.kind = "bulk" /\ ~\E v \in inFlight' : v.kind = "bulk"
                      THEN {} ELSE selectedIds
    /\ shipping' = IF w.kind = "ship" /\ w.version = orders[w.order].version
                   THEN Closed ELSE shipping
    /\ UNCHANGED <<list, detail, bulk, bulkPreview>>

\* Somebody else, the customer or a worker: a move, or tracking data.
Elsewhere(o) ==
    /\ \E row \in {[orders[o] EXCEPT !.tracked = ~@]} \cup
         {Moved(orders[o], t) : t \in Target \cap Lifecycle!OrderTransitions[orders[o].status]} :
         /\ row.version <= MaxMoves
         /\ orders' = [orders EXCEPT ![o] = row]
    /\ UNCHANGED <<list, detail, selectedIds, bulk, bulkPreview, shipping, inFlight>>

-----------------------------------------------------------------------------
DeskInit ==
    /\ orders = [o \in DeskOrder |-> [status |-> "ready_to_ship", version |-> 0, tracked |-> FALSE]]
    /\ list = orders
    /\ detail = NoDetail
    /\ selectedIds = {}
    /\ bulk = CHOOSE t \in Target : TRUE
    /\ bulkPreview = NoPreview
    /\ shipping = Closed
    /\ inFlight = {}

DeskNext ==
    \/ \E shown \in SUBSET DeskOrder : FetchOrders(shown)
    \/ \E o \in DeskOrder :
         FetchDetail(o) \/ ToggleOrder(o) \/ OpenShipping(o) \/ Elsewhere(o)
    \/ \E t \in Target : ChooseTarget(t) \/ ClickTransition(t)
    \/ CloseDetail \/ SelectAll \/ AskPreview \/ AnswerPreview \/ ApplyBulk
    \/ CloseShipping \/ SaveShipping
    \/ \E w \in inFlight : ServeWrite(w)

DeskSpec == DeskInit /\ [][DeskNext]_deskVars

-----------------------------------------------------------------------------
(* Properties *)

\* Rows, the cache and the forms hold values of their kind.
DeskTypeOK ==
    /\ orders \in [DeskOrder -> DeskRow]
    /\ list \in [DeskOrder -> DeskRow \cup {Hidden}]
    /\ detail.order \in DeskOrder \cup {NoDeskOrder} /\ detail.row \in DeskRow \cup {Hidden}
    /\ selectedIds \subseteq DeskOrder
    /\ bulk \in Target
    /\ bulkPreview.st \in {"none", "pending", "shown"} /\ bulkPreview.valid \subseteq bulkPreview.of
    /\ shipping.order \in DeskOrder \cup {NoDeskOrder} /\ shipping.row \in DeskRow \cup {Hidden}
    /\ \A w \in inFlight : w.order \in DeskOrder /\ w.to \in Lifecycle!OrderStatuses

\* However old the rows on the screen are, and whatever moved the order since, a write that
\* would still be accepted finds the order in the status the administrator saw: nobody ships,
\* cancels or reopens an order other than the one that was shown.
MovesAreAsShown ==
    \A w \in inFlight : w.version = orders[w.order].version => w.shown = orders[w.order].status

\* The preview on the screen is about the orders selected and the target chosen now, also when
\* the answer was under way while they changed; so a bulk run does what was previewed.
PreviewIsOfSelection ==
    selectedIds # {} /\ bulkPreview.st # "none" =>
        /\ bulkPreview.of = selectedIds
        /\ bulkPreview.to = bulk
=============================================================================
