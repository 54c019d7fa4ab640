---------------------------- MODULE StockRefinement ----------------------------
(***************************************************************************)
(* The orders implement the account: what is free is the available stock   *)
(* (on hand less reserved), and an order's claim is its reservation row.   *)
(***************************************************************************)
EXTENDS OrderInventory

\* Stock that may still be promised.
Available == [v \in Variant |-> inv.onHand[v] - inv.reserved[v]]

\* A reservation as a claim: released, expired and restocked ones are all given back.
ClaimOf(r) ==
    [st |-> CASE r.st = "none" -> "none"
              [] r.st = "active" -> "held"
              [] IsSold(r) -> "sold"
              [] OTHER -> "returned",
     items |-> r.items]

Account == INSTANCE StockAccount WITH
    free <- Available,
    claims <- [o \in Order |-> ClaimOf(inv.resv[o])]

\* Every transaction that touches the stock - checkout, its compensation, callback, expiry,
\* administrators' transitions and stock edits, in any order, with reopened orders and
\* movements skipped because their key was used - does to the available stock exactly what
\* it does to the claim of its one order, or edits one balance, and overdraws none.
StockIsAnAccount == Account!AccountSpec
=============================================================================
