----------------------------- MODULE StockAccount -----------------------------
(***************************************************************************)
(* What the stock promises to orders, without reservations, revisions,     *)
(* movements and their keys: an account of free units from which every     *)
(* order has at most one claim.  A claim takes its units off the account   *)
(* when it is made, keeps them when it is settled, and puts all of them    *)
(* back when it is given up.  An order claims the same units every time,   *)
(* a step moves one claim or one balance, and no balance is overdrawn.     *)
(***************************************************************************)
EXTENDS Naturals

CONSTANTS
    Order,    \* who may hold a claim
    Variant,  \* the balances
    MaxQty    \* units a claim may have of one variant

VARIABLES
    free,    \* units nobody has a claim to
    claims   \* each order's claim

accountVars == <<free, claims>>

Basket == [Variant -> 0..MaxQty]
Claim == [st : {"none", "held", "sold", "returned"}, items : Basket]
NoClaim == [st |-> "none", items |-> [v \in Variant |-> 0]]

AccountTypeOK ==
    /\ free \in [Variant -> Nat]
    /\ claims \in [Order -> Claim]

\* A first claim, or the same one again after it was given up or after its goods left for
\* good; units that are taken from the shelf at once make it a sold one.
Take(o, items) ==
    /\ claims[o].st # "held"
    /\ claims[o].st = "none" \/ items = claims[o].items
    /\ \A v \in Variant : items[v] <= free[v]
    /\ free' = [v \in Variant |-> free[v] - items[v]]
    /\ \E st \in {"held", "sold"} :
         claims' = [claims EXCEPT ![o] = [st |-> st, items |-> items]]

Settle(o) ==
    /\ claims[o].st = "held"
    /\ claims' = [claims EXCEPT ![o].st = "sold"]
    /\ UNCHANGED free

GiveBack(o) ==
    /\ claims[o].st \in {"held", "sold"}
    /\ free' = [v \in Variant |-> free[v] + claims[o].items[v]]
    /\ claims' = [claims EXCEPT ![o].st = "returned"]

\* Goods arrive, are lost or are counted anew.
Count(v) ==
    /\ free' \in [Variant -> Nat]
    /\ \A u \in Variant \ {v} : free'[u] = free[u]
    /\ UNCHANGED claims

AccountInit ==
    /\ free \in [Variant -> Nat]
    /\ claims = [o \in Order |-> NoClaim]

AccountNext ==
    \/ \E o \in Order :
         \/ \E items \in Basket : Take(o, items)
         \/ Settle(o)
         \/ GiveBack(o)
    \/ \E v \in Variant : Count(v)

AccountSpec == AccountInit /\ [][AccountNext]_accountVars
=============================================================================
