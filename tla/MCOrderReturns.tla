--------------------------- MODULE MCOrderReturns ---------------------------
(***************************************************************************)
(* TLC instances of OrderReturns.  One customer order is enough: orders    *)
(* share stock, which OrderInventory's own instances are about, and no     *)
(* request or refund refers to two of them, except that an exchange sends  *)
(* a replacement order.                                                    *)
(***************************************************************************)
EXTENDS OrderReturns

\* At most one order is not a replacement, and replacements are not shipped.
OneCustomerOrder ==
    /\ Cardinality({o \in Order : orders[o] # NoOrder /\ ~IsReplacement(o)}) <= 1
    /\ \A o \in Order : IsReplacement(o) => orders[o].status \in {"paid", "cancelled"}
=============================================================================
