------------------------- MODULE MCOrderInventory -------------------------
(***************************************************************************)
(* TLC instances of OrderInventory.  Orders are interchangeable: no        *)
(* definition names one, so permuting them is a symmetry of the            *)
(* specification and of its invariants.                                    *)
(***************************************************************************)
EXTENDS StockRefinement, TLC

OrderSymmetry == Permutations(Order)
=============================================================================
