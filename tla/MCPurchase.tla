----------------------------- MODULE MCPurchase -----------------------------
(* Bounds of the TLC runs of Purchase.                                     *)
EXTENDS Purchase, TLC

PurchaseSymmetry ==
    Permutations(Adds)
    \cup Permutations(Pages) \cup Permutations(Posts)
=============================================================================
