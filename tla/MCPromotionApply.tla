--------------------------- MODULE MCPromotionApply ---------------------------
(***************************************************************************)
(* Model checking of PromotionApply: two decisions, two processes, and     *)
(* three owned files, of which the envelope is new and the catalog is      *)
(* installed after the ledger.                                             *)
(***************************************************************************)
EXTENDS PromotionApply, TLC

CONSTANTS d1, d2, p1, p2, absent, original

OwnedInOrder == <<"envelope", "ledger", "catalog">>
TupleOf == [d \in Decision |-> d]

Symmetry == Permutations(Decision) \cup Permutations(Process)
=============================================================================
