-------------------------- MODULE MCKagglePublish --------------------------
(***************************************************************************)
(* Model checking of KagglePublish: two commands, of one publisher or of two.     *)
(***************************************************************************)
EXTENDS KagglePublish, TLC

CONSTANTS p, q, old, new

ListedFiles == [b \in {old, new} |-> IF b = old THEN "old files" ELSE "new files"]
=============================================================================
