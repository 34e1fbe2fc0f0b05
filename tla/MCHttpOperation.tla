---------------------------- MODULE MCHttpOperation ----------------------------
(***************************************************************************)
(* Model checking of HttpOperation.                                        *)
(***************************************************************************)
EXTENDS HttpOperation, TLC

CONSTANTS t1, t2, t3

Tasks == Permutations(Task)
=============================================================================
