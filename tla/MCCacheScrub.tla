----------------------------- MODULE MCCacheScrub -----------------------------
(***************************************************************************)
(* Model checking of CacheScrub: two processes, two namespaces and an      *)
(* entry of an older schema.                                               *)
(***************************************************************************)
EXTENDS CacheScrub, TLC

CONSTANTS p1, p2, k1, k2, old, http, pull

Namespaces == [e \in {k1, k2, old} |-> IF e = k2 THEN pull ELSE http]
Processes == Permutations({p1, p2})
=============================================================================
