----------------------------- MODULE MCCachedRead -----------------------------
(***************************************************************************)
(* Model checking of CachedRead: a reader that takes a fallback, a refresh  *)
(* by another process, and beside them a second reader of the first one's   *)
(* requester or a reader of the same process with a requester of its own.   *)
(***************************************************************************)
EXTENDS CachedRead

CONSTANTS a, b, c, r, shared, single, refresher, sync, other

ViaOf == [x \in Caller |-> IF x = r THEN refresher ELSE IF x = c THEN single ELSE shared]
HomeOf == [q \in Requester |-> IF q = refresher THEN other ELSE sync]
KeepOf == [x \in Caller |-> x = a]

\* Bound: three of the callers come, and of b and c only one.
MCInit == Init /\ {pc[a], pc[r]} = {"idle"} /\ pc[b] # pc[c]
MCSpec == MCInit /\ [][Next]_vars /\ Fairness
=============================================================================
