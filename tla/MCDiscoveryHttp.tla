-------------------------- MODULE MCDiscoveryHttp --------------------------
(***************************************************************************)
(* Model checking of DiscoveryHttp: two fetches and two origins, once with one   *)
(* slot and once with two slots of one origin.                                   *)
(***************************************************************************)
EXTENDS DiscoveryHttp, TLC

CONSTANTS f, g, a, b

Narrow == [requests |-> 3, origins |-> 2, concurrency |-> 1, perOrigin |-> 1, bytes |-> 1,
           redirect |-> 1, retry |-> 1, pagination |-> 1, attempts |-> 2, failures |-> 1]
Wide == [Narrow EXCEPT !.origins = 1, !.concurrency = 2, !.perOrigin = 2, !.failures = 2]
NarrowOrWide == {Narrow, Wide}
=============================================================================
