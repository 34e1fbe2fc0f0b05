----------------------------- MODULE MCRouteSync -----------------------------
(***************************************************************************)
(* Model checking of RouteSync: plans of ten routes.                           *)
(***************************************************************************)
EXTENDS RouteSync

CONSTANTS a, b, c, fresh, deferred, lacking, d1, d2, d3, d4, pa, pb

\* a and b share a provider that admits one route at a time.
Providers == [r \in {a, b, c} |-> IF r \in {a, b} THEN pa ELSE pb]
Limits == [p \in {pa, pb} |-> IF p = pa THEN 1 ELSE 0]

FourDuplicates == <<d1, d2, d3, d4>>

\* The first duplicate of a merged board has the ledger key of a.
Key(r) == IF r = d1 THEN a ELSE r
Keys == [r \in Planned |-> Key(r)]

\* A plan with every kind of route, an operator who may interrupt it, no write that fails.
EveryKind ==
    [unusable |-> {c},
     skip |-> [r \in {fresh, deferred, lacking} |->
        CASE r = fresh -> "fresh_skipped" [] r = deferred -> "deferred" [] OTHER -> "missing_metadata"],
     representative |-> [d \in {d1, d2, d3, d4} |->
        CASE d \in {d1, d2} -> a [] d = d3 -> deferred [] OTHER -> NoRoute],
     slow |-> FALSE, faults |-> {}]

\* A plan that can be complete, in calm and with writes that fail and fetches that unwind slowly.
Completable ==
    [EveryKind EXCEPT !.unusable = {}, !.skip = [r \in {fresh, deferred, lacking} |-> "fresh_skipped"],
                      !.representative = [d \in {d1, d2, d3, d4} |-> IF d \in {d1, d2} THEN a ELSE fresh]]
Adverse ==
    [Completable EXCEPT !.slow = TRUE,
                        !.faults = {"begin", "commit", "record", "append", "deactivate"}]
Slowly == [Completable EXCEPT !.slow = TRUE]

AnySituation == {EveryKind, [EveryKind EXCEPT !.unusable = {}], Completable, Slowly, Adverse}
SlowSituation == {Slowly}
=============================================================================
