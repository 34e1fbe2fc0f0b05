----------------------------- MODULE MCJobLedger -----------------------------
(***************************************************************************)
(* Model checking of JobLedger: attempts of two processes that may overlap, *)
(* and a third one after two that did not.                                  *)
(***************************************************************************)
EXTENDS JobLedgerHistory, TLC

CONSTANTS r1, r2, r3, j1, j2, j3, h1, h2

L(j, h) == [id |-> j, hash |-> h]

\* A snapshot that lists a job twice with two contents, snapshots that omit
\* jobs, the empty one, and contents that change and change back.
ThreeJobs ==
    {<<>>, <<L(j1, h1), L(j2, h1), L(j1, h2)>>, <<L(j2, h2), L(j3, h1)>>, <<L(j3, h1), L(j2, h1), L(j1, h2)>>}

\* Runs are begun in order.  The second one may overlap the first; a third one follows two
\* that did not.
MCNext ==
    /\ HistoryNext
    /\ ~At(r2, "idle")' => ~At(r1, "idle")
    /\ ~At(r3, "idle")' => ~At(r2, "idle") /\ ~Alive(r1) /\ ~Alive(r2) /\ ~overlapped

MCSpec ==
    /\ HistoryInit /\ [][MCNext]_<<vars, overlapped>>
    /\ \A r \in Run : WF_vars(Work(r))
=============================================================================
