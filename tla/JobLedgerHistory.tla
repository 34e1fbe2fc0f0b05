--------------------------- MODULE JobLedgerHistory ---------------------------
(***************************************************************************)
(* JobLedger with a history variable that tells whether two attempts were  *)
(* ever alive at once, and what holds of the ledger as long as they were   *)
(* not.  Two processes that sync one route race (JobLedger shows what      *)
(* still holds then); with one at a time the tables say more.              *)
(***************************************************************************)
EXTENDS JobLedger

VARIABLE overlapped   \* history: two attempts were alive at the same time

Overlap == \E q, r \in Run : q # r /\ Alive(q) /\ Alive(r)

HistoryInit == Init /\ overlapped = FALSE

HistoryNext == Next /\ overlapped' = (overlapped \/ Overlap')

HistorySpec == HistoryInit /\ [][HistoryNext]_<<vars, overlapped>>

\* As long as no two attempts overlap the ledger is its own history (complete_job_sync_run).
RowsFollowHistory == ~overlapped => RowIsItsHistory

\* As long as no two attempts overlap, the commit that makes a run with close_missing succeed
\* leaves open exactly the jobs of its snapshot (complete_job_sync_run, _close_missing_jobs).
SuccessLeavesOwnSnapshot == [][~overlapped' => LeavesSnapshot]_vars
=============================================================================
