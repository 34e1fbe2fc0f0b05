----------------------------- MODULE JobCatalogue -----------------------------
(***************************************************************************)
(* What the ledger of a provider route promises the readers of its jobs:   *)
(* runs begin pending and end once; while a run is pending it may add jobs *)
(* to the open set; jobs leave that set only at the moment a run succeeds, *)
(* and none of them is a job that run has seen.                            *)
(***************************************************************************)
CONSTANTS Run, Job

VARIABLES
    status,     \* the lifecycle of each run
    open,       \* the jobs a reader finds open
    seen        \* the jobs each run has committed

vars == <<status, open, seen>>

Init ==
    /\ status = [r \in Run |-> "absent"]
    /\ open = {}
    /\ seen = [r \in Run |-> {}]

Begin(r) ==
    /\ status[r] = "absent"
    /\ status' = [status EXCEPT ![r] = "pending"]
    /\ UNCHANGED <<open, seen>>

Commit(r, S) ==
    /\ status[r] = "pending"
    /\ S \cap seen[r] = {}
    /\ seen' = [seen EXCEPT ![r] = @ \cup S]
    /\ \E opened \in SUBSET S : open' = open \cup opened
    /\ UNCHANGED status

Fail(r) ==
    /\ status[r] = "pending"
    /\ status' = [status EXCEPT ![r] = "failed"]
    /\ UNCHANGED <<open, seen>>

Succeed(r, C) ==
    /\ status[r] = "pending"
    /\ C \cap seen[r] = {}
    /\ status' = [status EXCEPT ![r] = "succeeded"]
    /\ open' = open \ C
    /\ UNCHANGED seen

Next ==
    \E r \in Run :
        \/ Begin(r)
        \/ Fail(r)
        \/ \E S \in SUBSET Job : Commit(r, S) \/ Succeed(r, S)

Spec == Init /\ [][Next]_vars
=============================================================================
