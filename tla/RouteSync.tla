------------------------------- MODULE RouteSync -------------------------------
(***************************************************************************)
(* One `jobs sync` over a plan of routes (_sync_jobs_bound and _RoutePin   *)
(* in src/src/openopps/ingest.py): every selected route is a task that     *)
(* waits for its provider's semaphore and then for the board semaphore,    *)
(* begins a pending run, fetches, and finishes the run; the main task      *)
(* gathers them and closes the accounting of the plan.                     *)
(*                                                                         *)
(* The database is written without an await, so a task moves in one step   *)
(* from one await to the next.  gather returns at the first task that      *)
(* fails, without waiting for its siblings: they go on while the HTTP      *)
(* client closes, until asyncio.run cancels them.  A cancelled provider    *)
(* call may need further turns of the event loop to release what it holds. *)
(***************************************************************************)
EXTENDS Naturals, FiniteSets, Sequences

CONSTANTS
    Selected,       \* the routes _select_job_route_entries takes
    Skips,          \* the other planned routes that are no duplicates
    Duplicates,     \* the duplicate routes, in plan order
    NoRoute,
    KeyOf,          \* the ledger key, board and provider, of a planned route
    ProviderOf,     \* the provider of a selected route
    ProviderLimit,  \* its route_concurrency, 0 when it declares none
    Concurrency,    \* settings.board_concurrency
    Situations      \* the plans and surroundings a sync may be started in

DuplicateSet == {Duplicates[i] : i \in DOMAIN Duplicates}
Planned == Selected \cup Skips \cup DuplicateSet

ASSUME PlanAssumption ==
    /\ Selected \cap Skips = {} /\ (Selected \cup Skips) \cap DuplicateSet = {}
    /\ NoRoute \notin Planned
    /\ Duplicates \in Seq(DuplicateSet)
    /\ DOMAIN KeyOf = Planned
    /\ Concurrency \in Nat \ {0}
    /\ \A r \in Selected : ProviderLimit[ProviderOf[r]] \in Nat
    /\ Situations \subseteq
          [unusable : SUBSET Selected,
           skip : [Skips -> {"fresh_skipped", "deferred", "missing_metadata"}],
           representative : [DuplicateSet -> Selected \cup Skips \cup {NoRoute}],
           slow : BOOLEAN,
           faults : SUBSET {"begin", "commit", "record", "append", "deactivate"}]

VARIABLES
    situation,      \* what the sync finds, which never changes
    task,           \* where the task of each selected route stands
    launched,       \* _RoutePin.launched
    outcome,        \* _RoutePin.outcomes
    run,            \* the durable run begun for each route
    active,         \* the routes that are not deactivated
    main,           \* where the main task stands
    gather,         \* how the first task that did not finish ended
    cancelled,      \* the main task sees CancelledError whatever gather holds
    accounting      \* the accounting of the plan, once it is closed

vars == <<task, launched, outcome, run, active, main, gather, cancelled, accounting>>

Unusable == situation.unusable              \* routes with no provider, or not able to list jobs
Skip == situation.skip                      \* the outcome of a skipped route, known at the start
Representative == situation.representative  \* the route a duplicate repeats, or NoRoute
Slow == situation.slow                      \* may a cancelled fetch need more turns to unwind?
Faults == situation.faults                  \* the writes that may fail

Dispositions == {"succeeded", "failed", "timed_out", "fresh_skipped", "deferred",
                 "duplicate_skipped", "missing_metadata", "policy_blocked",
                 "rate_limited", "cancelled", "unstarted"}

TypeOK ==
    /\ situation \in Situations
    /\ task \in [Selected -> {"queued", "holding", "fetching", "unwinding", "finished",
                              "raised", "cancelled"}]
    /\ launched \subseteq Selected
    /\ outcome \in [Planned -> Dispositions \cup {"none"}]
    /\ run \in [Planned -> {"none", "pending", "succeeded", "failed"}]
    /\ active \subseteq Planned
    /\ main \in {"gathering", "succeeded", "failed", "interrupted", "stopped"}
    /\ gather \in {"none", "raised", "cancelled"}
    /\ cancelled \in BOOLEAN
    /\ accounting \in {"none", "complete", "incomplete"}

Init ==
    /\ situation \in Situations
    /\ task = [r \in Selected |-> "queued"]
    /\ launched = {}
    /\ outcome = [r \in Planned |-> IF r \in Skips THEN Skip[r] ELSE "none"]
    /\ run = [r \in Planned |-> "none"]
    /\ active = Planned
    /\ main = "gathering"
    /\ gather = "none"
    /\ cancelled = FALSE
    /\ accounting = "none"

Limit(r) == ProviderLimit[ProviderOf[r]]
InFlight == {r \in Selected : task[r] \in {"fetching", "unwinding"}}
HoldsProvider(q) == task[q] \in {"holding", "fetching", "unwinding"}
Over(r) == task[r] \in {"finished", "raised", "cancelled"}

-----------------------------------------------------------------------------
(* How a task ends.  gather keeps the first failure.                       *)

Ends(r, how) ==
    /\ task' = [task EXCEPT ![r] = how]
    /\ gather' = IF gather = "none" /\ how # "finished" THEN how ELSE gather
    /\ UNCHANGED <<main, cancelled, accounting>>

\* record raises when the route already has an outcome, and the task with it.
Records(r, disposition) ==
    IF outcome[r] = "none"
    THEN outcome' = [outcome EXCEPT ![r] = disposition] /\ Ends(r, "finished")
    ELSE UNCHANGED outcome /\ Ends(r, "raised")

-----------------------------------------------------------------------------
(* The task of a route.                                                    *)

\* A provider with a limit of its own is entered before the board semaphore.
AcquireProvider(r) ==
    /\ task[r] = "queued"
    /\ Limit(r) > 0
    /\ Cardinality({q \in Selected : ProviderOf[q] = ProviderOf[r] /\ HoldsProvider(q)}) < Limit(r)
    /\ task' = [task EXCEPT ![r] = "holding"]
    /\ UNCHANGED <<launched, outcome, run, active, main, gather, cancelled, accounting>>

\* Under the board semaphore the route is launched and its run begun.
Start(r) ==
    /\ task[r] = IF Limit(r) > 0 THEN "holding" ELSE "queued"
    /\ Cardinality(InFlight) < Concurrency
    /\ launched' = launched \cup {r}
    /\ UNCHANGED active
    /\ \/ /\ r \in Unusable
          /\ Records(r, "failed")
          /\ UNCHANGED run
       \/ /\ r \notin Unusable
          /\ run' = [run EXCEPT ![r] = "pending"]
          /\ task' = [task EXCEPT ![r] = "fetching"]
          /\ UNCHANGED <<outcome, main, gather, cancelled, accounting>>
       \/ /\ r \notin Unusable /\ "begin" \in Faults
          /\ Ends(r, "raised")
          /\ UNCHANGED <<outcome, run>>

\* Mutant: a result that is no authoritative snapshot counts as a success.
Rejected_AsSuccess(r) ==
    /\ task[r] = "fetching"
    /\ run' = [run EXCEPT ![r] = "failed"]
    /\ Records(r, "succeeded")
    /\ UNCHANGED <<launched, active>>

\* A partial snapshot, or an untyped collection: the run fails.
Rejected(r) ==
    /\ task[r] = "fetching"
    /\ run' = [run EXCEPT ![r] = "failed"]
    /\ Records(r, "failed")
    /\ UNCHANGED <<launched, active>>

\* An authoritative snapshot is committed, and then recorded.
Completed(r) ==
    /\ task[r] = "fetching"
    /\ run' = [run EXCEPT ![r] = "succeeded"]
    /\ Records(r, "succeeded")
    /\ UNCHANGED <<launched, active>>

\* The provider call raised, or ran out of its time.
FetchError(r) ==
    /\ task[r] = "fetching"
    /\ run' = [run EXCEPT ![r] = "failed"]
    /\ \E disposition \in {"failed", "timed_out", "rate_limited"} : Records(r, disposition)
    /\ UNCHANGED <<launched, active>>

\* Finishing the run raises: the store had recorded the failure, or could not,
\* or the run was committed and the JSONL output cannot be written.
PersistenceError(r) ==
    /\ task[r] = "fetching"
    /\ \/ "commit" \in Faults /\ run' = [run EXCEPT ![r] = "failed"]
       \/ "record" \in Faults /\ UNCHANGED run
       \/ "append" \in Faults /\ run' = [run EXCEPT ![r] = "succeeded"]
    /\ Ends(r, "raised")
    /\ UNCHANGED <<launched, outcome, active>>

\* The places of the routes that go with the board of r, in the order they are
\* removed: r itself at 0, and then the duplicates it stands for.
Removal(r) == {0} \cup {i \in DOMAIN Duplicates : Representative[Duplicates[i]] = r}
RouteAt(r, i) == IF i = 0 THEN r ELSE Duplicates[i]
AllOfThem == Len(Duplicates) + 1

\* The routes that are removed when the removal stands at place p.  Mutant: a route
\* is deactivated before its jobs are closed.
Deactivated_Ahead(r, p) == {RouteAt(r, i) : i \in {k \in Removal(r) : k <= p}}

Deactivated(r, p) == {RouteAt(r, i) : i \in {k \in Removal(r) : k < p}}

\* Routes of one ledger key share the run of the first of them.
NeedsRun(r, p) == \A i \in Removal(r) : i < p => KeyOf[RouteAt(r, i)] # KeyOf[RouteAt(r, p)]

Closing(r, p) == {RouteAt(r, i) : i \in {k \in Removal(r) : k < p /\ NeedsRun(r, k)}}

\* The provider says the board is gone: every key of such a route gets a run that
\* closes its jobs, and the route is then deactivated.
Absent(r) ==
    /\ task[r] = "fetching"
    /\ run' = [q \in Planned |-> IF q \in Closing(r, AllOfThem) THEN "succeeded" ELSE run[q]]
    /\ active' = active \ Deactivated(r, AllOfThem)
    /\ Records(r, "succeeded")
    /\ UNCHANGED launched

\* The removal fails at one of them: those before it stay removed; its run was
\* committed, failed or never begun; nothing is recorded.
AbsentFails(r) ==
    /\ task[r] = "fetching"
    /\ \E p \in Removal(r) : LET at == RouteAt(r, p) IN
          /\ \E end \in {"succeeded", "failed", "pending", run[at]} :
                /\ \/ end = "succeeded" /\ NeedsRun(r, p) /\ "deactivate" \in Faults
                   \/ end = "failed" /\ NeedsRun(r, p) /\ "commit" \in Faults
                   \/ end = "pending" /\ NeedsRun(r, p) /\ "record" \in Faults
                   \/ end = run[at] /\ NeedsRun(r, p) /\ p # 0 /\ "begin" \in Faults
                   \/ end = run[at] /\ ~NeedsRun(r, p) /\ "deactivate" \in Faults
                /\ run' = [q \in Planned |-> IF q \in Closing(r, p) THEN "succeeded"
                                             ELSE IF q = at THEN end ELSE run[q]]
          /\ active' = active \ Deactivated(r, p)
    /\ Ends(r, "raised")
    /\ UNCHANGED <<launched, outcome>>

-----------------------------------------------------------------------------
(* Cancellation.                                                           *)

\* Mutant: the run of a cancelled fetch is left as it is.
CancelledRun_Kept(r) == run[r]

\* Mutant: the run gets a status of its own, which the schema does not have.
CancelledRun_Status(r) == "cancelled"

CancelledRun(r) == "failed"

\* A fetch that unwinds slowly records its cancellation when it is done, unless
\* the main task already has: then record raises and the run stays pending.
Unwound(r) ==
    /\ task[r] = "unwinding"
    /\ IF outcome[r] = "none"
       THEN /\ outcome' = [outcome EXCEPT ![r] = "cancelled"]
            /\ \/ run' = [run EXCEPT ![r] = CancelledRun(r)] /\ Ends(r, "cancelled")
               \/ "record" \in Faults /\ UNCHANGED run /\ Ends(r, "raised")
       ELSE /\ Ends(r, "raised")
            /\ UNCHANGED <<outcome, run>>
    /\ UNCHANGED <<launched, active>>

\* Every task that is still alive is cancelled.  A waiting one just ends; one
\* that fetches records its cancellation and fails its run, at once or after it
\* has unwound; one whose route was recorded, or whose failed run cannot be
\* written, raises instead.
CancelAll(slow, lost) ==
    LET prompt == {r \in Selected : task[r] = "fetching"} \ slow
        free == {r \in prompt : outcome[r] = "none"}
        raising == (prompt \ free) \cup (lost \cap prompt)
        ended == {r \in Selected : task[r] \in {"queued", "holding"}} \cup prompt
    IN
    /\ task' = [r \in Selected |->
          IF r \in slow THEN "unwinding"
          ELSE IF r \in raising THEN "raised"
          ELSE IF r \in ended THEN "cancelled" ELSE task[r]]
    /\ outcome' = [r \in Planned |-> IF r \in free THEN "cancelled" ELSE outcome[r]]
    /\ run' = [r \in Planned |-> IF r \in free \ lost THEN CancelledRun(r) ELSE run[r]]
    /\ IF gather = "none" /\ ended # {}
       THEN gather' \in {IF r \in raising THEN "raised" ELSE "cancelled" : r \in ended}
       ELSE UNCHANGED gather
    /\ UNCHANGED <<launched, active>>

Fetches == {r \in Selected : task[r] = "fetching"}
SlowFetches == IF Slow THEN SUBSET Fetches ELSE {{}}
LostRecords == IF "record" \in Faults THEN SUBSET Fetches ELSE {{}}

\* The operator interrupts: gather cancels the tasks, or, when it is over and
\* the main task has not been resumed, the main task alone is cancelled.
Interrupt ==
    /\ main = "gathering" /\ ~cancelled
    /\ UNCHANGED <<main, accounting>>
    /\ IF gather = "none" /\ \E r \in Selected : ~Over(r)
       THEN /\ \A r \in Selected : task[r] # "unwinding"
            /\ \E slow \in SlowFetches, lost \in LostRecords : CancelAll(slow, lost)
            /\ UNCHANGED cancelled
       ELSE /\ cancelled' = TRUE
            /\ UNCHANGED <<task, launched, outcome, run, active, gather>>

-----------------------------------------------------------------------------
(* The main task.                                                          *)

\* What _close_duplicates records for a duplicate.
DuplicateOutcome(d) ==
    LET of == IF Representative[d] = NoRoute THEN "none" ELSE outcome[Representative[d]] IN
    IF of \in {"succeeded", "fresh_skipped"} THEN "duplicate_skipped"
    ELSE IF of = "deferred" THEN "deferred" ELSE "unstarted"

\* Mutant: what is missing at an interruption counts as cancelled.
Missed_AllCancelled(r) == "cancelled"

Missed(r) == IF r \in launched THEN "cancelled" ELSE "unstarted"

Bad == {"failed", "timed_out", "deferred", "missing_metadata", "policy_blocked",
        "rate_limited", "cancelled", "unstarted"}

\* Mutant: gather waits until every task has finished.
Gathered_OnlyFinished == \A r \in Selected : task[r] = "finished"

Gathered == gather # "none" \/ \A r \in Selected : task[r] = "finished"

\* The main task is resumed and closes the accounting.  Without an interruption
\* a route with no outcome makes close raise, and there is no accounting.
Close ==
    LET interrupted == cancelled \/ gather = "cancelled"
        closed == [r \in Planned |->
            IF outcome[r] # "none" THEN outcome[r]
            ELSE IF r \in DuplicateSet THEN DuplicateOutcome(r)
            ELSE IF interrupted THEN Missed(r) ELSE "none"]
        missing == {r \in Planned : closed[r] = "none"}
    IN
    /\ main = "gathering" /\ Gathered
    /\ outcome' = closed
    /\ accounting' = IF missing # {} THEN "none"
                     ELSE IF ~interrupted /\ \A r \in Planned : closed[r] \notin Bad
                     THEN "complete" ELSE "incomplete"
    /\ main' = IF interrupted THEN "interrupted"
               ELSE IF gather = "none" THEN "succeeded" ELSE "failed"
    /\ UNCHANGED <<task, launched, run, active, gather, cancelled>>

\* asyncio.run cancels the tasks that are left.
Shutdown ==
    /\ main \in {"failed", "interrupted"}
    /\ main' = "stopped"
    /\ \E slow \in SlowFetches, lost \in LostRecords : CancelAll(slow, lost)
    /\ UNCHANGED <<cancelled, accounting>>

Step(r) ==
    \/ AcquireProvider(r) \/ Start(r)
    \/ Completed(r) \/ Rejected(r) \/ FetchError(r) \/ PersistenceError(r)
    \/ Absent(r) \/ AbsentFails(r)
    \/ Unwound(r)

Next == (\E r \in Selected : Step(r)) \/ Interrupt \/ Close \/ Shutdown

Spec == Init /\ [][Next /\ UNCHANGED situation]_<<vars, situation>>

\* The event loop runs every task that can run, and a fetch is bounded by the
\* route timeout.
FairSpec == Spec /\ WF_vars(Close) /\ WF_vars(Shutdown) /\ \A r \in Selected : WF_vars(Step(r))

Ended == main \in {"succeeded", "stopped"} /\ \A r \in Selected : Over(r)

-----------------------------------------------------------------------------
(* Properties.                                                             *)

\* A route is accounted as succeeded only when its run is durably succeeded, and
\* a duplicate is skipped only for a representative that succeeded or is fresh.
SucceededIsDurable ==
    /\ \A r \in Selected : outcome[r] = "succeeded" => run[r] = "succeeded"
    /\ \A d \in DuplicateSet :
          outcome[d] = "duplicate_skipped" =>
              Representative[d] # NoRoute /\ outcome[Representative[d]] \in {"succeeded", "fresh_skipped"}

\* A closed accounting gives every planned route one class, and one that says that the
\* route failed is right, whatever writes fail.  What it says of interrupted work is right
\* when none does: work that started is cancelled and its run is not left behind as
\* succeeded, and work that never launched is unstarted and has no run.  A write that
\* fails after the commit of a run, or beside tasks that go on, breaks the last part.
AccountingExact ==
    accounting # "none" =>
        /\ \A r \in Planned : outcome[r] \in Dispositions
        /\ \A r \in Selected :
              /\ outcome[r] \in {"failed", "timed_out", "rate_limited"} => run[r] \in {"none", "failed"}
              /\ outcome[r] = "unstarted" /\ Faults = {} => r \notin launched /\ run[r] = "none"
              /\ outcome[r] = "cancelled" /\ Faults = {} => r \in launched /\ run[r] # "succeeded"

\* An accounting that says complete means that every selected route was synced,
\* that nothing was deferred or skipped for want of metadata, and that every
\* duplicate is covered.
CompleteIsComplete ==
    accounting = "complete" =>
        /\ main = "succeeded"
        /\ \A r \in Selected : run[r] = "succeeded"
        /\ \A r \in Skips : Skip[r] = "fresh_skipped"
        /\ \A d \in DuplicateSet : Representative[d] # NoRoute

\* A route is deactivated only when a run of its key that closed its jobs has
\* succeeded, also when the removal of a board fails half way.
DeactivatedAfterClosing ==
    \A r \in Planned \ active : \E q \in Planned : KeyOf[q] = KeyOf[r] /\ run[q] = "succeeded"

\* No run is left pending when the command is over (ingestion-integrity spec:
\* "finish every attempt as succeeded or failed").
NoneLeftPending == Ended => \A r \in Planned : run[r] # "pending"

\* It is so, interrupted or not, when no write fails and a cancelled fetch ends at once.
EveryAttemptFinished == ~Slow /\ Faults = {} => NoneLeftPending

\* What the accounting says is what happened, in every situation.
Accounted == TypeOK /\ AccountingExact /\ SucceededIsDurable /\ CompleteIsComplete

\* The command ends, whatever fails: no task waits for ever for a semaphore, and
\* the main task is always resumed.
SyncEnds == <>Ended
=============================================================================
