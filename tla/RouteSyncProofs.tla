---------------------------- MODULE RouteSyncProofs ----------------------------
(***************************************************************************)
(* Proofs about RouteSync, for every plan of routes, every limit, and      *)
(* every situation: whatever writes fail and however a fetch unwinds.      *)
(***************************************************************************)
EXTENDS RouteSync, WellFoundedInduction, TLAPS

Alive(r) == ~Over(r)

\* A task, its run and its outcome agree.
TasksAgree ==
    \A r \in Selected :
        /\ task[r] \in {"queued", "holding"} => r \notin launched
        /\ task[r] \in {"fetching", "unwinding"} => r \in launched /\ run[r] = "pending"
        /\ r \notin launched => run[r] = "none"
        /\ outcome[r] \in {"none", "succeeded", "failed", "timed_out", "rate_limited",
                           "cancelled", "unstarted"}
        /\ Alive(r) => outcome[r] \in {"none", "cancelled", "unstarted"}
        /\ task[r] = "finished" => outcome[r] # "none"
        /\ task[r] = "cancelled" => r \notin launched \/ outcome[r] # "none"
        /\ outcome[r] = "succeeded" => run[r] = "succeeded"

\* While the main task gathers, only a task records the outcome of its route, and one
\* that fails has recorded its cancellation at most.
Gathering ==
    main = "gathering" =>
        /\ accounting = "none"
        /\ \A d \in DuplicateSet : outcome[d] = "none"
        /\ \A r \in Selected :
              /\ Alive(r) => outcome[r] = "none"
              /\ task[r] = "raised" => outcome[r] \in {"none", "cancelled"}
        /\ gather = "raised" => \E r \in Selected : task[r] = "raised"

\* The routes that have no task: what a skipped one is was known at the start, and a
\* duplicate gets a run from the removal of the route it repeats, which ends its task.
WithoutTask ==
    /\ \A r \in Skips : outcome[r] = Skip[r] /\ run[r] = "none"
    /\ \A d \in DuplicateSet :
          run[d] # "none" => /\ Representative[d] \in Selected
                             /\ task[Representative[d]] \in {"finished", "raised"}

Core == TypeOK /\ TasksAgree /\ Gathering /\ WithoutTask

\* Nothing but a fetch that unwinds is left.
Halted == \A r \in Selected : Over(r) \/ task[r] = "unwinding"

\* When no write fails, no task does before the main task is resumed, which is when
\* all of them have halted.
Calm ==
    Faults = {} =>
        /\ main = "gathering" => gather # "raised" /\ \A r \in Selected : task[r] # "raised"
        /\ main # "gathering" \/ gather = "cancelled" \/ cancelled => Halted
        /\ (\E r \in Selected : task[r] = "unwinding") => Halted
        /\ \A r \in Selected :
              /\ outcome[r] = "cancelled" => r \in launched /\ run[r] # "succeeded"
              /\ outcome[r] = "unstarted" => r \notin launched

\* And when no fetch unwinds slowly either, every pending run has its fetch.
PendingIsFetched ==
    ~Slow /\ Faults = {} =>
        \A q \in Planned : run[q] = "pending" => q \in Selected /\ task[q] = "fetching"

\* What a closed accounting says of the outcomes.
Closed ==
    /\ accounting # "none" => \A r \in Planned : outcome[r] # "none"
    /\ accounting = "complete" =>
          /\ main = "succeeded"
          /\ \A r \in Selected : outcome[r] = "succeeded"
          /\ \A r \in Skips : Skip[r] = "fresh_skipped"
          /\ \A d \in DuplicateSet : Representative[d] # NoRoute
    /\ \A d \in DuplicateSet :
          outcome[d] = "duplicate_skipped" =>
              /\ Representative[d] # NoRoute
              /\ outcome[Representative[d]] \in {"succeeded", "fresh_skipped"}

\* A route that counts as failed has no run that says otherwise.
Failures == {"failed", "timed_out", "rate_limited"}
FailuresAgree == \A r \in Selected : outcome[r] \in Failures => run[r] \in {"none", "failed"}

IInv == Core /\ Calm /\ PendingIsFetched /\ Closed /\ FailuresAgree /\ DeactivatedAfterClosing

-----------------------------------------------------------------------------
(* A task, its run and its outcome.                                        *)

\* What the sync is told never changes.
Changes == [Next /\ UNCHANGED situation]_<<vars, situation>>

\* What a sync may find.
LEMMA SituationType ==
    ASSUME situation \in Situations
    PROVE  /\ Unusable \subseteq Selected
           /\ Skip \in [Skips -> {"fresh_skipped", "deferred", "missing_metadata"}]
           /\ Representative \in [DuplicateSet -> Selected \cup Skips \cup {NoRoute}]
           /\ Slow \in BOOLEAN
  BY PlanAssumption DEF Unusable, Skip, Representative, Slow

\* A sync that has not launched anything is in order.
LEMMA InitCore == Init => Core
<1> SUFFICES ASSUME Init PROVE Core
  OBVIOUS
<1> USE PlanAssumption, SituationType DEF Init, Alive, Over, Planned, Dispositions
<1>1. TypeOK
  BY DEF TypeOK
<1>2. TasksAgree /\ Gathering /\ WithoutTask
  BY DEF TasksAgree, Gathering, WithoutTask
<1> QED
  BY <1>1, <1>2 DEF Core

\* The routes that go with the board of r are r and duplicates.
LEMMA Gone ==
    ASSUME NEW r \in Selected, NEW i \in Removal(r)
    PROVE  /\ RouteAt(r, i) \in Planned
           /\ i \in Nat
           /\ i < AllOfThem
           /\ i # 0 => RouteAt(r, i) \in DuplicateSet /\ Representative[RouteAt(r, i)] = r
           /\ i = 0 => RouteAt(r, i) = r
  BY PlanAssumption DEF Removal, RouteAt, AllOfThem, Planned, DuplicateSet

\* The removal begins with r, whose run closes its jobs, and leaves every route without
\* a run of its own alone.
LEMMA Closes ==
    ASSUME NEW r \in Selected, NEW p \in Nat
    PROVE  /\ p > 0 => r \in Closing(r, p)
           /\ \A q \in Closing(r, p) :
                 q \in Planned /\ (q # r => q \in DuplicateSet /\ Representative[q] = r)
<1>1. 0 \in Removal(r) /\ NeedsRun(r, 0) /\ RouteAt(r, 0) = r
  BY Gone DEF Removal, NeedsRun, RouteAt
<1> QED
  BY <1>1, Gone DEF Closing

\* What a removal, whole or not, does to the runs: those of r and of its duplicates
\* change, and r's task is over.
LEMMA RemovalCore ==
    ASSUME Core, NEW r \in Selected, task[r] = "fetching",
           run' \in [Planned -> {"none", "pending", "succeeded", "failed"}],
           \A q \in Selected \cup Skips : q # r => run'[q] = run[q],
           \A d \in DuplicateSet : run'[d] # run[d] => Representative[d] = r,
           active' \subseteq Planned,
           UNCHANGED <<launched, situation>>,
           \/ Records(r, "succeeded") /\ run'[r] = "succeeded"
           \/ UNCHANGED outcome /\ Ends(r, "raised")
    PROVE  Core'
<1> USE DEF Core, TypeOK, Alive, Over, Planned, Dispositions, Ends, Records
<1>1. Skip' = Skip /\ Representative' = Representative
  BY DEF Skip, Representative
<1>2. r \in launched /\ outcome[r] \in {"none", "cancelled", "unstarted"}
  BY DEF TasksAgree
<1>3. TypeOK'
  OBVIOUS
<1>4. TasksAgree'
  <2> SUFFICES ASSUME NEW q \in Selected PROVE TasksAgree!(q)'
    BY DEF TasksAgree
  <2>1. CASE q = r
    BY <1>2, <2>1, PlanAssumption DEF TasksAgree
  <2>2. CASE q # r
    BY <2>2, PlanAssumption DEF TasksAgree
  <2> QED
    BY <2>1, <2>2
<1>5. Gathering'
  BY <1>2, PlanAssumption DEF Gathering
<1>6. WithoutTask'
  BY <1>1, PlanAssumption DEF WithoutTask
<1> QED
  BY <1>3, <1>4, <1>5, <1>6

\* No step of a task disturbs it.
LEMMA StepCore ==
    ASSUME Core, NEW r \in Selected, Step(r), UNCHANGED situation
    PROVE  Core'
<1> USE DEF Core, TypeOK, TasksAgree, Gathering, WithoutTask, Alive, Over, Planned,
            Dispositions, Ends, Records
<1>0. Skip' = Skip /\ Representative' = Representative
  BY DEF Skip, Representative
<1>1. CASE AcquireProvider(r)
  BY <1>0, <1>1, PlanAssumption, SituationType DEF AcquireProvider
<1>2. CASE Start(r)
  <2>1. TypeOK'
    BY <1>0, <1>2, PlanAssumption, SituationType DEF Start
  <2>2. TasksAgree'
    BY <1>0, <1>2, PlanAssumption, SituationType DEF Start
  <2>3. Gathering' /\ WithoutTask'
    BY <1>0, <1>2, PlanAssumption, SituationType DEF Start
  <2> HIDE DEF TypeOK, TasksAgree, Gathering, WithoutTask, Alive, Over, Planned, Dispositions
  <2> QED
    BY <2>1, <2>2, <2>3, Zenon DEF Core
<1>3. CASE Completed(r)
  <2>1. TypeOK'
    <3>1. run' = [run EXCEPT ![r] = "succeeded"] /\ UNCHANGED <<launched, active, situation>>
      BY <1>3 DEF Completed
    <3>2. /\ UNCHANGED <<main, cancelled, accounting>>
          /\ gather' \in {gather, "raised"}
          /\ outcome' \in {outcome, [outcome EXCEPT ![r] = "succeeded"]}
          /\ task' \in {[task EXCEPT ![r] = "finished"], [task EXCEPT ![r] = "raised"]}
      BY <1>3 DEF Completed
    <3> HIDE DEF Core, TasksAgree, Gathering, WithoutTask, Alive, Over, Planned, Ends, Records
    <3>3. TypeOK
      BY DEF Core
    <3> QED
      BY <3>1, <3>2, <3>3
  <2>2. TasksAgree'
    BY <1>0, <1>3, PlanAssumption, SituationType DEF Completed
  <2>3. Gathering'
    BY <1>0, <1>3, PlanAssumption, SituationType DEF Completed
  <2>4. WithoutTask'
    BY <1>0, <1>3, PlanAssumption, SituationType DEF Completed
  <2> HIDE DEF TypeOK, TasksAgree, Gathering, WithoutTask, Alive, Over, Planned, Dispositions
  <2> QED
    BY <2>1, <2>2, <2>3, <2>4, Zenon DEF Core
<1>4. CASE Rejected(r)
  BY <1>0, <1>4, PlanAssumption, SituationType DEF Rejected
<1>5. CASE FetchError(r)
  <2>1. PICK disposition \in {"failed", "timed_out", "rate_limited"} : Records(r, disposition)
    BY <1>5 DEF FetchError
  <2> QED
    BY <1>0, <1>5, <2>1, PlanAssumption, SituationType DEF FetchError
<1>6. CASE PersistenceError(r)
  <2>1. CASE run' = [run EXCEPT ![r] = "failed"]
    BY <1>0, <1>6, <2>1, PlanAssumption, SituationType DEF PersistenceError
  <2>2. CASE UNCHANGED run
    BY <1>0, <1>6, <2>2, PlanAssumption, SituationType DEF PersistenceError
  <2>3. CASE run' = [run EXCEPT ![r] = "succeeded"]
    BY <1>0, <1>6, <2>3, PlanAssumption, SituationType DEF PersistenceError
  <2> QED
    BY <1>6, <2>1, <2>2, <2>3, Zenon DEF PersistenceError
<1>7. CASE Unwound(r)
  <2>1. CASE outcome[r] = "none" /\ outcome' = [outcome EXCEPT ![r] = "cancelled"]
                                 /\ run' = [run EXCEPT ![r] = "failed"] /\ Ends(r, "cancelled")
    BY <1>0, <1>7, <2>1, PlanAssumption, SituationType DEF Unwound
  <2>2. CASE outcome[r] = "none" /\ outcome' = [outcome EXCEPT ![r] = "cancelled"]
                                 /\ UNCHANGED run /\ Ends(r, "raised")
    BY <1>0, <1>7, <2>2, PlanAssumption, SituationType DEF Unwound
  <2>3. CASE outcome[r] # "none" /\ Ends(r, "raised") /\ UNCHANGED <<outcome, run>>
    BY <1>0, <1>7, <2>3, PlanAssumption, SituationType DEF Unwound
  <2> QED
    BY <1>7, <2>1, <2>2, <2>3, Zenon DEF Unwound, CancelledRun
<1> HIDE DEF Core, TypeOK, TasksAgree, Gathering, WithoutTask, Alive, Over, Planned,
             Dispositions, Ends, Records
<1>8. run \in [Planned -> {"none", "pending", "succeeded", "failed"}] /\ active \subseteq Planned
  BY DEF Core, TypeOK
<1>9. r \in Planned /\ r \notin DuplicateSet
  BY PlanAssumption DEF Planned
<1>10. CASE Absent(r)
  <2>1. /\ r \in Closing(r, AllOfThem)
        /\ \A q \in Closing(r, AllOfThem) : q # r => q \in DuplicateSet /\ Representative[q] = r
    <3>1. AllOfThem \in Nat \ {0}
      BY PlanAssumption DEF AllOfThem
    <3> QED
      BY <3>1, Closes
  <2>2. /\ run' \in [Planned -> {"none", "pending", "succeeded", "failed"}]
        /\ run'[r] = "succeeded"
        /\ \A q \in Selected \cup Skips : q # r => run'[q] = run[q]
        /\ \A d \in DuplicateSet : run'[d] # run[d] => Representative[d] = r
    BY <1>8, <1>9, <1>10, <2>1, PlanAssumption DEF Absent, Planned
  <2>3. active' \subseteq Planned
    BY <1>8, <1>10 DEF Absent
  <2> QED
    BY <1>10, <2>2, <2>3, RemovalCore DEF Absent
<1>11. CASE AbsentFails(r)
  <2>1. PICK p \in Removal(r) :
          /\ \E end \in {"succeeded", "failed", "pending", run[RouteAt(r, p)]} :
                run' = [q \in Planned |-> IF q \in Closing(r, p) THEN "succeeded"
                                          ELSE IF q = RouteAt(r, p) THEN end ELSE run[q]]
          /\ active' = active \ Deactivated(r, p)
    BY <1>11 DEF AbsentFails
  <2>2. /\ p \in Nat /\ RouteAt(r, p) \in Planned
        /\ RouteAt(r, p) # r => RouteAt(r, p) \in DuplicateSet /\ Representative[RouteAt(r, p)] = r
        /\ \A q \in Closing(r, p) : q # r => q \in DuplicateSet /\ Representative[q] = r
    BY Closes, Gone
  <2>3. /\ run' \in [Planned -> {"none", "pending", "succeeded", "failed"}]
        /\ \A q \in Selected \cup Skips : q # r => run'[q] = run[q]
        /\ \A d \in DuplicateSet : run'[d] # run[d] => Representative[d] = r
    BY <1>8, <1>9, <2>1, <2>2, PlanAssumption DEF Planned
  <2>4. active' \subseteq Planned
    BY <1>8, <2>1
  <2> QED
    BY <1>11, <2>3, <2>4, RemovalCore DEF AbsentFails
<1> QED
  BY <1>1, <1>2, <1>3, <1>4, <1>5, <1>6, <1>7, <1>10, <1>11 DEF Step

\* What cancelling every task does to each of them, to its outcome and to its run.
CancelsEach(slow, lost) ==
    /\ \A q \in Planned :
          ~(q \in Selected /\ task[q] = "fetching") =>
              outcome'[q] = outcome[q] /\ run'[q] = run[q]
    /\ \A r \in Selected :
          \/ /\ task[r] \in {"unwinding", "finished", "raised", "cancelled"} /\ task'[r] = task[r]
             /\ outcome'[r] = outcome[r] /\ run'[r] = run[r]
          \/ /\ task[r] \in {"queued", "holding"} /\ task'[r] = "cancelled"
             /\ outcome'[r] = outcome[r] /\ run'[r] = run[r]
          \/ /\ task[r] = "fetching" /\ r \in slow
             /\ task'[r] = "unwinding" /\ outcome'[r] = outcome[r] /\ run'[r] = run[r]
          \/ /\ task[r] = "fetching" /\ r \notin slow /\ outcome[r] # "none"
             /\ task'[r] = "raised" /\ outcome'[r] = outcome[r] /\ run'[r] = run[r]
          \/ /\ task[r] = "fetching" /\ r \notin slow /\ outcome[r] = "none" /\ r \notin lost
             /\ task'[r] = "cancelled" /\ outcome'[r] = "cancelled" /\ run'[r] = "failed"
          \/ /\ task[r] = "fetching" /\ r \notin slow /\ outcome[r] = "none" /\ r \in lost
             /\ task'[r] = "raised" /\ outcome'[r] = "cancelled" /\ run'[r] = run[r]
    /\ \/ gather' = gather
       \/ gather' = "cancelled"
       \/ gather' = "raised" /\ \E r \in Selected : task'[r] = "raised"

LEMMA Cancels ==
    ASSUME TypeOK, NEW slow \in SlowFetches, NEW lost \in LostRecords, CancelAll(slow, lost)
    PROVE  /\ CancelsEach(slow, lost)
           /\ DOMAIN task' = Selected /\ DOMAIN outcome' = Planned /\ DOMAIN run' = Planned
           /\ gather' \in {"none", "raised", "cancelled"}
           /\ task' = [r \in Selected |-> task'[r]]
           /\ outcome' = [r \in Planned |-> outcome'[r]]
           /\ run' = [r \in Planned |-> run'[r]]
           /\ UNCHANGED <<launched, active>>
<1>1. slow \subseteq Fetches /\ lost \subseteq Fetches
  BY DEF SlowFetches, LostRecords
<1> USE DEF CancelAll, Fetches, TypeOK, CancelledRun, Planned
<1>2. \A r \in Selected :
          \/ /\ task[r] \in {"unwinding", "finished", "raised", "cancelled"} /\ task'[r] = task[r]
             /\ outcome'[r] = outcome[r] /\ run'[r] = run[r]
          \/ /\ task[r] \in {"queued", "holding"} /\ task'[r] = "cancelled"
             /\ outcome'[r] = outcome[r] /\ run'[r] = run[r]
          \/ /\ task[r] = "fetching" /\ r \in slow
             /\ task'[r] = "unwinding" /\ outcome'[r] = outcome[r] /\ run'[r] = run[r]
          \/ /\ task[r] = "fetching" /\ r \notin slow /\ outcome[r] # "none"
             /\ task'[r] = "raised" /\ outcome'[r] = outcome[r] /\ run'[r] = run[r]
          \/ /\ task[r] = "fetching" /\ r \notin slow /\ outcome[r] = "none" /\ r \notin lost
             /\ task'[r] = "cancelled" /\ outcome'[r] = "cancelled" /\ run'[r] = "failed"
          \/ /\ task[r] = "fetching" /\ r \notin slow /\ outcome[r] = "none" /\ r \in lost
             /\ task'[r] = "raised" /\ outcome'[r] = "cancelled" /\ run'[r] = run[r]
  BY <1>1
<1>3. \A q \in Planned : ~(q \in Selected /\ task[q] = "fetching") =>
          outcome'[q] = outcome[q] /\ run'[q] = run[q]
  BY <1>1
<1>4. \/ gather' = gather
      \/ gather' = "cancelled"
      \/ gather' = "raised" /\ \E r \in Selected : task'[r] = "raised"
  <2>1. \/ gather' = gather
        \/ gather' = "cancelled"
        \/ gather' = "raised" /\ \E r \in Selected : /\ task[r] = "fetching"
                                                     /\ r \notin slow
                                                     /\ outcome[r] # "none" \/ r \in lost
    OBVIOUS
  <2> QED
    BY <1>2, <2>1
<1>5. gather' \in {"none", "raised", "cancelled"}
  BY <1>4
<1> QED
  BY <1>2, <1>3, <1>4, <1>5 DEF CancelsEach

\* Neither an interruption nor the end of the command disturbs it.
LEMMA CancelCore ==
    ASSUME Core, NEW slow \in SlowFetches, NEW lost \in LostRecords, CancelAll(slow, lost),
           main' = main \/ main' = "stopped",
           UNCHANGED <<cancelled, accounting, situation>>
    PROVE  Core'
<1>0. Skip' = Skip /\ Representative' = Representative
  BY DEF Skip, Representative
<1>1. TypeOK /\ CancelsEach(slow, lost)
  BY Cancels DEF Core
<1> USE DEF Planned
<1>2. \A r \in Selected : task'[r] \in {"queued", "holding", "fetching", "unwinding", "finished",
                                        "raised", "cancelled"}
  BY <1>1 DEF CancelsEach, TypeOK
<1>3. \A q \in Planned : /\ outcome'[q] \in Dispositions \cup {"none"}
                         /\ run'[q] \in {"none", "pending", "succeeded", "failed"}
  BY <1>1 DEF CancelsEach, TypeOK, Dispositions
<1>4. TypeOK'
  <2>1. /\ task' \in [Selected -> {"queued", "holding", "fetching", "unwinding", "finished",
                                  "raised", "cancelled"}]
        /\ outcome' \in [Planned -> Dispositions \cup {"none"}]
        /\ run' \in [Planned -> {"none", "pending", "succeeded", "failed"}]
    <3> HIDE DEF Planned
    <3> QED
      BY <1>1, <1>2, <1>3, Cancels
  <2>2. /\ gather' \in {"none", "raised", "cancelled"}
        /\ UNCHANGED <<launched, active>>
    BY <1>1, Cancels
  <2> QED
    BY <1>1, <2>1, <2>2 DEF TypeOK
<1>5. TasksAgree'
  <2> SUFFICES ASSUME NEW r \in Selected PROVE TasksAgree!(r)'
    BY DEF TasksAgree
  <2>1. TasksAgree!(r) /\ UNCHANGED launched
    BY Cancels DEF Core, TasksAgree
  <2> QED
    BY <1>1, <2>1 DEF CancelsEach, Alive, Over
<1>6. Gathering'
  <2>1. Gathering /\ UNCHANGED accounting /\ (main' = "gathering" => main = "gathering")
    BY DEF Core
  <2>2. \A d \in DuplicateSet : outcome'[d] = outcome[d]
    BY <1>1, PlanAssumption DEF CancelsEach
  <2> QED
    BY <1>1, <2>1, <2>2 DEF Gathering, CancelsEach, Alive, Over
<1>7. WithoutTask'
  <2>1. WithoutTask
    BY DEF Core
  <2>2. \A q \in Skips \cup DuplicateSet : outcome'[q] = outcome[q] /\ run'[q] = run[q]
    BY <1>1, PlanAssumption DEF CancelsEach
  <2> QED
    BY <1>0, <1>1, <2>1, <2>2 DEF WithoutTask, CancelsEach
<1> QED
  BY <1>4, <1>5, <1>6, <1>7 DEF Core

\* Nor does the closing of the accounting.
LEMMA CloseCore ==
    ASSUME Core, Close, UNCHANGED situation
    PROVE  Core'
<1>0. Skip' = Skip /\ Representative' = Representative
  BY DEF Skip, Representative
<1> USE PlanAssumption DEF Core, Close, Planned
<1>1. \A q \in Planned : outcome[q] # "none" => outcome'[q] = outcome[q]
  BY DEF TypeOK
<1>2. \A r \in Selected : outcome'[r] \in {outcome[r], "none", "cancelled", "unstarted"}
  BY DEF TypeOK, Missed
<1>3. \A q \in Planned : outcome'[q] \in Dispositions \cup {"none"}
  BY DEF TypeOK, Missed, DuplicateOutcome, Dispositions
<1>4. TypeOK'
  BY <1>3 DEF TypeOK
<1>5. TasksAgree'
  BY <1>1, <1>2 DEF TasksAgree, Alive, Over
<1>6. Gathering'
  BY DEF Gathering
<1>7. WithoutTask'
  BY <1>0, <1>1, SituationType DEF WithoutTask, TypeOK
<1> QED
  BY <1>4, <1>5, <1>6, <1>7

\* So no step does.
LEMMA NextCore == Core /\ Changes => Core'
<1> SUFFICES ASSUME Core, Changes PROVE Core'
  OBVIOUS
<1>1. CASE UNCHANGED <<vars, situation>>
  BY <1>1 DEF vars, Core, TypeOK, TasksAgree, Gathering, WithoutTask, Alive, Over, Skip,
              Representative
<1>2. CASE (\E r \in Selected : Step(r)) /\ UNCHANGED situation
  BY <1>2, StepCore
<1>3. CASE Interrupt /\ UNCHANGED situation
  <2>1. CASE \E slow \in SlowFetches, lost \in LostRecords : CancelAll(slow, lost)
                /\ UNCHANGED <<main, cancelled, accounting, situation>>
    BY <2>1, CancelCore
  <2>2. CASE cancelled' = TRUE /\ UNCHANGED <<main, accounting, task, launched, outcome, run,
                                              active, gather, situation>>
    BY <2>2 DEF Core, TypeOK, TasksAgree, Gathering, WithoutTask, Alive, Over, Skip,
                Representative
  <2> QED
    BY <1>3, <2>1, <2>2 DEF Interrupt
<1>4. CASE Close /\ UNCHANGED situation
  BY <1>4, CloseCore
<1>5. CASE Shutdown /\ UNCHANGED situation
  BY <1>5, CancelCore DEF Shutdown
<1> QED
  BY <1>1, <1>2, <1>3, <1>4, <1>5 DEF Changes, Next

-----------------------------------------------------------------------------
(* What is written stays.                                                  *)

\* A run that succeeded stays so: no later step finds the fetch it would belong to.
LEMMA RunsStay ==
    ASSUME Core, Changes, NEW q \in Planned, run[q] = "succeeded"
    PROVE  run'[q] = "succeeded"
<1> USE PlanAssumption DEF Core, TypeOK, TasksAgree
<1>1. CASE UNCHANGED run
  BY <1>1
<1>2. ASSUME NEW r \in Selected, Step(r)
      PROVE  run'[q] = "succeeded"
  <2> USE DEF Planned
  <2>1. CASE Start(r) \/ Completed(r) \/ Rejected(r) \/ FetchError(r) \/ PersistenceError(r)
             \/ Unwound(r) \/ AcquireProvider(r)
    BY <2>1 DEF Start, Completed, Rejected, FetchError, PersistenceError, Unwound, AcquireProvider
  <2>2. CASE Absent(r)
    BY <2>2 DEF Absent
  <2>3. CASE AbsentFails(r)
    <3>1. PICK p \in Removal(r) :
              \E end \in {"succeeded", "failed", "pending", run[RouteAt(r, p)]} :
                 run' = [x \in Planned |-> IF x \in Closing(r, p) THEN "succeeded"
                                           ELSE IF x = RouteAt(r, p) THEN end ELSE run[x]]
      BY <2>3 DEF AbsentFails
    <3>2. q # RouteAt(r, p)
      BY <2>3, Gone DEF AbsentFails, WithoutTask
    <3> QED
      BY <3>1, <3>2
  <2> QED
    BY <1>2, <2>1, <2>2, <2>3 DEF Step
<1>3. ASSUME NEW slow \in SlowFetches, NEW lost \in LostRecords, CancelAll(slow, lost)
      PROVE  run'[q] = "succeeded"
  BY <1>3, Cancels DEF CancelsEach
<1> QED
  BY <1>1, <1>2, <1>3 DEF Changes, vars, Next, Interrupt, Close, Shutdown

\* So does an outcome.
LEMMA OutcomesStay ==
    ASSUME Core, Changes, NEW q \in Planned, outcome[q] # "none"
    PROVE  outcome'[q] = outcome[q]
<1> USE PlanAssumption DEF Core, TypeOK, Planned
<1>1. CASE UNCHANGED outcome
  BY <1>1
<1>2. ASSUME NEW r \in Selected, Step(r)
      PROVE  outcome'[q] = outcome[q]
  BY <1>2 DEF Step, Start, Completed, Rejected, FetchError, PersistenceError, Absent, AbsentFails,
              Unwound, AcquireProvider, Records
<1>3. ASSUME NEW slow \in SlowFetches, NEW lost \in LostRecords, CancelAll(slow, lost)
      PROVE  outcome'[q] = outcome[q]
  BY <1>3, Cancels DEF CancelsEach
<1>4. CASE Close
  BY <1>4 DEF Close
<1> QED
  BY <1>1, <1>2, <1>3, <1>4 DEF Changes, vars, Next, Interrupt, Shutdown

\* Nor does the run of a task that is over change.
LEMMA OverRunsStay ==
    ASSUME Core, Changes, NEW q \in Selected, Over(q)
    PROVE  run'[q] = run[q]
<1> USE PlanAssumption DEF Core, TypeOK, Over, Planned
<1>1. CASE UNCHANGED run
  BY <1>1
<1>2. ASSUME NEW r \in Selected, Step(r)
      PROVE  run'[q] = run[q]
  <2>1. r # q
    BY <1>2 DEF Step, AcquireProvider, Start, Completed, Rejected, FetchError, PersistenceError,
                Absent, AbsentFails, Unwound
  <2>2. CASE Start(r) \/ Completed(r) \/ Rejected(r) \/ FetchError(r) \/ PersistenceError(r)
             \/ Unwound(r) \/ AcquireProvider(r)
    BY <2>1, <2>2 DEF Start, Completed, Rejected, FetchError, PersistenceError, Unwound,
                      AcquireProvider
  <2>3. CASE Absent(r)
    <3>1. q \notin Closing(r, AllOfThem)
      BY <2>1, Closes DEF AllOfThem
    <3> QED
      BY <2>3, <3>1 DEF Absent
  <2>4. CASE AbsentFails(r)
    <3>1. PICK p \in Removal(r) :
              \E end \in {"succeeded", "failed", "pending", run[RouteAt(r, p)]} :
                 run' = [x \in Planned |-> IF x \in Closing(r, p) THEN "succeeded"
                                           ELSE IF x = RouteAt(r, p) THEN end ELSE run[x]]
      BY <2>4 DEF AbsentFails
    <3>2. q # RouteAt(r, p) /\ q \notin Closing(r, p)
      BY <2>1, Gone, Closes
    <3> QED
      BY <3>1, <3>2
  <2> QED
    BY <1>2, <2>2, <2>3, <2>4 DEF Step
<1>3. ASSUME NEW slow \in SlowFetches, NEW lost \in LostRecords, CancelAll(slow, lost)
      PROVE  run'[q] = run[q]
  BY <1>3, Cancels DEF CancelsEach
<1> QED
  BY <1>1, <1>2, <1>3 DEF Changes, vars, Next, Interrupt, Close, Shutdown

\* Only a task that found its provider unusable, or fails its run, counts a failure.
LEMMA FailuresStart ==
    ASSUME Core, Changes, NEW q \in Selected, outcome[q] \notin Failures, outcome'[q] \in Failures
    PROVE  run'[q] \in {"none", "failed"}
<1> USE PlanAssumption DEF Core, TypeOK, Planned, Failures
<1>1. outcome'[q] # outcome[q]
  OBVIOUS
<1>2. ASSUME NEW r \in Selected, Step(r)
      PROVE  run'[q] \in {"none", "failed"}
  <2>1. CASE Start(r)
    <3>1. run'[r] = "none" \/ UNCHANGED outcome
      BY <2>1 DEF Start, TasksAgree
    <3>2. r = q
      BY <1>1, <2>1 DEF Start, Records
    <3> QED
      BY <1>1, <3>1, <3>2
  <2>2. CASE Rejected(r) \/ FetchError(r)
    <3>1. r = q
      BY <1>1, <2>2 DEF Rejected, FetchError, Records
    <3> QED
      BY <2>2, <3>1 DEF Rejected, FetchError
  <2>3. CASE Completed(r) \/ Absent(r) \/ Unwound(r)
    <3>1. outcome'[q] \in {outcome[q], "succeeded", "cancelled"}
      BY <2>3 DEF Completed, Absent, Unwound, Records
    <3> QED
      BY <1>1, <3>1
  <2>4. CASE AcquireProvider(r) \/ PersistenceError(r) \/ AbsentFails(r)
    BY <1>1, <2>4 DEF AcquireProvider, PersistenceError, AbsentFails
  <2> QED
    BY <1>2, <2>1, <2>2, <2>3, <2>4 DEF Step
<1>3. ASSUME NEW slow \in SlowFetches, NEW lost \in LostRecords, CancelAll(slow, lost)
      PROVE  FALSE
  BY <1>3, <1>1, Cancels DEF CancelsEach
<1>4. CASE Close
  BY <1>4, <1>1 DEF Close, Missed
<1> QED
  BY <1>1, <1>2, <1>3, <1>4 DEF Changes, vars, Next, Interrupt, Shutdown

\* So a failure that is counted stays right.
LEMMA NextFailures == Core /\ FailuresAgree /\ Changes => FailuresAgree'
<1> SUFFICES ASSUME Core, FailuresAgree, Changes, NEW q \in Selected, outcome'[q] \in Failures
             PROVE  run'[q] \in {"none", "failed"}
  BY DEF FailuresAgree
<1>1. CASE outcome[q] \in Failures
  <2>1. Over(q)
    BY <1>1 DEF Core, TasksAgree, Alive, Failures
  <2> QED
    BY <1>1, <2>1, OverRunsStay DEF FailuresAgree
<1> QED
  BY <1>1, FailuresStart

-----------------------------------------------------------------------------
(* When no write fails.                                                    *)

\* A step of a task raises only what the main task recorded first.
LEMMA StepCalm ==
    ASSUME Core, Calm, NEW r \in Selected, Step(r), UNCHANGED situation
    PROVE  Calm'
<1> SUFFICES ASSUME Faults = {} PROVE Calm'
  BY DEF Calm, Faults
<1> USE PlanAssumption
    DEF Core, TypeOK, TasksAgree, Gathering, Calm, Halted, Alive, Over, Planned, Ends, Records
<1>1. CASE AcquireProvider(r)
  BY <1>1 DEF AcquireProvider
<1>2. CASE Start(r)
  BY <1>2 DEF Start
<1>3. CASE Completed(r)
  BY <1>3 DEF Completed
<1>4. CASE Rejected(r)
  BY <1>4 DEF Rejected
<1>5. CASE FetchError(r)
  BY <1>5 DEF FetchError
<1>6. CASE PersistenceError(r)
  BY <1>6 DEF PersistenceError
<1>7. CASE Absent(r)
  <2>1. \A q \in Selected : run'[q] = run[q] \/ q = r
    BY <1>7, Closes DEF Absent, AllOfThem
  <2> QED
    BY <1>7, <2>1 DEF Absent
<1>8. CASE AbsentFails(r)
  BY <1>8 DEF AbsentFails
<1>9. CASE Unwound(r)
  BY <1>9 DEF Unwound, CancelledRun
<1> QED
  BY <1>1, <1>2, <1>3, <1>4, <1>5, <1>6, <1>7, <1>8, <1>9 DEF Step

\* Cancelling every task halts them; none of them raises before the main task is resumed.
LEMMA CancelCalm ==
    ASSUME Core, Calm, NEW slow \in SlowFetches, NEW lost \in LostRecords, CancelAll(slow, lost),
           main' = main \/ (main' = "stopped" /\ main # "gathering"),
           UNCHANGED <<cancelled, situation>>
    PROVE  Calm'
<1> SUFFICES ASSUME Faults = {} PROVE Calm'
  BY DEF Calm, Faults
<1>1. CancelsEach(slow, lost) /\ UNCHANGED launched
  BY Cancels DEF Core
<1>2. Halted'
  BY <1>1 DEF CancelsEach, Halted, Over
<1>3. lost = {}
  BY DEF LostRecords
<1> QED
  BY <1>1, <1>2, <1>3, PlanAssumption
     DEF Core, TypeOK, TasksAgree, Gathering, Calm, CancelsEach, Alive, Over, Planned

\* Nor does any step at all disturb it.
LEMMA NextCalm == Core /\ Calm /\ Changes => Calm'
<1> SUFFICES ASSUME Core, Calm, Changes PROVE Calm'
  OBVIOUS
<1>1. CASE UNCHANGED <<vars, situation>>
  BY <1>1 DEF vars, Calm, Halted, Over, Faults
<1>2. CASE (\E r \in Selected : Step(r)) /\ UNCHANGED situation
  BY <1>2, StepCalm
<1>3. CASE Interrupt /\ UNCHANGED situation
  <2>1. CASE \E slow \in SlowFetches, lost \in LostRecords : CancelAll(slow, lost)
                /\ UNCHANGED <<main, cancelled, accounting, situation>>
    BY <2>1, CancelCalm
  <2>2. CASE /\ cancelled' = TRUE /\ UNCHANGED <<main, accounting, task, launched, outcome, run,
                                                 active, gather, situation>>
             /\ main = "gathering"
             /\ gather # "none" \/ \A r \in Selected : Over(r)
    BY <2>2 DEF Core, TypeOK, Calm, Halted, Over, Faults
  <2> QED
    BY <1>3, <2>1, <2>2 DEF Interrupt
<1>4. CASE Close /\ UNCHANGED situation
  <2> SUFFICES ASSUME Faults = {} PROVE Calm'
    BY <1>4 DEF Calm, Faults
  <2>1. Halted /\ \A r \in Selected : task[r] # "raised"
    BY <1>4 DEF Core, TypeOK, Calm, Close, Gathered, Halted, Over
  <2>2. UNCHANGED <<task, launched, run, gather>> /\ main' # "gathering"
    BY <1>4 DEF Close
  <2>3. \A r \in Selected :
            \/ outcome'[r] = outcome[r]
            \/ outcome[r] = "none" /\ outcome'[r] = "none"
            \/ outcome[r] = "none" /\ outcome'[r] = Missed(r)
    BY <1>4, PlanAssumption DEF Close, Planned
  <2> QED
    BY <2>1, <2>2, <2>3 DEF Core, TasksAgree, Calm, Halted, Over, Missed
<1>5. CASE Shutdown /\ UNCHANGED situation
  BY <1>5, CancelCalm DEF Shutdown
<1> QED
  BY <1>1, <1>2, <1>3, <1>4, <1>5 DEF Changes, Next

\* Nor does a step leave a run pending whose fetch is over.
LEMMA NextPending == Core /\ Calm /\ PendingIsFetched /\ Changes => PendingIsFetched'
<1> SUFFICES ASSUME Core, Calm, PendingIsFetched, Changes, ~Slow, Faults = {}
             PROVE  \A q \in Planned : run'[q] = "pending" => q \in Selected /\ task'[q] = "fetching"
  BY DEF PendingIsFetched, Slow, Faults, Changes, vars
<1> USE DEF PendingIsFetched
<1>1. CASE UNCHANGED <<task, run>>
  BY <1>1
<1>2. ASSUME NEW r \in Selected, Step(r)
      PROVE  \A q \in Planned : run'[q] = "pending" => q \in Selected /\ task'[q] = "fetching"
  <2> USE PlanAssumption DEF Core, TypeOK, TasksAgree, Planned, Ends, Records
  <2>1. CASE AcquireProvider(r)
    BY <2>1 DEF AcquireProvider
  <2>2. CASE Start(r)
    BY <2>2 DEF Start
  <2>3. CASE Completed(r) \/ Rejected(r) \/ FetchError(r) \/ PersistenceError(r)
    BY <2>3 DEF Completed, Rejected, FetchError, PersistenceError
  <2>4. CASE Absent(r)
    BY <2>4, Closes DEF Absent, AllOfThem
  <2>5. CASE AbsentFails(r)
    BY <2>5 DEF AbsentFails
  <2>6. CASE Unwound(r)
    BY <2>6 DEF Unwound
  <2> QED
    BY <1>2, <2>1, <2>2, <2>3, <2>4, <2>5, <2>6 DEF Step
<1>3. ASSUME NEW slow \in SlowFetches, NEW lost \in LostRecords, CancelAll(slow, lost),
             main = "gathering" \/ Halted
      PROVE  \A q \in Planned : run'[q] = "pending" => q \in Selected /\ task'[q] = "fetching"
  <2>1. slow = {} /\ lost = {}
    BY DEF SlowFetches, LostRecords
  <2>2. \A r \in Selected : task[r] = "fetching" => outcome[r] = "none"
    BY <1>3 DEF Core, Gathering, Halted, Alive, Over
  <2> QED
    BY <1>3, <2>1, <2>2, Cancels DEF Core, CancelsEach
<1> QED
  BY <1>1, <1>2, <1>3 DEF Changes, vars, Next, Interrupt, Close, Shutdown, Calm

-----------------------------------------------------------------------------
(* The accounting and the removals.                                        *)

\* The closing finds what it says: a task that raised leaves its route without an
\* outcome, or cancelled, so that no accounting is complete.
LEMMA NextClosed == Core /\ Closed /\ Changes => Closed'
<1> SUFFICES ASSUME Core, Closed, Changes PROVE Closed'
  OBVIOUS
<1>0. Skip' = Skip /\ Representative' = Representative
  BY DEF Changes, vars, Skip, Representative
<1>1. situation \in Situations /\ Core'
  BY NextCore DEF Core, TypeOK
<1>2. CASE ~Close
  <2>1. UNCHANGED accounting /\ (main = "succeeded" => main' = "succeeded")
    BY <1>2 DEF Changes, vars, Next, Step, Interrupt, Shutdown, AcquireProvider, Start, Completed,
                Rejected, FetchError, PersistenceError, Absent, AbsentFails, Unwound, Ends, Records
  <2>2. \A d \in DuplicateSet : outcome'[d] = outcome[d]
    <3> USE PlanAssumption DEF Core, TypeOK, Planned
    <3>1. CASE UNCHANGED outcome
      BY <3>1
    <3>2. ASSUME NEW r \in Selected, Step(r)
          PROVE  \A d \in DuplicateSet : outcome'[d] = outcome[d]
      BY <3>2 DEF Step, AcquireProvider, Start, Completed, Rejected, FetchError, PersistenceError,
                  Absent, AbsentFails, Unwound, Records
    <3>3. ASSUME NEW slow \in SlowFetches, NEW lost \in LostRecords, CancelAll(slow, lost)
          PROVE  \A d \in DuplicateSet : outcome'[d] = outcome[d]
      BY <3>3, Cancels DEF CancelsEach
    <3> QED
      BY <1>2, <3>1, <3>2, <3>3 DEF Changes, vars, Next, Interrupt, Shutdown
  <2>3. \A q \in Planned : outcome[q] # "none" => outcome'[q] = outcome[q]
    BY OutcomesStay
  <2> QED
    BY <1>0, <1>1, <2>1, <2>2, <2>3, SituationType DEF Closed, Planned
<1>3. CASE Close
  <2> USE PlanAssumption, SituationType DEF Core, TypeOK, Planned
  <2>1. \A d \in DuplicateSet : /\ outcome[d] = "none"
                                /\ outcome'[d] = DuplicateOutcome(d)
    BY <1>3 DEF Close, Gathering
  <2>2. \A q \in Planned : outcome[q] # "none" => outcome'[q] = outcome[q]
    BY <1>3 DEF Close
  <2>3. ASSUME NEW d \in DuplicateSet, outcome'[d] \notin Bad
        PROVE  /\ outcome'[d] = "duplicate_skipped"
               /\ Representative[d] \in Selected \cup Skips
               /\ outcome'[Representative[d]] \in {"succeeded", "fresh_skipped"}
    BY <2>1, <2>2, <2>3 DEF DuplicateOutcome, Bad
  <2>4. accounting' # "none" => \A q \in Planned : outcome'[q] # "none"
    BY <1>3 DEF Close
  <2>5. ASSUME accounting' = "complete"
        PROVE  /\ main' = "succeeded"
               /\ \A r \in Selected : outcome'[r] = "succeeded"
               /\ \A r \in Skips : Skip[r] = "fresh_skipped"
               /\ \A d \in DuplicateSet : Representative[d] # NoRoute
    <3>1. /\ \A q \in Planned : outcome'[q] \notin Bad /\ outcome'[q] # "none"
          /\ ~cancelled /\ gather # "cancelled"
      BY <1>3, <2>5 DEF Close
    <3>2. \A r \in Selected : outcome'[r] = outcome[r]
      BY <1>3, <3>1 DEF Close, Missed, Bad
    <3>3. gather = "none"
      BY <1>3, <3>1, <3>2 DEF Close, Gathering, Bad
    <3>4. main' = "succeeded"
      BY <1>3, <3>1, <3>3 DEF Close
    <3>5. \A r \in Selected : outcome'[r] = "succeeded"
      BY <3>1, <3>2 DEF TasksAgree, Bad
    <3>6. \A r \in Skips : Skip[r] = "fresh_skipped"
      BY <2>2, <3>1 DEF WithoutTask, Bad
    <3> QED
      BY <2>3, <3>1, <3>4, <3>5, <3>6
  <2>6. \A d \in DuplicateSet :
           outcome'[d] = "duplicate_skipped" =>
               /\ Representative[d] # NoRoute
               /\ outcome'[Representative[d]] \in {"succeeded", "fresh_skipped"}
    BY <2>3 DEF Bad
  <2> HIDE DEF Core, TypeOK, Planned
  <2> QED
    BY <1>0, <2>4, <2>5, <2>6 DEF Closed, Planned
<1> QED
  BY <1>2, <1>3

\* Every route that is removed before place p has a run of its key that closes its jobs:
\* that of the first route of the key.
LEMMA RemovedAreClosed ==
    ASSUME NEW r \in Selected, NEW p \in Nat, NEW q \in Deactivated(r, p)
    PROVE  \E x \in Closing(r, p) : KeyOf[x] = KeyOf[q]
<1>1. PICK i \in Removal(r) : i < p /\ q = RouteAt(r, i)
  BY DEF Deactivated
<1> DEFINE Same == {k \in Removal(r) : k <= i /\ KeyOf[RouteAt(r, k)] = KeyOf[q]}
<1>2. Removal(r) \subseteq Nat
  BY Gone
<1>3. Same \subseteq Nat /\ i \in Same
  BY <1>1, <1>2
<1>4. PICK m \in Same : \A k \in Same : ~(<<k, m>> \in OpToRel(<, Nat))
  <2> HIDE DEF Same
  <2> QED
    BY <1>3, WFMin, NatLessThanWellFounded
<1>5. \A k \in Same : ~(k < m)
  BY <1>3, <1>4 DEF OpToRel
<1>6. NeedsRun(r, m)
  BY <1>1, <1>2, <1>5 DEF NeedsRun
<1> QED
  BY <1>1, <1>2, <1>6 DEF Closing

\* No step deactivates a route before a run of its key has succeeded.
LEMMA NextDeactivated ==
    Core /\ DeactivatedAfterClosing /\ Changes => DeactivatedAfterClosing'
<1> SUFFICES ASSUME Core, DeactivatedAfterClosing, Changes,
                    NEW x \in Planned, x \notin active'
             PROVE  \E q \in Planned : KeyOf[q] = KeyOf[x] /\ run'[q] = "succeeded"
  BY DEF DeactivatedAfterClosing
<1>1. CASE x \notin active
  BY <1>1, RunsStay DEF DeactivatedAfterClosing
<1>2. ASSUME NEW r \in Selected, NEW p \in Nat, x \in Deactivated(r, p),
             \A q \in Closing(r, p) : run'[q] = "succeeded"
      PROVE  \E q \in Planned : KeyOf[q] = KeyOf[x] /\ run'[q] = "succeeded"
  BY <1>2, RemovedAreClosed, Closes
<1>3. ASSUME NEW r \in Selected, Absent(r) \/ AbsentFails(r), x \in active
      PROVE  \E p \in Nat : /\ x \in Deactivated(r, p)
                            /\ \A q \in Closing(r, p) : run'[q] = "succeeded"
  <2>1. CASE Absent(r)
    <3>1. AllOfThem \in Nat
      BY PlanAssumption DEF AllOfThem
    <3>2. \A q \in Closing(r, AllOfThem) : q \in Planned
      BY <3>1, Closes
    <3> QED
      BY <1>3, <2>1, <3>1, <3>2 DEF Absent
  <2>2. CASE AbsentFails(r)
    <3>1. PICK p \in Removal(r) :
            /\ \E end \in {"succeeded", "failed", "pending", run[RouteAt(r, p)]} :
                  run' = [q \in Planned |-> IF q \in Closing(r, p) THEN "succeeded"
                                            ELSE IF q = RouteAt(r, p) THEN end ELSE run[q]]
            /\ active' = active \ Deactivated(r, p)
      BY <2>2 DEF AbsentFails
    <3>2. p \in Nat /\ \A q \in Closing(r, p) : q \in Planned
      BY Gone, Closes
    <3> QED
      BY <1>3, <3>1, <3>2
  <2> QED
    BY <1>3, <2>1, <2>2
<1>4. CASE \A r \in Selected : ~Absent(r) /\ ~AbsentFails(r)
  <2>1. UNCHANGED active
    BY <1>4 DEF Changes, vars, Next, Step, AcquireProvider, Start, Completed, Rejected, FetchError,
                PersistenceError, Unwound, Interrupt, Shutdown, Close, CancelAll
  <2> QED
    BY <1>1, <2>1
<1> QED
  BY <1>1, <1>2, <1>3, <1>4

-----------------------------------------------------------------------------
(* The theorems.                                                           *)

\* The inductive invariant holds at the start.
LEMMA InitIInv == Init => IInv
<1> SUFFICES ASSUME Init PROVE IInv
  OBVIOUS
<1>1. Core
  BY InitCore
<1>2. Calm /\ PendingIsFetched /\ FailuresAgree /\ DeactivatedAfterClosing
  BY <1>1, PlanAssumption
     DEF Init, Calm, PendingIsFetched, FailuresAgree, DeactivatedAfterClosing, Planned
<1>3. Closed
  BY <1>1, PlanAssumption DEF Init, Closed, Planned
<1> QED
  BY <1>1, <1>2, <1>3 DEF IInv

\* And every step preserves it.
LEMMA NextIInv == IInv /\ Changes => IInv'
  BY NextCore, NextCalm, NextPending, NextClosed, NextFailures, NextDeactivated DEF IInv

LEMMA Invariant == Spec => []IInv
<1>1. Init => IInv
  BY InitIInv
<1>2. IInv /\ [Next /\ UNCHANGED situation]_<<vars, situation>> => IInv'
  BY NextIInv DEF Changes
<1> QED
  BY <1>1, <1>2, PTL DEF Spec

\* Whatever writes fail and whenever the operator interrupts: a closed accounting gives every
\* planned route a class, succeeded means durably synced, failed means no run that says
\* otherwise, and complete means that nothing was left out.  When no write fails, cancelled
\* work was launched and its run has not succeeded, and unstarted work has no run.
THEOREM AccountedAlways == Spec => []Accounted
<1>1. IInv => Accounted
  <2> SUFFICES ASSUME IInv PROVE Accounted
    OBVIOUS
  <2> USE DEF IInv, Core, Closed
  <2>1. AccountingExact
    BY PlanAssumption
       DEF AccountingExact, TypeOK, TasksAgree, Calm, FailuresAgree, Failures, Planned
  <2>2. SucceededIsDurable
    BY DEF SucceededIsDurable, TasksAgree
  <2>3. CompleteIsComplete
    BY DEF CompleteIsComplete, TasksAgree
  <2> QED
    BY <2>1, <2>2, <2>3 DEF Accounted
<1> QED
  BY <1>1, Invariant, PTL

\* When no write fails and every cancelled fetch ends at once, no run is pending when the
\* command is over.
THEOREM AttemptsFinished == Spec => []EveryAttemptFinished
<1>1. IInv => EveryAttemptFinished
  BY DEF IInv, EveryAttemptFinished, NoneLeftPending, PendingIsFetched, Ended, Over
<1> QED
  BY <1>1, Invariant, PTL

\* A route is deactivated only after a run of its ledger key has closed its jobs, however
\* many duplicates go with it, whatever keys they share, and wherever the removal fails.
THEOREM ClosedBeforeDeactivated == Spec => []DeactivatedAfterClosing
<1>1. IInv => DeactivatedAfterClosing
  BY DEF IInv
<1> QED
  BY <1>1, Invariant, PTL
=============================================================================
