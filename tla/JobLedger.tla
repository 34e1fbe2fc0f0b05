------------------------------- MODULE JobLedger -------------------------------
(***************************************************************************)
(* The durable job ledger of one provider route: the rows OpenOppsStore    *)
(* keeps in SQLite for a (board, provider) pair, and the attempts that     *)
(* write them (src/src/openopps/storage.py).                               *)
(*                                                                         *)
(* An attempt inserts a pending run before the provider is called, fetches *)
(* a snapshot, commits it in batches of db_batch_size jobs, one            *)
(* transaction each, and in a last transaction closes the jobs it did not  *)
(* see and marks the run succeeded.  Any failure marks the run failed and  *)
(* keeps what was committed.                                               *)
(*                                                                         *)
(* The sqlite3 driver of the engine opens a transaction at the first write *)
(* and not at the first read.  What a session reads before its first       *)
(* write, the first job row of a batch and the open jobs of the            *)
(* reconciliation, is therefore a step of its own: another process may     *)
(* commit between that read and the session's commit.  The ORM then writes *)
(* only the columns that differ from the row it had read.                  *)
(***************************************************************************)
EXTENDS Naturals, FiniteSets, Sequences

CONSTANTS
    Run,            \* the job_sync_runs rows that may ever be begun
    Job,            \* the job identities of the route
    Hash,           \* the content hashes a listing may have
    BatchSize,      \* settings.db_batch_size
    Snapshots,      \* the provider results enumerated: sequences of listings
    MaxWriters      \* bound: attempts of different processes alive at once

Listing == [id : Job, hash : Hash]

ASSUME ConstantsAssumption ==
    /\ IsFiniteSet(Job)
    /\ BatchSize \in Nat \ {0}
    /\ MaxWriters \in Nat \ {0}
    /\ Snapshots \subseteq Seq(Listing)

VARIABLES
    runs,           \* job_sync_runs
    rows,           \* jobs
    versions,       \* job_versions: the content hash of version n at index n
    observations,   \* job_sync_observations of each job, in commit order
    attempt         \* volatile: where the process of each run stands

durable == <<runs, rows, versions, observations>>
vars == <<runs, rows, versions, observations, attempt>>

SeenKinds == {"new", "changed", "reopened", "unchanged"}
Kinds == SeenKinds \cup {"closed"}

NoRun == [status |-> "absent", authoritative |-> FALSE, error |-> "none",
          count |-> [k \in Kinds |-> 0], jobCount |-> 0, batches |-> 0]
NoRow == [status |-> "absent", version |-> 0]
AttemptAt(pc, jobs, close) ==
    [pc |-> pc, jobs |-> jobs, offset |-> 0, close |-> close, read |-> {}]

-----------------------------------------------------------------------------
(* Snapshots: one listing per job, the first one, in snapshot order.       *)

Firsts(s) == {i \in DOMAIN s : \A k \in 1 .. (i - 1) : s[k].id # s[i].id}

Rank(s, i) == Cardinality({k \in Firsts(s) : k < i})

\* The jobs of the batch that starts at an offset, with their contents.
BatchOf(s, offset) ==
    LET at == {i \in Firsts(s) : Rank(s, i) \in offset .. (offset + BatchSize - 1)} IN
    [j \in {s[i].id : i \in at} |-> s[CHOOSE i \in at : s[i].id = j].hash]

\* The job whose row the session reads before its transaction has begun.
LeadOf(s, offset) == {s[i].id : i \in {k \in Firsts(s) : Rank(s, k) = offset}}

\* Mutant: only the last listing counts as seen.
SeenBy_LastOnly(s) == IF s = <<>> THEN {} ELSE {s[Len(s)].id}

SeenBy(s) == {s[i].id : i \in DOMAIN s}

-----------------------------------------------------------------------------
(* One job of a batch.                                                     *)

HashesOf(j) == {versions[j][n] : n \in DOMAIN versions[j]}

\* Mutant: a closed job that is listed again is compared like an open one.
ObservationKind_NoReopen(row, j, h) ==
    IF row.status = "absent" THEN "new"
    ELSE IF versions[j][row.version] = h THEN "unchanged"
    ELSE "changed"

\* Mutant: the row's own status is taken for the kind.
ObservationKind_RowStatus(row, j, h) ==
    IF row.status = "open" THEN "unchanged" ELSE row.status

\* What the observation is called, from the row as the session has read it.
ObservationKind(row, j, h) ==
    IF row.status = "absent" THEN "new"
    ELSE IF row.status = "closed" THEN "reopened"
    ELSE IF versions[j][row.version] = h THEN "unchanged"
    ELSE "changed"

\* The version of this content, a new one after the last if there is none.
VersionOf(j, h) ==
    IF h \in HashesOf(j)
    THEN CHOOSE n \in DOMAIN versions[j] : versions[j][n] = h
    ELSE Len(versions[j]) + 1

\* Mutant: a version row for every listing.
VersionsWith_Always(j, h) == Append(versions[j], h)

VersionsWith(j, h) ==
    IF h \in HashesOf(j) THEN versions[j] ELSE Append(versions[j], h)

\* The columns written are those that differ from the row that was read.
Flushed(read, wanted, current) ==
    [status  |-> IF read.status = wanted.status THEN current.status ELSE wanted.status,
     version |-> IF read.version = wanted.version THEN current.version ELSE wanted.version]

\* Mutant: without its branch a changed job falls through to unchanged.
Counted_NoChanged(count, kind) ==
    [k \in Kinds |->
        count[k] + Cardinality({j \in DOMAIN kind :
            (IF kind[j] = "changed" THEN "unchanged" ELSE kind[j]) = k})]

\* _increment_sync_count for every job of a batch.
Counted(count, kind) ==
    [k \in Kinds |-> count[k] + Cardinality({j \in DOMAIN kind : kind[j] = k})]

-----------------------------------------------------------------------------
Init ==
    /\ runs = [r \in Run |-> NoRun]
    /\ rows = [j \in Job |-> NoRow]
    /\ versions = [j \in Job |-> <<>>]
    /\ observations = [j \in Job |-> <<>>]
    /\ attempt = [r \in Run |-> AttemptAt("idle", <<>>, FALSE)]

Alive(r) == attempt[r].pc \notin {"idle", "done", "lost"}

At(r, pc) == attempt[r].pc = pc

Goto(r, pc) == attempt' = [attempt EXCEPT ![r].pc = pc]

\* The attempt ends, and its process forgets it.
Leave(r, pc) == attempt' = [attempt EXCEPT ![r] = AttemptAt(pc, <<>>, FALSE)]

\* begin_job_sync_run: the pending run is durable before network access.
Begin(r) ==
    /\ At(r, "idle")
    /\ Cardinality({q \in Run : Alive(q)}) < MaxWriters
    /\ runs' = [runs EXCEPT ![r] = [NoRun EXCEPT !.status = "pending"]]
    /\ Goto(r, "fetching")
    /\ UNCHANGED <<rows, versions, observations>>

\* Mutant: the status of the run is not checked.
Failed_AnyStatus(r, kind, authoritative) ==
    /\ runs' = [runs EXCEPT ![r].status = "failed", ![r].error = kind]
    /\ UNCHANGED <<rows, versions, observations>>

\* fail_job_sync_run on a run that is still pending.
Failed(r, kind, authoritative) ==
    /\ runs[r].status = "pending"
    /\ runs' = [runs EXCEPT ![r].status = "failed",
                            ![r].authoritative = authoritative,
                            ![r].error = kind]
    /\ UNCHANGED <<rows, versions, observations>>

\* The provider raised, was cancelled, or returned a partial snapshot: nothing
\* was committed, and nothing is closed.
FetchFails(r) ==
    /\ At(r, "fetching")
    /\ \E kind \in {"provider", "cancelled", "non_authoritative_snapshot"} :
          Failed(r, kind, FALSE)
    /\ Leave(r, "done")

\* complete_job_sync_run is entered with an authoritative result.
Fetched(r, s, close) ==
    /\ At(r, "fetching")
    /\ attempt' = [attempt EXCEPT ![r] = AttemptAt("committing", s, close)]
    /\ UNCHANGED durable

\* What a session has read of some rows, before its transaction has begun.
Reading(J) == {[id |-> j, row |-> rows[j]] : j \in J}

ReadIn(r) == {m.id : m \in attempt[r].read}

\* A job's row as the session of an attempt knows it.
Known(r, j) ==
    IF j \in ReadIn(r)
    THEN (CHOOSE m \in attempt[r].read : m.id = j).row
    ELSE rows[j]

\* A batch session reads its run and its first job, with no transaction open.
ReadBatch(r) ==
    /\ At(r, "committing")
    /\ runs[r].status = "pending"
    /\ LeadOf(attempt[r].jobs, attempt[r].offset) # {}
    /\ attempt' = [attempt EXCEPT
          ![r].pc = "batch",
          ![r].read = Reading(LeadOf(attempt[r].jobs, attempt[r].offset))]
    /\ UNCHANGED durable

Batch(r) == BatchOf(attempt[r].jobs, attempt[r].offset)

\* What the next batch of an attempt observes of each of its jobs.
KindIn(r) == [j \in DOMAIN Batch(r) |-> ObservationKind(Known(r, j), j, Batch(r)[j])]

VersionIn(r) == [j \in DOMAIN Batch(r) |-> VersionOf(j, Batch(r)[j])]

\* The batch commits: rows, versions, observations and the counters of the run
\* in one transaction.  Inserting a row another process inserted is an error.
CommitBatch(r) ==
    LET ids == DOMAIN Batch(r) IN
    /\ At(r, "batch")
    /\ \A j \in ids : Known(r, j).status = "absent" => rows[j].status = "absent"
    /\ rows' = [j \in Job |->
          IF j \in ids
          THEN Flushed(Known(r, j), [status |-> "open", version |-> VersionIn(r)[j]], rows[j])
          ELSE rows[j]]
    /\ versions' = [j \in Job |->
          IF j \in ids THEN VersionsWith(j, Batch(r)[j]) ELSE versions[j]]
    /\ observations' = [j \in Job |->
          IF j \in ids
          THEN Append(observations[j],
                      [run |-> r, kind |-> KindIn(r)[j], version |-> VersionIn(r)[j]])
          ELSE observations[j]]
    /\ runs' = [runs EXCEPT ![r].count = Counted(@, KindIn(r)),
                            ![r].jobCount = @ + Cardinality(ids),
                            ![r].batches = @ + 1]
    /\ attempt' = [attempt EXCEPT ![r].pc = "committing", ![r].read = {},
                                  ![r].offset = @ + BatchSize]

\* The last session reads the open jobs the snapshot did not list.
ReadMissing(r) ==
    LET open == {j \in Job : rows[j].status = "open"} IN
    /\ At(r, "committing")
    /\ runs[r].status = "pending"
    /\ attempt[r].offset >= Cardinality(Firsts(attempt[r].jobs))
    /\ attempt' = [attempt EXCEPT
          ![r].pc = "closing",
          ![r].read = IF attempt[r].close THEN Reading(open \ SeenBy(attempt[r].jobs))
                      ELSE {}]
    /\ UNCHANGED durable

\* _close_missing_jobs writes the rows the session has read.
Close(r) ==
    /\ rows' = [j \in Job |-> IF j \in ReadIn(r) THEN [rows[j] EXCEPT !.status = "closed"]
                              ELSE rows[j]]
    /\ observations' = [j \in Job |->
          IF j \in ReadIn(r)
          THEN Append(observations[j],
                      [run |-> r, kind |-> "closed", version |-> Known(r, j).version])
          ELSE observations[j]]
    /\ UNCHANGED versions

\* Mutant: the closures are committed before the run is.
Succeed_TwoCommits(r) ==
    /\ At(r, "closing")
    /\ IF attempt[r].read # {}
       THEN /\ Close(r)
            /\ runs' = [runs EXCEPT ![r].count["closed"] = @ + Cardinality(ReadIn(r))]
            /\ attempt' = [attempt EXCEPT ![r].read = {}]
       ELSE /\ runs' = [runs EXCEPT ![r].status = "succeeded", ![r].authoritative = TRUE]
            /\ Leave(r, "done")
            /\ UNCHANGED <<rows, versions, observations>>

\* One transaction closes them and makes the run succeed.  The session may still
\* raise after that commit, when it reads the row back.
Succeed(r) ==
    /\ At(r, "closing")
    /\ Close(r)
    /\ runs' = [runs EXCEPT ![r].count["closed"] = @ + Cardinality(ReadIn(r)),
                            ![r].status = "succeeded",
                            ![r].authoritative = TRUE]
    /\ Leave(r, "done") \/ Goto(r, "failing")

\* A session raises and its transaction is rolled back.
PersistenceFails(r) ==
    /\ attempt[r].pc \in {"committing", "batch", "closing"}
    /\ Goto(r, "failing")
    /\ UNCHANGED durable

\* Mutant: the handler raises again without recording.
RecordFailure_Swallowed(r) ==
    /\ At(r, "failing")
    /\ Leave(r, "done")
    /\ UNCHANGED durable

\* The handler records the failure, unless a commit has made the run terminal,
\* and the exception is raised again.
RecordFailure(r) ==
    /\ At(r, "failing")
    /\ \/ Failed(r, "persistence", TRUE)
       \/ runs[r].status # "pending" /\ UNCHANGED durable
    /\ Leave(r, "done")

\* Recording the failure needs the same database: it may raise as well, and the
\* process may die anywhere.  Either way the run stays as it was committed.
Lost(r) ==
    /\ Alive(r)
    /\ Leave(r, "lost")
    /\ UNCHANGED durable

Work(r) ==
    \/ FetchFails(r)
    \/ \E s \in Snapshots, close \in BOOLEAN : Fetched(r, s, close)
    \/ ReadBatch(r)
    \/ CommitBatch(r)
    \/ ReadMissing(r)
    \/ Succeed(r)
    \/ PersistenceFails(r)
    \/ RecordFailure(r)

Next == \E r \in Run : Begin(r) \/ Work(r) \/ Lost(r)

Spec == Init /\ [][Next]_vars

\* A process that is alive keeps running the body of complete_job_sync_run; the
\* provider call that precedes it is bounded by the route timeout.
FairSpec == Spec /\ \A r \in Run : WF_vars(Work(r))

-----------------------------------------------------------------------------
(* Types.                                                                  *)

Row == [status : {"absent", "open", "closed"}, version : Nat]

Observation == [run : Run, kind : Kinds, version : Nat]

RunRow == [status : {"absent", "pending", "succeeded", "failed"},
           authoritative : BOOLEAN,
           error : {"none", "provider", "cancelled", "non_authoritative_snapshot",
                    "persistence"},
           count : [Kinds -> Nat], jobCount : Nat, batches : Nat]

Attempt == [pc : {"idle", "fetching", "committing", "batch", "closing", "failing", "done",
                  "lost"},
            jobs : Seq(Listing), offset : Nat, close : BOOLEAN,
            read : SUBSET [id : Job, row : Row]]

\* Every table holds rows of its schema, every attempt is at a known point.
TypeOK ==
    /\ runs \in [Run -> RunRow]
    /\ rows \in [Job -> Row]
    /\ versions \in [Job -> Seq(Hash)]
    /\ observations \in [Job -> Seq(Observation)]
    /\ attempt \in [Run -> Attempt]

-----------------------------------------------------------------------------
(* Properties.                                                             *)

\* Where a run has observed a job under a kind.
Marks(r, j, k) ==
    {n \in DOMAIN observations[j] :
        observations[j][n].run = r /\ observations[j][n].kind = k}

Observed(r, j, k) == Marks(r, j, k) # {}

SeenIn(r) == {j \in Job : \E k \in SeenKinds : Observed(r, j, k)}

\* At every commit, and so after a crash too, the counters of a run are the
\* number of its observations of each kind, no job is observed twice under one
\* kind, and job_count is the number of jobs it committed.
CountersAgree ==
    \A r \in Run :
        /\ \A k \in Kinds :
              /\ runs[r].count[k] = Cardinality({j \in Job : Observed(r, j, k)})
              /\ \A j \in Job : Cardinality(Marks(r, j, k)) <= 1
        /\ runs[r].jobCount = Cardinality(SeenIn(r))

\* A job is closed only by a run that succeeded, and never by a run that has
\* itself seen the job: neither a failure, a crash between two batches nor a
\* partial snapshot may close anything.
ClosedOnlyBySuccess ==
    \A r \in Run, j \in Job :
        Observed(r, j, "closed") => runs[r].status = "succeeded" /\ j \notin SeenIn(r)

\* The process and its run agree: the run is pending from its insertion until its
\* last transaction, what it has observed is in the snapshot it works on, and
\* the rows it is about to close are not.
AttemptAgrees ==
    \A r \in Run :
        /\ At(r, "idle") => runs[r].status = "absent"
        /\ attempt[r].pc \in {"fetching", "committing", "batch", "closing"} =>
              runs[r].status = "pending"
        /\ attempt[r].pc \in {"idle", "fetching"} => SeenIn(r) = {}
        /\ attempt[r].pc \in {"committing", "batch", "closing"} =>
              SeenIn(r) \subseteq SeenBy(attempt[r].jobs)
        /\ At(r, "closing") => ReadIn(r) \cap SeenBy(attempt[r].jobs) = {}

KeepsTerminalRuns ==
    \A r \in Run :
        runs[r].status \in {"succeeded", "failed"} =>
            /\ runs'[r] = runs[r]
            /\ \A j \in Job, k \in Kinds : Marks(r, j, k)' = Marks(r, j, k)

\* A terminal run is never written again and no observation is added to it.
TerminalRunsFrozen == [][KeepsTerminalRuns]_vars

\* A content is stored once per job; the row and every observation point at a
\* stored version; a job's history starts with its only "new".
HistoriesWellFormed ==
    \A j \in Job :
        /\ \A m, n \in DOMAIN versions[j] : versions[j][m] = versions[j][n] => m = n
        /\ rows[j].status # "absent" => rows[j].version \in DOMAIN versions[j]
        /\ \A n \in DOMAIN observations[j] :
              /\ observations[j][n].version \in DOMAIN versions[j]
              /\ (observations[j][n].kind = "new") <=> (n = 1)

\* The tables agree with each other at every commit, whoever else writes.
LedgerConsistent == CountersAgree /\ HistoriesWellFormed

\* With one writer the ledger is its own history: a row is what its last
\* observation says, and a job closed is next observed as reopened.
RowIsItsHistory ==
    \A j \in Job :
        LET h == observations[j] IN
        /\ rows[j] = IF h = <<>> THEN NoRow
                     ELSE [status |-> IF h[Len(h)].kind = "closed" THEN "closed" ELSE "open",
                           version |-> h[Len(h)].version]
        /\ \A n \in 2 .. Len(h) :
              /\ (h[n].kind = "reopened") <=> (h[n - 1].kind = "closed")
              /\ h[n].kind = "changed" => h[n].version # h[n - 1].version
              /\ h[n].kind \in {"unchanged", "closed"} => h[n].version = h[n - 1].version

\* With one writer, the commit that makes a run with close_missing succeed
\* leaves open exactly the jobs of its snapshot.
LeavesSnapshot ==
    \A r \in Run :
        (runs[r].status = "pending" /\ runs'[r].status = "succeeded" /\ attempt[r].close) =>
            {j \in Job : rows'[j].status = "open"} =
            {attempt[r].jobs[i].id : i \in DOMAIN attempt[r].jobs}

\* A run that was begun ends succeeded or failed unless its process is lost.
RunsEnd ==
    \A r \in Run :
        runs[r].status = "pending" ~>
            (runs[r].status \in {"succeeded", "failed"} \/ At(r, "lost"))

-----------------------------------------------------------------------------
(* What a route's ledger promises its readers.                             *)

Catalogue == INSTANCE JobCatalogue WITH
    status <- [r \in Run |-> runs[r].status],
    open <- {j \in Job : rows[j].status = "open"},
    seen <- [r \in Run |-> SeenIn(r)]

\* The ledger implements the catalogue: whatever the batches, the failures and
\* the races do, jobs leave the open set only when a run succeeds.
ImplementsCatalogue == Catalogue!Spec
=============================================================================
