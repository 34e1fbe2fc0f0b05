# OpenOpps: TLA+ models, checks and proofs

OpenOpps collects public job boards into a local SQLite ledger: *sources* list
boards, *boards* have routes to job *providers*, and syncing a route keeps the jobs
of that board with their versions and a history of what every run saw.  This
directory models the parts of the program whose correctness depends on the order of
steps: transactions that commit one after another, tasks of an event loop that are
cancelled, processes that die, and files that are replaced one at a time.

All paths below are relative to the package `src/src/openopps/` unless they start
with `src/`.  `PROJECT.json` names, for every definition that models code, the lines
it stands for.

## 1. The system

### 1.1 Components

| Component | State it keeps | Operations that change it | Model |
| --- | --- | --- | --- |
| Job ledger (`storage.py`) | `job_sync_runs`, `jobs`, `job_versions`, `job_sync_observations` | `begin_job_sync_run`, `complete_job_sync_run`, `fail_job_sync_run` | `JobLedger`, `JobLedgerHistory`, `JobCatalogue` |
| Jobs sync (`ingest.py`) | tasks, two levels of semaphores, `_RoutePin` (launched, outcomes), route activity, the accounting file | `_sync_jobs_bound`, `_remove_unavailable_routes`, `_RoutePin` | `RouteSync` |
| Sources sync (`ingest.py`, `storage.py`) | boards, routes, source freshness, `_SourcePin` | `_sync_sources_bound`, `upsert_boards`, `upsert_board_providers`, `reconcile_source_board_provider_routes`, the writes of `probe_routes` | `SourceSync` (one job provider) |
| HTTP cache (`cache.py`) | `http_cache`, the scrub generations, bytes of deleted rows in the files, the lock file | opening, `purge`, `put_json`, compaction | `CacheScrub` |
| HTTP operation (`http.py`) | `HttpOperationBudget`, `ResponseByteBudget`, registered tasks, the deadline timer | the request guards, `_request_impl` and its retries, the bounded reader, `HttpOperationBudget.close` | `HttpOperation` |
| URL pulls (`pull_service.py`, `storage.py`) | `url_pull_runs` and the job tables of a reserved board | `pull`, `begin_/fail_url_pull_run`, `apply_url_pull_list/get` | `UrlPull` |
| Promotion (`discovery/promotion*.py`) | the promotion ledger, the apply journals, the owned files, the lock | reserve, apply, revoke, recover | `PromotionApply` |
| Cached reads (`http.py`) | the tasks in flight by key, each caller's old entry, `http_cache` | `_retrying_response_request` and its task, lookups, renewals, stale fallback | `CachedRead` |
| Discovery HTTP runtime (`discovery/http_client.py`, `transport.py`) | the ledger of requests, the byte budget, pace, circuits, semaphores | `DiscoveryHttpRuntime.fetch` and its attempts | `DiscoveryHttp` |
| Kaggle publication (`src/scripts/openopps_kaggle/publication.py`) | the publication ledger; the versions of a remote dataset | `prepare_publication`, `verify_remote_readback` | `KagglePublish` |
| Choice of routes, boards sync, enrichment | routes and boards | `_select_job_route_entries`, `sync_boards` | planned |
| Discovery scout, worker, bundles | a subprocess, a staged directory | `isolation.py`, `bundle.py` | planned |
| Schema migrations | the schema, a process and file lock | `migrations.py` | its lock, in `CacheScrub` |
| URL resolution, providers, adapters, export, health, metrics, CLI, plugins, web site, other release scripts | none of their own that several steps share | parsing, rendering, read-only queries, one step after another | not modelled (section 8) |

### 1.2 How they interact

```
 sources sync ──► boards, routes ──► choice of routes ──► jobs sync ──► job ledger ──► export
      │                                                      │  ▲
      ▼                                                      ▼  │ snapshot
   adapters ───────────────────────────────────────────── providers
      │                                                      │
      └──────────► HTTP (budget, retries, single flight) ◄───┘
                          │                 ▲
                          ▼                 │
                      HTTP cache        URL pulls ──► url_pull_runs, job tables

 discovery scout ──► quarantine bundle ──► promotion ──► packaged catalogue ──► sources sync
```

* Every command is a process of its own.  Inside a command there is one event loop;
  database calls are synchronous, so a task runs from one `await` to the next
  without being interrupted.  Between processes only SQLite's transactions, the
  database lock of `migrations.py` and the promotion lock give any order.
* A jobs sync calls the ledger three times per route: a *pending* run is durable
  before the provider is called, the snapshot is committed in batches, and one last
  transaction closes the jobs that were not seen and makes the run succeed.
* A jobs sync and a sources sync share the route table: one disables routes of
  boards that are gone, the other merges and deletes routes.  `SourceSync` has the
  first as an action of its environment.  A route probe reads routes, asks the providers, and
  writes back whole what it read; `SourceSync` has it as a second writer.
* Reads of one cache key share a task when one requester makes them, and a row in any case
  (`CachedRead`).  A requester is what `_retrying_response_request` returns, with its own table of
  tasks (`http.py:954`); every provider makes one (`providers/greenhouse.py:61`), and a jobs sync
  makes a provider for every route (`ingest.py:1193`, `providers/boards/__init__.py:158`), so that a
  process has many.  A read under a pull's budget never shares (`HttpOperation`).
* A saved URL pull writes the same tables as a jobs sync, under a reserved board; it
  refuses a board of that name that is not its own
  (`_assert_url_pull_namespace_writable`), so that it never rewrites the rows of
  another board.
* Every fetch of a discovery run draws on the one runtime that it was given: its deadline, its
  ledger of requests and its bytes (`DiscoveryHttp`).
* A publication is a command of its own over a staged directory; it shares with other commands
  the ledger file, without a lock, and the dataset, without a transaction.
* Promotion edits files of the repository.  The history that those files are
  committed to is the maintainer's, outside the program.

### 1.3 What is hard here

* **Interleaving.** The SQLite driver begins a transaction at the first *write*: what
  a session reads before it (the first job of a batch, the open jobs of a
  reconciliation, the run itself) can be stale when it commits.  `asyncio.gather`
  returns at the first failure while the sibling tasks go on.
* **Crashes and partial failure.** A run is several transactions; a cache purge is a
  transaction, a checkpoint, a `VACUUM`, another checkpoint and a second
  transaction; a promotion replaces several files and a journal, and its recovery
  may die as well.
* **Cancellation and time.** A deadline, a limit that another read exceeded, or the
  operator's interruption end work that is waiting for the network, for a semaphore,
  or for a response to be closed.  A call to the outside may time out after it took effect.
* **Long sequences.** Jobs close and reopen, contents change and change back, boards of
  several sources merge when one of them gets its domain, lists of two scopes
  alternate, ledgers grow over journals that nobody has resolved, slots are taken and given
  back by attempts that end in a dozen ways.

`PROJECT.json` lists each of these as a *hazard* at the line where it bites, with the
properties that would catch it going wrong; where no property covers one yet, its
note says why.

### 1.4 What makes each component correct

* *Job ledger*: a row, its versions and its observations tell one story; a job is
  closed only by an authoritative run that succeeded and did not see it; a terminal
  run is never written again; every run whose process lives ends.
* *Jobs sync*: every planned route gets exactly one class, the class is what durably
  happened (as far as section 7 says), no run stays pending, and the command ends.
* *Sources sync*: fresh means complete; a route is deleted only by a listing that came
  to its end; one row per domain; every route is on a row that names its source.
* *HTTP cache*: deleted content is gone before anything says so, and in the end it goes.
* *HTTP operation*: no budget is exceeded; closed means silent; the error says why;
  the deadline holds although the network never answers.
* *Cached reads*: what the cache calls fresh, the site had when somebody looked; one request
  at a time for the callers of a requester who share; who waits gets an answer whoever else leaves.
* *Discovery HTTP*: each attempt is accounted once, no slot is lost or given back twice, an
  open circuit lets nobody in, every fetch ends.
* *Kaggle publication*: what the ledger calls verified is published; nothing is published twice
  or without a record; a command ends.
* *URL pulls*: a pull is applied whole or not at all, the tables explain every row, a
  list closes exactly what its scope lets it.
* *Promotion*: whole or not at all; committed events stay; what was interrupted ends
  applied or revoked.

## 2. The modules

Every specification declares its parameters as `CONSTANTS` with a named assumption; an
`MC` module extends it with the values its configurations give them.  No configuration
replaces a definition.  Definitions whose names have a suffix (`Counted_NoChanged`) and
a comment that starts with *Mutant* are plausible mistakes in the definition they are
named after; they are never used by a specification, and each shows that one of the
properties notices.  A module `XProofs` extends `X` and has its theorems (section 4); `HttpProofs`
extends `HttpOperation`, `CachedRead` and `CacheScrub` at once, so that the definitions of the first
are named `Operation…` and those of the last `Scrub…` where they would meet.

### JobLedger, JobLedgerHistory, JobCatalogue

`JobLedger` has the tables of one `(board, provider)` route and an `attempt` per run, the
volatile side.  The steps are those between which another process may commit:

| Action | Code |
| --- | --- |
| `Begin` | `begin_job_sync_run`: the pending row |
| `FetchFails` | the provider raises, is cancelled or returns a partial snapshot: `fail_job_sync_run` |
| `Fetched` | an authoritative result enters `complete_job_sync_run` |
| `ReadBatch`, `CommitBatch` | one `db_batch_size` batch: what the session reads with no transaction open, then one commit of rows, versions, observations and counters |
| `ReadMissing`, `Succeed` | `_close_missing_jobs` and the success of the run, in one transaction |
| `PersistenceFails`, `RecordFailure` | a session raises; the handler records the failure unless the run is terminal |
| `Lost` | the process dies, or recording the failure fails too |

A snapshot is a sequence of listings, a listing a job with a content hash, and a job may
be listed twice.  `Flushed` is the ORM's rule that only columns that differ from what the
session has read are written: with two processes it decides what a stale read does to
the row.  `JobLedgerHistory` adds a history variable, `overlapped`, that tells whether two attempts were
ever alive at once, and states the two properties that hold only as long as they were not.  Payloads, organisations, people and skills are left out; they are written in
the same transactions.

`JobCatalogue` is what readers of the ledger (the export, the command line) rely on:
runs end once, and jobs leave the open set only at the moment a run succeeds, never one
that run has seen.  `JobLedger` implements it under the mapping at its end.

### RouteSync

The plan of one `jobs sync` is given by constants (the routes it selects, those it skips, the
duplicates, the provider and ledger key of each) and by the `situation` it starts in, which is one
of `Situations`: the routes that are unusable, the outcome of each skipped one (fresh, deferred, no
metadata), the representative of each duplicate, and what may go wrong.  A task goes through `queued`, `holding` (its provider's
semaphore), `fetching`, and ends `finished`, `raised` or `cancelled`; an action is what it
does between two awaits, with all the database calls in it, in the order of the code and
each able to fail (`Faults`).  `Absent` is the removal of a board that is gone: it closes
the jobs of the route, then of its duplicates, and deactivates them one by one, by their places in
that list (`RouteAt`).  `Unwound`
is a cancelled fetch that needed more turns of the loop.  `Interrupt`, `Close`, `Shutdown` are the
operator, the `finally` block that closes the accounting, and `asyncio.run` cancelling what
is left.  A run is `none`, `pending`, `succeeded` or `failed`: the ledger's own steps are
`JobLedger`'s.

### SourceSync

Successive commands over several sources.  A task lists its source page by page (`listing`
is what the site lists in this sync); every batch of a page merges boards by key or by
domain (`Aliases` maps the keys of this source on the page to the rows they became) and then
writes their routes, and a failure or crash may leave any prefix.  At
the end of the listing the unlisted routes are deleted and then the source is made
fresh, in two commits.  A jobs sync may disable routes meanwhile, and a route probe
(`BeginProbe`, `ApplyProbe`) writes back what it read before it asked the providers: a route that a
sync has deleted meanwhile comes back.  `returned` remembers these.  Denied sources and sources
without an adapter are accounted for without being read.

### CacheScrub

Entries of the present and of older schemas, the bytes of deleted ones (`residue`), the two
generations, the lock, and where each process stands (`stage`): before its transaction, committed,
checkpointed, vacuumed, compacted.  `Init` allows everything an earlier version may have
left.  `Fail` is a process that dies or a step that finds the database busy.  Reads and
insertions of entries take no lock.

### HttpOperation

The tasks of one operation share `used` requests, `bytes`, and a `reason` once it is closed.
A read registers (`refs`), looks into the cache, resolves, sends, follows redirects, backs
off and retries, reads chunks and completes.  A body that breaks off is tried again like an
answer that never came (`Retryable`), with what it delivered still charged, and after the last attempt
may give way to an old entry.  What is decoded of a chunk is cut one byte beyond what is left (`Decoded`),
which is how the reader notices that it does not fit.  A limit error closes the response first
(`Close`) and then latches.  `Deliver` is a cancellation that reaches its task at the next
await, `Expire` the timer, `Deadline` the passing of time, `CancelTask` a caller that cancels one
read.  The network is free to give any answer or none.

### UrlPull

Pulls of one board by several processes.  Fetching (`FetchList` in both scopes, `FetchGet`) looks
at the site as it is at that moment; the audit is committed, then the result is applied in one
transaction that either commits or does not (`Apply`, `ApplyFails`), whatever the caller is then
told.  `Change` is the site.  The module keeps, for its properties, what each pull had fetched
and the order of the commits (`clock`).

### CachedRead

Reads of one key by callers of several processes.  `Ask` is a lookup, or a refresh that does
without; `Look` reads the old entry and joins the task its requester has in flight or starts one, with no
await in between (`Occupied`: an event loop is occupied, not a requester).  `Via` gives the requester
of a caller and `Home` its process; two requesters of one process share the event loop and nothing else.  A task asks the site (`Respond`: the content the request named, another one, a
failure to try again, an error) and stores what it got or renews the row that is there by its key
(`Store`).  `Wake` is the caller: the answer, its fallback, or the exception.  `Cancel` leaves a shared
task running, `Clear` is the task's callback, `Stop` the end of the event loop.  The site's
contents are numbered in the order it serves them; it is assumed not to come back to an
earlier one under the same validator.  `since` and `reach` are history: the content the site
had when the task began, and when the oldest of the tasks running then had begun.

### DiscoveryHttp

The calls of `fetch` over one runtime.  Each goes through the pace and the circuit of its origin
(`wait`), the semaphore of the origin, the one of the runtime, and the reservation in the ledger, is
`sent`, reads a `body`, and then succeeds, is redirected (`Follow`, possibly to another origin),
fails for a while (`Record`, `Retry`) or ends.  The semaphores, the ledger and the circuits are separate
state, as in the code, and every exit releases them by itself.  `Cancel` may come wherever a
fetch awaits; `Expire` is the deadline, `TurnComes` and `CoolsDown` the passing of time for an
origin.  `early` remembers who was past the check when a circuit opened.

### KagglePublish

A command goes through staged, preflight, mutation, wait and readback, and before each it loads
the ledger file and replaces it, in two steps without a lock (`LoadLedger`, `SaveLedger`).  The
dataset is a sequence of immutable versions.  `Mutate` is the one call that may change it: it may
take effect and yet fail, and it may say that it succeeded without effect.  `Processed` is the
service, which may never finish.  `Stops` is a process that dies anywhere; what it leaves is the
ledger and the dataset.

### PromotionApply

Two processes run reserve, apply, revoke and recover over one tree: the ledger, the owned
files in their order, the journal of every decision, and `.promoting` files that a dead process leaves.
One action is one write: the temporary file, its replacement, a phase of the journal, its
removal.  A command looks at the repository before it has the lock and compares afterwards
(`Seen`, `Unchanged`).  `Commit` is the maintainer, who commits a longer ledger when nobody works on the
tree, and an `applied` event only with the whole of its promotion.  `ResolveFirst` says whether the
maintainer runs recovery before anything else while a journal is pending; the code does not
ask for it (section 7).

## 3. What the runs show

| Run | Instance | Shows |
| --- | --- | --- |
| `ledger` | 3 attempts, of which 2 may overlap, 3 jobs, 2 contents, batches of 2 | whoever writes: counters equal the observations of the run, versions are distinct and every reference is to one that exists (`LedgerConsistent`), only a successful run closes (`ClosedOnlyBySuccess`), terminal runs are frozen, runs end, and the ledger implements `JobCatalogue`; as long as attempts do not overlap, the row of a job is what its observations and versions say at every commit (`RowsFollowHistory`), and a success leaves open exactly its snapshot (`SuccessLeavesOwnSnapshot`) |
| `routes` | 10 routes, 2 providers (one admits 1 route), 5 situations: every kind of plan, with and without unusable boards, complete ones in calm, with slow unwinding, and with every write able to fail; interruptions in all | a closed accounting gives every route a class; *succeeded* is durable, *failed* has no run that says otherwise, *complete* is complete, and when no write fails *cancelled* and *unstarted* are right as well (`Accounted`); every attempt is finished unless something failed or unwound slowly; routes are deactivated only after their jobs are closed; the command ends |
| `cache_scrub` | 2 processes, 2 entries and an old one, 2 namespaces | equal generations mean nothing deleted is left; an opening or purge returns only when clean; an owed scrub is done in the end |
| `http_operation` | 3 reads, 3 requests, 2 bytes, 2 attempts, 1 redirect, a deadline | no budget is exceeded and no body is delivered cut, also when one broke off and is fetched again, closed means silent, errors say why, and every read of a closed operation ends |
| `cached_read` | a reader, a refresh by another process, and a second reader, of the same requester or of another one of the same process; 2 contents, 2 attempts | answers and entries are explained by what the site had (`AnswersExplained`), one request of a requester at a time and nobody's answer lost (`SingleFlight`), every read ends |
| `discovery_http` | 2 fetches, 2 origins; one slot for both, or two slots of one origin; 2 attempts, 1 redirect, 3 requests | every attempt is accounted once (`LedgerExact`), slots free and held add up to the limits and suffice (`SlotsSuffice`), `OpenAdmitsNobody`, and every fetch ends |
| `kaggle_publish` | 2 commands, one after the other or at once, 2 bundles, 2 versions to start from, a ledger of 2 entries | what is verified is published (`VerifiedIsPublished`); commands that do not overlap publish nothing twice and nothing unrecorded (`PublishedAsPlanned`); commands end |
| `sources_sync` | 4 sources, 3 boards, 2 domains, 2 syncs, 1 route probe | one row per domain and every route on a row that names its source (`TablesConsistent`), fresh means complete (`FreshIsComplete`), routes are deleted only at the end of a listing with hints, whose boards all keep another route (`DeletedWhenUnlisted`) |
| `url_pull` | 3 pulls, 2 postings, 2 contents, one change of the site | pulls come whole (`PullsWhole`), rows are explained by observations and audits (`HistoryExplains`), a list closes within its scope (`ClosedWithinScope`), leaves open there what it lists, and touches nothing else (`ListLeavesScope`) |
| `promotion` | 2 decisions, 2 processes, 3 files, 6 commands, 2 deaths, recovery first | whole or not at all, committed events stay, resolved is final |
| `routes_slow_cancel`, `promotion_unresolved` | as named in their configurations | two statements of the repository's documents that the code does not keep (section 7) |

### Bounds, and why they are enough

* `MaxWriters` 2 is the race, which nothing in the code prevents; a third writer has no step
  that two do not have, since a stale read conflicts with one commit at a time.  A third attempt begins
  only after two that did not overlap: what overlaps is the subject of the first two, what
  one attempt leaves to the next of all three.
* Three runs one after another let a job be opened, closed and reopened, and a content change and
  change back; two contents let a version be reused.  Batches of 2 over up to three listings
  make a full and a partial batch, and put a crash between any two commits.
  The snapshots include the empty one and one that lists a job twice.
* The plans of routes have two providers with one contended semaphore each, a duplicate that shares the
  ledger key of its representative, one with a skipped and one with no representative.
* `MaxGeneration` 4 starts from generations 0 to 2 and leaves two further deletions, one
  while another is being scrubbed; after that nothing is purged.  `MaxFailures` 2 lets the
  process that takes over fail as well.
* In `HttpOperation` three tasks let one wait, one exceed a limit and one be cancelled;
  three requests cover a retry with a redirect or one request each; a chunk may leave one
  byte, fill the budget, or exceed it by one.
* In `CachedRead` two callers of one requester make one who starts a task and one who joins it, one of
  whom takes a fallback; two of one process with a requester each ask the site side by side; the refresh in
  another process overtakes them, and is overtaken.  `MCInit` lets three of the four callers come, and one
  of the two second readers: all four together show no more, since a fourth task or reader relates to the
  others as the third does.  Two contents are an old
  and a new one, 2 attempts a retry and the last one.  The cache may begin empty or with an
  expired entry that is or is not marked for fallback.
* In `DiscoveryHttp` the narrow limits make two fetches compete for the only slot and open the
  circuit at the first failure; the wide ones let them share an origin and open it at the second,
  with another origin that the limit of origins excludes.  3 requests allow a retry or redirect of
  one fetch and one request of the other, so that the last request is contended.
* In `KagglePublish` two commands are the first and its retry, its successor, or its
  competitor.  The ledger holds 2 entries, so that a second command after a dataset that was
  published before drops the oldest.
* Two syncs show what a sync leaves to the next; the listings contain a board that gets
  its domain late, merges of two sources, a page of its own that the next listing lacks, and
  a listing without hints.  One probe reads before, and writes after, any of their steps.
* Three pulls are a first look, a look after a change and one that overtakes it.
* Six commands take two decisions through reserve, apply, revoke and a recovery each;
  two deaths are an interrupted apply and its interrupted recovery.

Each symmetry set (`url_pull`, `promotion`) permutes constants that no definition distinguishes, and is used only
with invariants and properties of single steps.  `CHECK_DEADLOCK FALSE` is set because every instance may stop: its
commands come to an end.

### Fairness

| Specification | Fairness | Why the code justifies it |
| --- | --- | --- |
| `MCJobLedger` | `WF(Work(r))` | a process that lives goes on through `complete_job_sync_run`; the provider call before it is bounded by the route's time limit.  Dying is not fair, and neither is beginning. |
| `RouteSync` | `WF(Close)`, `WF(Shutdown)`, `WF(Step(r))` | the event loop resumes every task that is ready; fetches are bounded by the route's time limit |
| `CacheScrub` | `WF(Work(p))`, `SF(Exit(p))` | what holds the lock goes on unless it fails; commands end, and the cache goes on being used |
| `HttpOperation` | `WF(Expire)`, `WF(Deliver(t))` | only the timer and the delivery of cancellations; nothing is assumed of the network |
| `CachedRead` | `WF(Proceed(c))`: `Look`, `Respond`, `Store` or `Wake` of a caller and its task, of which one at a time is enabled | every attempt has a timeout, so that it ends with an answer or without, and the event loop resumes what is ready; that a site changes, that entries expire, and that callers leave is not fair |
| `DiscoveryHttp` | `WF(Before(t))`, `WF(After(t))`, `WF(TurnComes(o))` | connections, reads and closes have timeouts, the pace is a bounded sleep, semaphores serve those who wait; neither the deadline nor a cancellation has to come, and no circuit has to cool down |
| `KagglePublish` | `WF(Step(p))` | every call of the client has a timeout, and the wait has a deadline; the service need not finish |

`SourceSync`, `UrlPull` and `PromotionApply` are checked for safety only: their commands do
nothing by themselves that could go on for ever, and what they wait for is outside.

## 4. What is proved

TLAPS proves every safety invariant and every action property of section 3 for every value of
the constants that satisfies the named assumption of the module (those of `PromotionApply` under
one hypothesis more), and the refinement of `JobCatalogue`.  Each theorem has the same shape: an inductive invariant `IInv`, the lemma
that the initial states have it, one lemma per action (or per group of actions that touch the
same state) that keeps it, and the property, which `IInv` implies.  What follows says for each
module what has to be added to the properties to make them inductive, since that is where the
reasons are why the code is right.

The assumptions are about parameters: sets that are finite where something is counted, numbers
that are positive where the code validates them (as at `discovery/http_client.py:526`),
markers such as `NoDomain` that are none of the values they stand apart from, and plans that
are well formed. TLC evaluates each of them for the instances of section 3.

### JobLedgerProofs

* `TypeCorrect`, `ClosuresAuthoritative` and `TerminalFinal`: the step `Succeed` writes the
  closures from what the session read *before* its transaction, and says nothing about what
  the run has committed by then.  `AttemptAgrees` (`AttemptsAgree`) relates the volatile side
  to the durable one: the run of an attempt that is fetching, committing or closing is
  pending; one that has committed no batch yet has no observation; what an attempt has
  observed are jobs of its snapshot, and what it has read as *missing* are none of them.
* `LedgersConsistent`: the histories need `ReadStands`, that what a session still believes of
  a row may be stale, but the row has not gone and the version it names is still stored.  This
  is why no commit of another process can make a reference dangle.  The counters need that a
  batch observes only jobs its run had not observed, whence the cardinalities add up.
* `CatalogueImplemented`: `Init` maps to `Init`; `CommitBatch`, `Succeed` and the recording of
  a failure map to `Commit`, `Succeed` and `Fail`, and every other step to a stutter.
* `RowsAreTheirHistory`, `SnapshotsAreLeft`, of `JobLedgerHistory`: as long as attempts do not
  overlap, `Alone` says that each row is what its last observation says (`Told`), that what
  the one session has read is what the rows are (`Current`), and that what its run has
  committed is open and what it is about to close is the rest (`Covered`).

### RouteSyncProofs

* `AccountedAlways`: `Core` says that a task, its run and its outcome agree (`TasksAgree`),
  that while the main task gathers only a task records the outcome of its route (`Gathering`),
  and which routes have no task at all (`WithoutTask`).  `Closed` says what a closed
  accounting claims; `FailuresAgree` that a failure that was counted stays right, because the run of
  a task that is over never changes again.  The parts about interrupted work are from `Calm`, for
  plans whose writes do not fail.
* `AttemptsFinished`: `Calm` says that without failing writes nothing but a fetch that unwinds
  is left when the main task resumes, `PendingIsFetched` that every pending run then has its
  fetch.  The hypothesis `~Slow` is the one that `routes_slow_cancel` shows to be needed.
* `ClosedBeforeDeactivated`: by the places of the list of removals, and the run with the key
  of the route.

### HttpProofs

Three parts that share nothing but the module.

* *HttpOperation* (`LimitsHold`, `OutcomesSayWhy`, `ClosedCancels`, `ClosedSilent`): `Control`
  says how often a read is registered from where it stands, that every registered read of a
  closed operation but the one that closed it is cancelled (`ClosedIsCancelled`), and that
  outcomes name the first reason.  The counters, which are charged before a request and never given
  back, also not by a body that breaks off, are proved apart, by cardinalities.  That no
  read sends once the operation is closed is the same fact, about steps.
* *CachedRead* (`AnswersAreExplained`, `FlightsAreSingle`): `Flights` says that a task of
  callers who share is in the table of its requester and that who waits has somebody to wait
  for.  `Sights` says what the site had while a task ran: what it overtook began no earlier
  than its `reach` (`Overtaken`), the row that it may renew is the one it named or of a task
  that had not ended when it began (`Renewable`), and what it got the site had in between
  (`Found`).  `Renewable` is where the divergence about a `304` (section 7) is bounded.
* *CacheScrub* (`ScrubTypeCorrect`, `ScrubHolds`, `SuccessesClean`): the property says nothing
  of a process that is half way.  `StageInv` adds that whoever compacts is to complete exactly
  the pending generation, which is still larger than the completed one; that nothing deleted
  is left at the end of the compaction; and that entries of an older schema are gone, and a
  generation pending, once an opening has passed its transaction.  With the mutual exclusion
  in `ScrubTypeOK`, nobody advances the pending generation while another compacts.

### SourceSyncProofs

* `TablesAlways`: writing a page is a fold over its entries.  The module first shows that
  `FoldLeft` exists and goes from each prefix of a sequence to the next; `BoardsMerged`,
  `AliasesFound` and `RoutesMerged` then say what the folds of the code keep and add.  A part
  of a page is a page of a prefix, so that the same lemmas serve a write that fails in the
  middle.  `ProbedAttributed` adds that what a route probe has read stays on a row that names
  the source until the probe writes.
* `FreshAlways`: `Told` relates the outcome of a source to its freshness; `Followed` says what
  a sync knows of a source that it is listing: the rows it remembers (`ids`) have routes and
  are exactly those that stand for the hints of the pages it has written, and `hinted` tells
  whether there were any.  It must hold while *other* sources merge rows and while a jobs sync
  disables routes, and also after the end, for as long as the source is fresh.
* `DeletionsAreUnlisted`: an action property, by `Followed` before the step.

### UrlPullProofs

`PullsAreWhole`, `HistoriesExplain`, `ClosuresInScope` and the action property `ScopesLeft`.
The properties speak of the tables; that they agree rests on what no table says: that a result
never changes once it is applied (`Lifecycle`), that no two pulls are applied at one moment
(`Ordered`), that each observation is of an applied list that did or did not find the job, in
the order of the commits and with none missing (`Recorded`), that a row is what the last
finder found and closed when nobody has found it since its closure, and is there only if
somebody found it (`Explained`), and that a
list in the listed scope closes only what was found listed before it (`Within`).

### PromotionApplyProofs

`PromotedWhole`, `CommittedAlways` and `ResolvedAlways`, each under the hypothesis
`ResolveFirst`; without it `CommittedStays` fails (`promotion_unresolved`).  `Kept` says that nothing in a file, in a journal *or still to be written* misses an event of the
history.  `OneJournal` says that one decision at most is being applied, and what its journal
holds; `Underway` what the one at work will leave behind: that what is not yet as the journal
wants it is among the writes to come (`Leads`), which holds again for the recovery of an
interrupted recovery. `CalledClean` says that a command other than a recovery was called when
no journal was left, and `Settled` that without a journal the tree is whole.

### KagglePublishProofs

`VerifiedAlways` and `PlannedAlways`.  `Sound` extends the property of the ledger to what
every command has read of it: no plan twice, and verified only what is there.  `Planned` says,
while no commands have overlapped, that the one at work still finds the dataset as its plan
expects when it changes it, and has recorded its plan before.

### DiscoveryHttpProofs

`LedgersAreExact`, `SlotsAlwaysSuffice` and `OpenCircuitsHold`.  A slot of a semaphore is free
or held by a fetch that stands where it holds one (`SlotsKept`, a part of the property); the ledger counts those
between their request and their answer (`SentCounted`) and what the callers hold receipts for
(`ReceiptsCounted`); no limit is passed (`LimitsKept`); `StagesOK` says what is known of a
fetch from where it stands.  That the ledger, which counts the same limits by itself, never
refuses a fetch that holds its slots follows from the first two. The sums over the fetches are
the library's `SumFunction`; that it changes by one term when one fetch does is proved from
its definition, by the smallest set of fetches for which it would not.

### Model-checked only

* The liveness properties, since the prover reaches neither fairness nor `ENABLED`: `RunsEnd`,
  `SyncEnds`, `EventuallyScrubbed`, `OperationEnds`, `CommandEnds`, `FetchEnds`, `ReadsEnd`.
* The two statements that the code does not keep: `NoneLeftPending`, and `CommittedStays`
  without `ResolveFirst`.  TLC has a counterexample of each.

## 5. Reading a failed run

Each configuration has one line that says what it is.  To run one:
`tlc -config JobLedger.cfg MCJobLedger`; to check the proofs of a module:
`tlapm JobLedgerProofs.tla`.  The longest runs (`cached_read`, `discovery_http`) take two to three
minutes on two workers.

## 6. Plan

Modules, in order of importance:

1. `RouteRotation`: the choice of routes over many syncs (freshness, priority, limit), for the
   starvation hazard at `ingest.py:1463`.
2. `RouteLedger`: `SourceSync` composed with `JobLedger`, for jobs that stay open when their
   route is deleted (`storage.py:254`).
3. `BundlePublish`: quarantine bundles as a small crash model, and the worker subprocess.
4. `Migration`: schema upgrades under the database lock.

Theorems: all safety of the present modules is proved.  What is left is what those
modules promise each other:

1. An abstract specification of a sync (a plan whose routes each get one class) that `RouteSync`
   implements, and of a pull (an atomic snapshot of a board) that `UrlPull` implements, as
   `JobLedger` implements `JobCatalogue`.
2. The safety of `RouteRotation` and of `RouteLedger`, from the invariants of `SourceSync` and `JobLedger`.

## 7. Where documents and code differ

* **A cancelled fetch may leave its run pending** (`routes_slow_cancel`).  The cancelled task records
  its route and only then fails its run; when its fetch needs another turn of the loop, the
  main task has already recorded the route, recording raises, and the run is never failed.
  `routes` shows that it cannot happen when fetches unwind at once and no write fails.
* **New work is accepted over a pending journal** (`promotion_unresolved`).  The commands compare
  the journals with what the caller saw and do not ask that there are none; a later recovery puts an
  older ledger back.  `promotion` shows that the protocol is right when recovery always comes first.

Further observations have no run of their own:

* When a write fails, the `finally` block (`ingest.py:1434`) closes the accounting as not interrupted while
  routes have no outcome, and closing raises: there is no accounting.  And when the operator interrupts
  after a write failed, a route may count as unstarted or cancelled whose run a sibling still commits.
  What `AccountingExact` says of these two classes is therefore stated for plans whose writes succeed;
  the rest of `Accounted` holds with failing writes too.
* The first job of a batch is read before its transaction (`storage.py:1495`).  Of two processes that sync one
  route at once, one may so leave a row closed whose last observation has seen the job.
  `RowsFollowHistory` is stated as long as attempts do not overlap; `LedgerConsistent` holds regardless.
* `src/goals/openopps-v0-1/plan.md:87` plans to "dedupe in-flight duplicate provider requests during one
  sync run".  The table of tasks belongs to a requester, and each route of a sync has its own: two routes that
  ask for one URL at once send it twice.  `SingleFlight` states what the code gives.
* Two publish commands at once may drop each other's ledger entry (`publication.py:1288`); what
  `PublishedAsPlanned` says is stated for commands that do not overlap.
* A discovery fetch that has passed the check of its circuit and waits for a slot is sent although the
  circuit opened meanwhile (`discovery/http_client.py:950`): `OpenAdmitsNobody` allows it to those.
* A route probe writes back the routes it read, those that a sources sync has deleted meanwhile
  among them (`route_probe.py:294`); they stay until a later listing of their source deletes them again.
  `FreshIsComplete` exempts exactly these, and does not hold without the exemption.
* A `304` renews the row that is there under the key, whatever another process has put there since
  the request was sent.  An entry may so be called fresh for a body that the site had only
  while an earlier read was running.  `AnswersExplained` states the bound that remains, its time to live and
  two reads that overlap.
* A membership is never lowered, so that a posting pulled by its link after it became unlisted is
  closed by the next listed-only list (`storage.py:1856`); and a `.promoting` file that a dead
  process leaves blocks every later command for its path (`discovery/promotion_runtime.py:255`).

## 8. What is not modelled, and why

* Data transformations: providers, adapters, URL resolution, normalisation, identity, scoring, the
  packaged catalogue.  Their results are inputs of the models (a snapshot, a page, a failure).
* Read-only parts: export, coverage, metrics, job profiles, most of health.
* Descriptive fields: everything of a board, job or route that no decision of a modelled
  operation depends on.
* In `UrlPull`, the checks of the provider's evidence and the mapping of errors to exit codes; in
  `PromotionApply`, preview, staging, generation and the wheel; in `CacheScrub`, expiry, which is part of
  `HttpOperation` and `CachedRead`.
* In `CachedRead`, what makes an entry unreadable (its schema, its size); in `DiscoveryHttp`, the pinned
  connections, the structural checks of a body and the choice of verified evidence, which only
  decide between outcomes that the model has; in `KagglePublish`, the checks of a staged
  directory and the push of the manager kernel.
* SQLite, the file system, `asyncio` and the network, which are assumed to do what the code relies on: a
  transaction commits whole or not at all, a rename replaces a file whole, a lock dies with
  its process, a cancellation is delivered at the next await.
* The web site and the release scripts (but for the publication of the Kaggle datasets): other programs, which share no state with this one at run time.
