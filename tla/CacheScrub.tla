------------------------------ MODULE CacheScrub ------------------------------
(***************************************************************************)
(* The removal of deleted HTTP cache content (HttpCache in                 *)
(* src/src/openopps/cache.py).  A SQLite row that is deleted leaves bytes  *)
(* in the database and in its WAL; opening the cache and purging it must   *)
(* compact them away, also when a process dies half way or a checkpoint    *)
(* finds the database busy.                                                *)
(*                                                                         *)
(* Two durable generations say what is owed: a transaction that deletes    *)
(* rows advances the pending one, and the completed one follows it when    *)
(* the database has been compacted.  A file lock that dies with its        *)
(* process keeps openings and purges apart; reads and writes of entries    *)
(* do not take it.                                                         *)
(***************************************************************************)
EXTENDS Naturals, FiniteSets

CONSTANTS
    Process,        \* the processes that may use the cache
    Key,            \* the keys of the entries this version of the code writes
    Legacy,         \* the keys of entries written under an older schema
    Namespace,      \* the namespaces
    NamespaceOf,    \* the namespace of every entry
    NoProcess,      \* the lock is free
    MaxGeneration,  \* bound: generations after which nothing is purged
    MaxFailures     \* bound: crashes and busy checkpoints

Entry == Key \cup Legacy

ASSUME CacheAssumption ==
    /\ Key \cap Legacy = {}
    /\ NamespaceOf \in [Entry -> Namespace]
    /\ NoProcess \notin Process
    /\ MaxGeneration \in Nat /\ MaxFailures \in Nat

VARIABLES
    rows,           \* the entries of http_cache
    residue,        \* deleted entries whose bytes are still in the files
    pending,        \* the pending scrub generation, 0 when it cannot be read
    completed,      \* the completed one, likewise
    lock,           \* the holder of the lock file
    stage,          \* where each process stands
    generation,     \* the generation it is to complete
    failures        \* crashes and busy checkpoints so far

scrubVars == <<rows, residue, pending, completed, lock, stage, generation, failures>>

\* closed, open, or holding the lock: before the transaction of an opening or a
\* purge, and then with so much of the compaction done.
Stages == {"closed", "open", "opening", "purging", "committed", "checkpointed",
           "vacuumed", "compacted"}
Locked(p) == stage[p] \notin {"closed", "open"}

\* The type of every variable, and the lock belongs to the process inside.
ScrubTypeOK ==
    /\ rows \subseteq Entry
    /\ residue \subseteq Entry
    /\ pending \in Nat /\ completed \in Nat
    /\ lock \in Process \cup {NoProcess}
    /\ stage \in [Process -> Stages]
    /\ \A p \in Process : Locked(p) <=> lock = p
    /\ generation \in [Process -> Nat]
    /\ failures \in Nat

\* What an earlier use, or an older version, may have left: no generations at
\* all, a scrub that was finished or not, a pending generation nobody can read.
ScrubInit ==
    /\ rows \in SUBSET Entry
    /\ residue \in SUBSET Entry
    /\ pending \in 0 .. 2
    /\ completed \in IF pending = 0 THEN {0, 1} ELSE {1}
    /\ pending = 1 => residue = {}
    /\ lock = NoProcess
    /\ stage = [p \in Process |-> "closed"]
    /\ generation = [p \in Process |-> 0]
    /\ failures = 0

-----------------------------------------------------------------------------
(* The two transactions that delete.                                       *)

\* Mutant: the counter goes on from the pending generation alone.
Advanced_FromPending == pending + 1

\* _advance_scrub_generation.
Advanced == (IF pending >= completed THEN pending ELSE completed) + 1

\* Delete the rows and, in the same transaction, owe their scrub if there were
\* any or if the generation is owed anyway.
Delete(p, deleted, owed) ==
    LET next == IF deleted # {} \/ owed THEN Advanced ELSE pending
        clean == next <= completed
    IN
    /\ rows' = rows \ deleted
    /\ residue' = residue \cup deleted
    /\ pending' = next
    /\ generation' = [generation EXCEPT ![p] = next]
    /\ stage' = [stage EXCEPT ![p] = IF clean THEN "open" ELSE "committed"]
    /\ lock' = IF clean THEN NoProcess ELSE lock
    /\ UNCHANGED <<completed, failures>>

\* A process opens the cache and waits for the lock.
Open(p) ==
    /\ stage[p] = "closed" /\ lock = NoProcess
    /\ stage' = [stage EXCEPT ![p] = "opening"]
    /\ lock' = p
    /\ UNCHANGED <<rows, residue, pending, completed, generation, failures>>

\* Mutant: a database without generations is taken for a clean one.
Owed_Never == FALSE

\* A database without a pending generation may hold older deletions.
Owed == pending = 0

\* _init_db deletes what an older schema wrote.
Opened(p) ==
    /\ stage[p] = "opening"
    /\ Delete(p, rows \cap Legacy, Owed)

StartPurge(p) ==
    /\ stage[p] = "open" /\ lock = NoProcess
    /\ pending < MaxGeneration
    /\ stage' = [stage EXCEPT ![p] = "purging"]
    /\ lock' = p
    /\ UNCHANGED <<rows, residue, pending, completed, generation, failures>>

\* purge deletes one namespace, or everything.
Purge(p) ==
    /\ stage[p] = "purging"
    /\ \E scope \in {{n} : n \in Namespace} \cup {Namespace} :
          Delete(p, {e \in rows : NamespaceOf[e] \in scope}, FALSE)

-----------------------------------------------------------------------------
(* _compact_deleted_content, and what follows it.                          *)

Advance(p, from, to) ==
    /\ stage[p] = from
    /\ stage' = [stage EXCEPT ![p] = to]

\* Mutant: the generation is completed and then the database is compacted.
Checkpoint_Completes(p) ==
    /\ Advance(p, "committed", "checkpointed")
    /\ completed' = IF pending = generation[p] THEN generation[p] ELSE completed
    /\ UNCHANGED <<rows, residue, pending, lock, generation, failures>>

Checkpoint(p) ==
    /\ Advance(p, "committed", "checkpointed")
    /\ UNCHANGED <<rows, residue, pending, completed, lock, generation, failures>>

\* VACUUM writes a clean image of the database, to the WAL.
Vacuum(p) ==
    /\ Advance(p, "checkpointed", "vacuumed")
    /\ UNCHANGED <<rows, residue, pending, completed, lock, generation, failures>>

\* Mutant: a checkpoint that is busy is not an error.
Truncate_IgnoresBusy(p) ==
    /\ Advance(p, "vacuumed", "compacted")
    /\ residue' \in {{}, residue}
    /\ UNCHANGED <<rows, pending, completed, lock, generation, failures>>

\* The truncating checkpoint replaces the old pages by it.
Truncate(p) ==
    /\ Advance(p, "vacuumed", "compacted")
    /\ residue' = {}
    /\ UNCHANGED <<rows, pending, completed, lock, generation, failures>>

\* Mutant: the lock is kept.
Complete_KeepsLock(p) ==
    /\ Advance(p, "compacted", "open")
    /\ completed' = IF pending = generation[p] THEN generation[p] ELSE completed
    /\ UNCHANGED <<rows, residue, pending, lock, generation, failures>>

\* _complete_scrub_generation, and the release of the lock.
Complete(p) ==
    /\ Advance(p, "compacted", "open")
    /\ completed' = IF pending = generation[p] THEN generation[p] ELSE completed
    /\ lock' = NoProcess
    /\ UNCHANGED <<rows, residue, pending, generation, failures>>

-----------------------------------------------------------------------------
(* What every process may do.                                              *)

\* put_json inserts or replaces an entry, without the lock.
Put(p) ==
    /\ stage[p] = "open"
    /\ \E k \in Key : rows' = rows \cup {k}
    /\ UNCHANGED <<residue, pending, completed, lock, stage, generation, failures>>

\* The command is over.
Exit(p) ==
    /\ stage[p] = "open"
    /\ stage' = [stage EXCEPT ![p] = "closed"]
    /\ UNCHANGED <<rows, residue, pending, completed, lock, generation, failures>>

\* The process dies, or a step under the lock finds the database busy and the
\* command fails: the lock is released and what was committed stays.
Fail(p) ==
    /\ failures < MaxFailures
    /\ stage[p] # "closed"
    /\ stage' = [stage EXCEPT ![p] = "closed"]
    /\ lock' = IF lock = p THEN NoProcess ELSE lock
    /\ failures' = failures + 1
    /\ UNCHANGED <<rows, residue, pending, completed, generation>>

Work(p) ==
    \/ Open(p) \/ Opened(p) \/ Purge(p)
    \/ Checkpoint(p) \/ Vacuum(p) \/ Truncate(p) \/ Complete(p)

ScrubNext == \E p \in Process : Work(p) \/ StartPurge(p) \/ Put(p) \/ Exit(p) \/ Fail(p)

ScrubSpec == ScrubInit /\ [][ScrubNext]_scrubVars

\* The cache is used again and again: commands end, others open it, and what
\* holds the lock goes on unless it fails.
ScrubFairSpec == ScrubSpec /\ \A p \in Process : WF_scrubVars(Work(p)) /\ SF_scrubVars(Exit(p))

-----------------------------------------------------------------------------
(* Properties.                                                             *)

\* Generations that are equal mean that no deleted content is left in the files,
\* whatever crashed or was interrupted since the deletion.
ScrubbedMeansGone == pending # 0 /\ completed >= pending => residue = {}

\* Opening and purging succeed only when the deleted content, of this command
\* and of every command before it, is gone from the files and no entry of an
\* older schema is left.
ReturnsClean ==
    \A p \in Process : stage[p] \notin {"closed", "open"} /\ stage'[p] = "open" =>
        residue' = {} /\ rows' \cap Legacy = {}
SuccessIsClean == [][ReturnsClean]_scrubVars

\* Deleted content is removed in the end, although the process that owed it died
\* or failed: some later command finds the generation pending.
EventuallyScrubbed == residue # {} ~> residue = {}
=============================================================================
