------------------------------ MODULE CachedRead ------------------------------
(***************************************************************************)
(* One read of one cache key by callers of several processes, as the        *)
(* requesters that _retrying_response_request of http.py makes serve it: a  *)
(* fresh entry answers at once; otherwise the callers of a requester that   *)
(* may share wait for one task, which asks the site (conditionally, when an *)
(* old entry is there), tries again, and stores what it got; and a caller   *)
(* whose task failed may fall back to an old entry that was marked for it.  *)
(*                                                                          *)
(* The site's contents are numbered in the order in which it serves them:   *)
(* it does not come back to an earlier one with the same validator.  The    *)
(* time to live is abstract: an entry expires when it likes.  What keeps an *)
(* entry from being read (its schema, its size) is left out, and the limits *)
(* of an operation, whose reads do not share, are in HttpOperation.        *)
(***************************************************************************)
EXTENDS Integers, FiniteSetsExt

CONSTANTS
    Caller,       \* the reads, each of one caller
    Requester,    \* the request functions: a provider has its own, a process many
    Loop,         \* the processes, each with its event loop, that share the database
    Via,          \* the requester of a caller
    Home,         \* the process of a requester
    Refreshing,   \* the callers with cache_refresh: they read nothing old and never share
    Keep,         \* the caller's stale_on_error
    MaxTries,     \* settings.retry_attempts
    MaxVersion,   \* the contents the site has over time (bound)
    NoEntry, Nobody

Version == 1..MaxVersion
\* had: the site had the body while the task ran that wrote or renewed the entry,
\* or another task that was running when that one began.
Entries == [body : Version, fresh : BOOLEAN, keep : BOOLEAN, had : BOOLEAN]

ASSUME CachedReadAssumption ==
    /\ Via \in [Caller -> Requester]
    /\ Home \in [Requester -> Loop]
    /\ Refreshing \subseteq Caller
    /\ Keep \in [Caller -> BOOLEAN]
    /\ MaxTries \in Nat \ {0} /\ MaxVersion \in Nat \ {0}
    /\ Nobody \notin Caller /\ NoEntry \notin Entries

VARIABLES
    site,         \* the content the site has now
    entry,        \* the row of http_cache for the key
    pc,           \* where a caller is
    stale,        \* the caller's stale_hit
    joined,       \* whose task a caller waits for
    right,        \* a caller was given nothing, or what it may be given
    task,         \* the task a caller started: its fetch_and_store
    inflight      \* whose task a requester has under the key

vars == <<site, entry, pc, stale, joined, right, task, inflight>>
callers == <<pc, stale, joined, right>>

\* A task that has got nothing.
Plain(status, since, reach, end) ==
    [status |-> status, tries |-> 0, since |-> since, reach |-> reach,
     got |-> "none", body |-> 1, end |-> end]
NoTask == Plain("none", 1, 1, "none")
Done(end) == Plain("done", 1, 1, end)

Statuses == {"none", "asking", "got", "done"}
Findings == {"none", "same", "new"}
Endings == {"none", "had", "lacked", "retryable", "error"}
Tasks == [status : Statuses, tries : 0..MaxTries, since : Version, reach : Version,
          got : Findings, body : Version, end : Endings]

TypeOK ==
    /\ site \in Version
    /\ entry \in Entries \cup {NoEntry}
    /\ pc \in [Caller -> {"idle", "looking", "waiting", "over"}]
    /\ stale \in [Caller -> Entries \cup {NoEntry}]
    /\ joined \in [Caller -> Caller \cup {Nobody}]
    /\ right \in [Caller -> BOOLEAN]
    /\ task \in [Caller -> Tasks]
    /\ inflight \in [Requester -> Caller \cup {Nobody}]

\* The cache is empty or has an entry of an earlier command that has expired; a caller
\* is still to come or does not come at all.
Init ==
    /\ site = 1
    /\ entry \in {NoEntry} \cup
          {[body |-> 1, fresh |-> FALSE, keep |-> k, had |-> TRUE] : k \in BOOLEAN}
    /\ pc \in [Caller -> {"idle", "over"}]
    /\ stale = [c \in Caller |-> NoEntry]
    /\ joined = [c \in Caller |-> Nobody]
    /\ right = [c \in Caller |-> TRUE]
    /\ task = [c \in Caller |-> NoTask]
    /\ inflight = [q \in Requester |-> Nobody]

-----------------------------------------------------------------------------
(* The site, time, and another command's purge.                            *)

Change ==
    /\ site < MaxVersion
    /\ site' = site + 1
    /\ UNCHANGED <<entry, callers, task, inflight>>

Hit == entry # NoEntry /\ entry.fresh

ExpireEntry ==
    /\ Hit
    /\ entry' = [entry EXCEPT !.fresh = FALSE]
    /\ UNCHANGED <<site, callers, task, inflight>>

PurgeEntry ==
    /\ entry # NoEntry
    /\ entry' = NoEntry
    /\ UNCHANGED <<site, callers, task, inflight>>

-----------------------------------------------------------------------------
(* The callers.                                                            *)

Shares(c) == c \notin Refreshing

ProcessOf(c) == Home[Via[c]]

\* The event loop is between two of a caller's steps that nothing awaits: only
\* other processes can act.
Occupied(p) ==
    \E c \in Caller : ProcessOf(c) = p /\
        (pc[c] = "looking" \/ (pc[c] = "waiting" /\ ~Shares(c) /\ task[c].status = "done"))

Running(c) == task[c].status \in {"asking", "got"}

Begun ==
    Plain("asking", site,
          Min({site} \cup {task[c].since : c \in {d \in Caller : Running(d)}}), "none")

\* A refresh asks the site at once; another caller takes a fresh entry or goes on.
Ask(c) ==
    /\ pc[c] = "idle" /\ ~Occupied(ProcessOf(c))
    /\ \/ /\ c \in Refreshing
          /\ pc' = [pc EXCEPT ![c] = "waiting"]
          /\ joined' = [joined EXCEPT ![c] = c]
          /\ task' = [task EXCEPT ![c] = Begun]
          /\ UNCHANGED right
       \/ /\ c \notin Refreshing /\ Hit
          /\ pc' = [pc EXCEPT ![c] = "over"]
          /\ right' = [right EXCEPT ![c] = entry.had]
          /\ UNCHANGED <<joined, task>>
       \/ /\ c \notin Refreshing /\ ~Hit
          /\ pc' = [pc EXCEPT ![c] = "looking"]
          /\ UNCHANGED <<joined, right, task>>
    /\ UNCHANGED <<site, entry, stale, inflight>>

\* The old entry is read, and the caller joins the task that its requester has in flight
\* or starts one.
Look(c) ==
    LET q == Via[c]
        owner == IF Shares(c) /\ inflight[q] # Nobody THEN inflight[q] ELSE c
    IN
    /\ pc[c] = "looking"
    /\ stale' = [stale EXCEPT ![c] = IF entry = NoEntry THEN NoEntry ELSE [entry EXCEPT !.fresh = FALSE]]
    /\ pc' = [pc EXCEPT ![c] = "waiting"]
    /\ joined' = [joined EXCEPT ![c] = owner]
    /\ task' = IF owner = c THEN [task EXCEPT ![c] = Begun] ELSE task
    /\ inflight' = IF Shares(c) THEN [inflight EXCEPT ![q] = owner] ELSE inflight
    /\ UNCHANGED <<site, entry, right>>

\* Mutant: any old entry will do.
Fallback_Any(c) == IF stale[c] # NoEntry THEN stale[c] ELSE entry

\* The old entry for a caller whose task failed: the one it read before, when it
\* was marked, or the one that is there now.
Fallback(c) ==
    IF stale[c] # NoEntry /\ stale[c].keep THEN stale[c]
    ELSE IF entry # NoEntry /\ entry.keep THEN entry ELSE NoEntry

\* The task is done and its waiter gets its answer, falls back or raises.
Wake(c) ==
    LET t == task[joined[c]]
        old == IF t.end = "retryable" /\ c \notin Refreshing /\ Keep[c] THEN Fallback(c) ELSE NoEntry
    IN
    /\ pc[c] = "waiting" /\ t.status = "done"
    /\ Occupied(ProcessOf(c)) => ~Shares(c)
    /\ \/ /\ t.end \in {"had", "lacked"}
          /\ pc' = [pc EXCEPT ![c] = "over"]
          /\ right' = [right EXCEPT ![c] = (t.end = "had")]
       \/ /\ t.end \in {"retryable", "error"} /\ old # NoEntry
          /\ pc' = [pc EXCEPT ![c] = "over"]
          /\ right' = [right EXCEPT ![c] = old.keep]
       \/ /\ t.end \in {"retryable", "error"} /\ old = NoEntry
          /\ pc' = [pc EXCEPT ![c] = "over"]
          /\ UNCHANGED right
    /\ stale' = [stale EXCEPT ![c] = NoEntry]
    /\ joined' = [joined EXCEPT ![c] = Nobody]
    /\ task' = IF Shares(c) THEN task ELSE [task EXCEPT ![c] = NoTask]
    /\ UNCHANGED <<site, entry, inflight>>

\* Mutant: the shared task is cancelled with any of its waiters.
Cancel_Unshielded(c) ==
    /\ pc[c] = "waiting" /\ ~Occupied(ProcessOf(c))
    /\ pc' = [pc EXCEPT ![c] = "over"]
    /\ joined' = [joined EXCEPT ![c] = Nobody]
    /\ task' = [task EXCEPT ![joined[c]] = IF @.status = "done" THEN @ ELSE NoTask]
    /\ UNCHANGED <<site, entry, stale, right, inflight>>

\* Mutant: the caller that started the task forgets it when it leaves.
Cancel_Forgets(c) ==
    /\ pc[c] = "waiting" /\ ~Occupied(ProcessOf(c))
    /\ pc' = [pc EXCEPT ![c] = "over"]
    /\ joined' = [joined EXCEPT ![c] = Nobody]
    /\ task' = IF Shares(c) THEN task ELSE [task EXCEPT ![c] = NoTask]
    /\ inflight' = [q \in Requester |-> IF inflight[q] = c THEN Nobody ELSE inflight[q]]
    /\ UNCHANGED <<site, entry, stale, right>>

\* A caller runs out of time or is cancelled: a shared task is shielded from it
\* and goes on, its own request ends with it.
Cancel(c) ==
    /\ pc[c] = "waiting" /\ ~Occupied(ProcessOf(c))
    /\ pc' = [pc EXCEPT ![c] = "over"]
    /\ joined' = [joined EXCEPT ![c] = Nobody]
    /\ task' = IF Shares(c) THEN task ELSE [task EXCEPT ![c] = NoTask]
    /\ UNCHANGED <<site, entry, stale, right, inflight>>

-----------------------------------------------------------------------------
(* The tasks.                                                              *)

Ended(o, end) == [task EXCEPT ![o] = Done(end)]

\* The site answers an attempt: the content is the one the request named, or
\* here it is; or the attempt fails, for another try or for good.
Respond(o) ==
    /\ task[o].status = "asking" /\ ~Occupied(ProcessOf(o))
    /\ \/ /\ stale[o] # NoEntry /\ stale[o].body = site
          /\ task' = [task EXCEPT ![o].status = "got", ![o].got = "same"]
       \/ task' = [task EXCEPT ![o].status = "got", ![o].got = "new", ![o].body = site]
       \/ /\ task[o].tries + 1 < MaxTries
          /\ task' = [task EXCEPT ![o].tries = @ + 1]
       \/ /\ task[o].tries + 1 = MaxTries
          /\ task' = Ended(o, "retryable")
       \/ task' = Ended(o, "error")
    /\ UNCHANGED <<site, entry, callers, inflight>>

\* Mutant: what is there now is taken for what the site confirmed.
Revalidated_Reread(o) == IF entry # NoEntry THEN entry.body ELSE stale[o].body

\* The body of the entry that the request named, whatever the cache has now.
Revalidated(o) == stale[o].body

EndedWith(o, body) == Ended(o, IF body \in task[o].since..site THEN "had" ELSE "lacked")

\* The answer is stored, or the row that is there is renewed, by one transaction;
\* when the database is busy the task fails with it.
Store(o) ==
    /\ task[o].status = "got" /\ ~Occupied(ProcessOf(o))
    /\ \/ /\ task[o].got = "same"
          /\ entry' = IF entry = NoEntry THEN NoEntry ELSE [entry EXCEPT !.fresh = TRUE, !.had = entry.body >= task[o].reach]
          /\ task' = EndedWith(o, Revalidated(o))
       \/ /\ task[o].got = "new"
          /\ entry' = [body |-> task[o].body, fresh |-> TRUE, keep |-> Keep[o], had |-> task[o].body >= task[o].reach]
          /\ task' = EndedWith(o, task[o].body)
       \/ /\ task' = Ended(o, "error")
          /\ UNCHANGED entry
    /\ UNCHANGED <<site, callers, inflight>>

\* The callback of a task that is done takes it out of the table.
Clear(q) ==
    /\ inflight[q] # Nobody /\ ~Running(inflight[q]) /\ ~Occupied(Home[q])
    /\ inflight' = [inflight EXCEPT ![q] = Nobody]
    /\ UNCHANGED <<site, entry, callers, task>>

\* The event loop of the process ends, and with it every read and task.
Stop(p) ==
    /\ \E c \in Caller : ProcessOf(c) = p /\ (pc[c] = "waiting" \/ Running(c))
    /\ pc' = [c \in Caller |-> IF ProcessOf(c) = p THEN "over" ELSE pc[c]]
    /\ joined' = [c \in Caller |-> IF ProcessOf(c) = p THEN Nobody ELSE joined[c]]
    /\ task' = [c \in Caller |-> IF ProcessOf(c) = p THEN NoTask ELSE task[c]]
    /\ inflight' = [q \in Requester |-> IF Home[q] = p THEN Nobody ELSE inflight[q]]
    /\ UNCHANGED <<site, entry, stale, right>>

\* What a caller and its task do of their own accord: one thing at a time.
Proceed(c) == Look(c) \/ Respond(c) \/ Store(c) \/ Wake(c)

Next ==
    \/ Change \/ ExpireEntry \/ PurgeEntry
    \/ \E c \in Caller : Ask(c) \/ Proceed(c) \/ Cancel(c)
    \/ \E q \in Requester : Clear(q)
    \/ \E p \in Loop : Stop(p)

\* An attempt ends with an answer or a timeout, and the event loop runs what is ready.
Fairness == \A c \in Caller : WF_vars(Proceed(c))

Spec == Init /\ [][Next]_vars /\ Fairness

-----------------------------------------------------------------------------
(* Properties.                                                             *)

\* What the cache calls fresh the site had while the task ran that wrote it or
\* renewed it, or while a task ran that one of them overtook: however processes
\* overtake one another and whatever is purged or replaced meanwhile, an entry is
\* older than its time to live by two reads at most.  An answer that comes from
\* a task the site had while that task ran; and a fallback was marked for it by
\* whoever wrote it.
AnswersExplained ==
    /\ TypeOK
    /\ entry # NoEntry => entry.had
    /\ \A c \in Caller : right[c]

\* A requester has one request on its way for the callers that share, and a caller
\* that leaves takes nobody's answer with it.  Two requesters of one process do not
\* know of each other, and may ask for the same key at once.
SingleFlight ==
    /\ \A q \in Requester :
          Cardinality({c \in Caller : Via[c] = q /\ Shares(c) /\ Running(c)}) <= 1
    /\ \A c \in Caller : pc[c] = "waiting" => task[joined[c]].status \in {"asking", "got", "done"}

\* Every read that has begun ends, also when the caller whose task it waits for has
\* gone: callers come once, so there is a time from which nobody reads.
ReadsEnd == <>[](\A c \in Caller : pc[c] \in {"idle", "over"})
=============================================================================
