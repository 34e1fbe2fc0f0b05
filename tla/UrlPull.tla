------------------------------- MODULE UrlPull --------------------------------
(***************************************************************************)
(* Saved pulls of one provider board (PullService.pull in                  *)
(* src/src/openopps/pull_service.py, apply_url_pull_list and               *)
(* apply_url_pull_get in storage.py).                                      *)
(*                                                                         *)
(* A pull fetches the board, or one of its postings, and saves the result  *)
(* under a reserved namespace.  An audit is committed first; the result is *)
(* then applied in one transaction.  A list closes the jobs it misses that *)
(* are in its scope; a get changes one job, and writes no observation.     *)
(* Pulls of several processes are applied in the order of their commits,   *)
(* whenever they fetched.                                                  *)
(***************************************************************************)
EXTENDS Naturals, Sequences

CONSTANTS
    Job,            \* the postings of the board
    Hash,           \* what a posting may say
    Pull,           \* the pulls
    MaxChanges      \* bound: changes of the site

ASSUME PullAssumption == MaxChanges \in Nat

VARIABLES
    site,           \* what the provider publishes
    changes,        \* how often that has changed
    namespace,      \* who owns the reserved source and board rows
    pc,             \* where each pull stands
    result,         \* what it fetched
    audit,          \* its url_pull_runs row: the status and when it finished
    told,           \* what its caller was told
    rows,           \* the jobs table
    history,        \* the observations of each job
    clock           \* the number of applied pulls

tables == <<namespace, audit, rows, history, clock>>
vars == <<site, changes, tables, pc, result, told>>

Postings == [kind : {"listed", "unlisted"}, hash : Hash]
Gone == [kind |-> "gone"]
NoResult == [scope |-> "none", jobs |-> <<>>]
NoRow == [status |-> "absent"]
NoAudit == [status |-> "none", at |-> 0]
Scopes == {"listed", "all_public"}

\* A result has a scope, or is a get, and has the postings it found.
Results == [scope : Scopes \cup {"get"}, jobs : UNION {[S -> Postings] : S \in SUBSET Job}]

Rows == [status : {"open", "closed"}, hash : Hash, membership : {"listed", "direct_only"}]

Observations ==
    [pull : Pull, at : Nat, kind : {"new", "changed", "unchanged", "reopened", "closed"}]

Audits == [status : {"none", "pending", "succeeded", "failed"}, at : Nat]

TypeOK ==
    /\ site \in [Job -> Postings \cup {Gone}]
    /\ changes \in 0 .. MaxChanges
    /\ namespace \in {"free", "owned", "foreign"}
    /\ pc \in [Pull -> {"idle", "fetched", "begun", "over"}]
    /\ result \in [Pull -> Results \cup {NoResult}]
    /\ audit \in [Pull -> Audits]
    /\ told \in [Pull -> {"nothing", "saved", "error"}]
    /\ rows \in [Job -> Rows \cup {NoRow}]
    /\ history \in [Job -> Seq(Observations)]
    /\ clock \in Nat

Init ==
    /\ site \in [Job -> {[kind |-> k, hash |-> h] : k \in {"listed", "unlisted"}, h \in Hash}]
    /\ changes = 0
    /\ namespace \in {"free", "foreign"}
    /\ pc = [p \in Pull |-> "idle"]
    /\ result = [p \in Pull |-> NoResult]
    /\ audit = [p \in Pull |-> NoAudit]
    /\ told = [p \in Pull |-> "nothing"]
    /\ rows = [j \in Job |-> NoRow]
    /\ history = [j \in Job |-> <<>>]
    /\ clock = 0

-----------------------------------------------------------------------------
(* Fetching.                                                               *)

\* A posting is unlisted, listed again, edited or taken down.
Change(j) ==
    /\ changes < MaxChanges
    /\ \E posting \in (Postings \cup {Gone}) \ {site[j]} : site' = [site EXCEPT ![j] = posting]
    /\ changes' = changes + 1
    /\ UNCHANGED <<tables, pc, result, told>>

Public(scope) ==
    {j \in Job : site[j].kind \in (IF scope = "listed" THEN {"listed"} ELSE {"listed", "unlisted"})}

Fetched(p, scope, found) ==
    /\ pc[p] = "idle"
    /\ result' = [result EXCEPT ![p] = [scope |-> scope, jobs |-> [j \in found |-> site[j]]]]
    /\ pc' = [pc EXCEPT ![p] = "fetched"]
    /\ UNCHANGED <<site, changes, tables, told>>

\* A complete, authoritative list of the board in the requested scope.
FetchList(p) == \E scope \in Scopes : Fetched(p, scope, Public(scope))

\* One posting, found natively or by a scan of the whole board.
FetchGet(p) == \E j \in Public("all_public") : Fetched(p, "get", {j})

Tells(p, what) ==
    /\ told' = [told EXCEPT ![p] = what]
    /\ pc' = [pc EXCEPT ![p] = "over"]

\* The posting is not there, the list is incomplete, the evidence is stale, a
\* budget or the deadline is exceeded: nothing is written.
FetchFails(p) ==
    /\ pc[p] = "idle"
    /\ Tells(p, "error")
    /\ UNCHANGED <<site, changes, tables, result>>

-----------------------------------------------------------------------------
(* Saving.                                                                 *)

\* The pending audit is committed, unless the namespace belongs to somebody else.
Begin(p) ==
    /\ pc[p] = "fetched"
    /\ \/ /\ namespace # "foreign"
          /\ audit' = [audit EXCEPT ![p].status = "pending"]
          /\ pc' = [pc EXCEPT ![p] = "begun"]
          /\ UNCHANGED told
       \/ Tells(p, "error") /\ UNCHANGED audit
    /\ UNCHANGED <<site, changes, namespace, rows, history, clock, result>>

MembershipOf(posting) == IF posting.kind = "unlisted" THEN "direct_only" ELSE "listed"

\* Mutant: a job keeps the membership it came with.
Promoted_Never(j, incoming) == IF rows[j] = NoRow THEN incoming ELSE rows[j].membership

\* A listed job stays listed, another takes what comes.
Promoted(j, incoming) ==
    IF rows[j] # NoRow /\ rows[j].membership = "listed" THEN "listed" ELSE incoming

ObservationKind(j, hash) ==
    IF rows[j] = NoRow THEN "new"
    ELSE IF rows[j].status = "closed" THEN "reopened"
    ELSE IF rows[j].hash = hash THEN "unchanged" ELSE "changed"

\* Mutant: a list closes whatever it misses.
InScope_All(j, scope) == rows[j].status = "open"

\* The open jobs that a list of this scope may close.
InScope(j, scope) ==
    rows[j].status = "open" /\ (scope = "listed" => rows[j].membership = "listed")

\* Mutant: a get leaves a closed job closed.
Upserted_Status(j, posting) ==
    [status |-> IF rows[j] = NoRow THEN "open" ELSE rows[j].status,
     hash |-> posting.hash, membership |-> Promoted(j, MembershipOf(posting))]

Upserted(j, posting) ==
    [status |-> "open", hash |-> posting.hash, membership |-> Promoted(j, MembershipOf(posting))]

Observed(j, p, kind) == Append(history[j], [pull |-> p, at |-> clock + 1, kind |-> kind])

\* The one transaction of a list.
ApplyList(p) ==
    LET jobs == result[p].jobs
        missed == {j \in Job \ DOMAIN jobs : InScope(j, result[p].scope)}
    IN
    /\ result[p].scope \in Scopes
    /\ rows' = [j \in Job |->
          IF j \in DOMAIN jobs THEN Upserted(j, jobs[j])
          ELSE IF j \in missed THEN [rows[j] EXCEPT !.status = "closed"] ELSE rows[j]]
    /\ history' = [j \in Job |->
          IF j \in DOMAIN jobs THEN Observed(j, p, ObservationKind(j, jobs[j].hash))
          ELSE IF j \in missed THEN Observed(j, p, "closed") ELSE history[j]]

\* The one transaction of a get.
ApplyGet(p) ==
    /\ result[p].scope = "get"
    /\ rows' = [j \in Job |->
          IF j \in DOMAIN result[p].jobs THEN Upserted(j, result[p].jobs[j]) ELSE rows[j]]
    /\ UNCHANGED history

\* The result and the end of the audit are committed together.  The caller is
\* told of an error when reading the audit back fails.
Apply(p) ==
    /\ pc[p] = "begun"
    /\ ApplyList(p) \/ ApplyGet(p)
    /\ namespace' = "owned"
    /\ clock' = clock + 1
    /\ audit' = [audit EXCEPT ![p] = [status |-> "succeeded", at |-> clock + 1]]
    /\ \E what \in {"saved", "error"} : Tells(p, what)
    /\ UNCHANGED <<site, changes, result>>

\* Mutant: the rows are committed before the audit, and stay.
ApplyFails_TwoCommits(p) ==
    /\ pc[p] = "begun"
    /\ ApplyList(p) \/ ApplyGet(p)
    /\ audit' = [audit EXCEPT ![p].status = "failed"]
    /\ Tells(p, "error")
    /\ UNCHANGED <<site, changes, namespace, clock, result>>

\* The transaction rolls back, and the failure is recorded if it can be.
ApplyFails(p) ==
    /\ pc[p] = "begun"
    /\ \E status \in {"failed", "pending"} : audit' = [audit EXCEPT ![p].status = status]
    /\ Tells(p, "error")
    /\ UNCHANGED <<site, changes, namespace, rows, history, clock, result>>

\* The process ends.
Crash(p) ==
    /\ pc[p] \in {"fetched", "begun"}
    /\ pc' = [pc EXCEPT ![p] = "over"]
    /\ UNCHANGED <<site, changes, tables, result, told>>

Step(p) ==
    \/ FetchList(p) \/ FetchGet(p) \/ FetchFails(p)
    \/ Begin(p) \/ Apply(p) \/ ApplyFails(p) \/ Crash(p)

Next == (\E p \in Pull : Step(p)) \/ (\E j \in Job : Change(j))

Spec == Init /\ [][Next]_vars

-----------------------------------------------------------------------------
(* Properties.                                                             *)

Applied == {p \in Pull : audit[p].status = "succeeded"}
Marks(j, p) == {n \in DOMAIN history[j] : history[j][n].pull = p}

\* The applied pulls that had the job, before the time t.
Sightings(j, t) == {p \in Applied : j \in DOMAIN result[p].jobs /\ audit[p].at < t}

\* A pull is applied as a whole or not at all (storage-export spec: "no
\* successful job-sync snapshot is committed" when it fails): a caller that was
\* told so finds it applied, an applied list has observed every job it lists
\* once, and a pull that is not applied has left neither an observation nor a job.
AppliedWhole ==
    \A p \in Pull :
        /\ told[p] = "saved" => p \in Applied
        /\ \A j \in Job :
              /\ p \in Applied /\ result[p].scope \in Scopes /\ j \in DOMAIN result[p].jobs =>
                    \E n \in DOMAIN history[j] : Marks(j, p) = {n} /\ history[j][n].kind # "closed"
              /\ Marks(j, p) # {} => p \in Applied /\ result[p].scope \in Scopes
              /\ rows[j] # NoRow <=> Sightings(j, clock + 1) # {}

\* The tables are well-typed, and no pull is in them in part.
PullsWhole == TypeOK /\ AppliedWhole

\* A job is open or closed for a reason that the tables still give: it is closed
\* exactly when its last observation says so and no applied get has found it
\* since, and it says what the pull that last had it found.
HistoryExplains ==
    \A j \in Job :
        LET n == Len(history[j])
            last == IF n = 0 THEN 0 ELSE history[j][n].at
            since == Sightings(j, clock + 1) \ Sightings(j, last + 1)
        IN
        /\ (rows[j].status = "closed") <=> (n > 0 /\ history[j][n].kind = "closed" /\ since = {})
        /\ rows[j] # NoRow => \E p \in Sightings(j, clock + 1) :
              /\ \A q \in Sightings(j, clock + 1) : audit[q].at <= audit[p].at
              /\ rows[j].hash = result[p].jobs[j].hash

\* A list of the listed postings closes only jobs that some pull had found
\* listed: one that was only ever reached by its direct link stays open.
ClosedWithinScope ==
    \A j \in Job : \A n \in DOMAIN history[j] :
        LET o == history[j][n] IN
        o.kind = "closed" /\ result[o.pull].scope = "listed" =>
            \E p \in Sightings(j, o.at) : result[p].jobs[j].kind = "listed"

\* The jobs that a list of this scope speaks of, besides those it lists.
Covers(row, scope) == row.status = "open" /\ (scope = "listed" => row.membership = "listed")

\* When a list is applied, the open jobs in its scope are the ones it lists, and a job
\* that it neither lists nor covers keeps its row and its observations.
Leaves(p) ==
    audit[p].status = "pending" /\ audit'[p].status = "succeeded" /\ result[p].scope \in Scopes =>
        /\ DOMAIN result[p].jobs = {j \in Job : Covers(rows'[j], result[p].scope)}
        /\ \A j \in Job \ DOMAIN result[p].jobs :
              ~Covers(rows[j], result[p].scope) => rows'[j] = rows[j] /\ history'[j] = history[j]
ListLeavesScope == [][\A p \in Pull : Leaves(p)]_vars
=============================================================================
