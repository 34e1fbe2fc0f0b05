------------------------------ MODULE SourceSync ------------------------------
(***************************************************************************)
(* Successive `sources sync` commands (_sync_sources_bound and _SourcePin  *)
(* in src/src/openopps/ingest.py) and the tables they fill (upsert_boards, *)
(* upsert_board_providers and reconcile_source_board_provider_routes in    *)
(* storage.py).                                                            *)
(*                                                                         *)
(* The adapters of several sources page through their listings at once.    *)
(* Every page is written as it comes, in batches that commit on their own; *)
(* boards of several sources that share a domain merge into one row.  Only *)
(* when a listing has come to its end are the routes it no longer has      *)
(* deleted, and only then is the source fresh.  There is one job provider. *)
(***************************************************************************)
EXTENDS Naturals, FiniteSets, SequencesExt

CONSTANTS
    Sources,
    Denied,         \* the sources the policy blocks
    Unadapted,      \* those whose provider has no adapter
    Boards,         \* the board keys that are emitted; a key names its source
    Domains,
    NoDomain,
    Listings,       \* what the site of each source may list: sequences of pages
    Concurrency,    \* settings.source_concurrency
    MaxSyncs,       \* bound: the commands that are run
    MaxProbes       \* bound: the probes that are run

Entries == [board : Boards, domain : Domains \cup {NoDomain}, hint : {"none", "bare", "ready"}]

ASSUME SourceAssumption ==
    /\ Denied \subseteq Sources /\ Unadapted \subseteq Sources
    /\ NoDomain \notin Domains
    /\ \A s \in Sources : Listings[s] \subseteq Seq(Seq(Entries))
    /\ Concurrency \in Nat \ {0} /\ MaxSyncs \in Nat /\ MaxProbes \in Nat

VARIABLES
    rows,           \* the board table: the domain of each row, and the key each
                    \* source gave it (source_board_keys)
    routes,         \* the route table, by source and board
    synced,         \* the sync that last completed each source, 0 for none
    syncs,          \* the number of the current sync
    task,           \* where the task of each source stands
    listing,        \* what the source lists in this sync
    page,           \* how many of its pages are written
    ids,            \* the boards of the routes written in this sync
    hinted,         \* saw_provider_route_hints
    outcome,        \* _SourcePin.outcomes
    main,           \* where the command stands
    accounting,
    probed,         \* the routes a route probe has read and not yet written
    probes,         \* the probes that may still begin
    returned        \* history: the routes that a probe wrote when they were not there

tables == <<rows, routes, synced>>
locals == <<listing, page, ids, hinted>>
probe == <<probed, probes, returned>>
vars == <<tables, syncs, task, locals, outcome, main, accounting, probe>>

Dispositions == {"succeeded", "failed", "timed_out", "fresh_skipped", "policy_blocked",
                 "rate_limited", "cancelled", "unstarted"}

\* A table of boards, as a function on the keys of its rows, and one of routes.
Rows == [domain : Domains \cup {NoDomain}, emitted : UNION {[S -> Boards] : S \in SUBSET Sources}]
IsBoardTable(table) == DOMAIN table \subseteq Boards /\ table \in [DOMAIN table -> Rows]
RouteTables == [Sources \X Boards -> {"none", "bare", "ready", "disabled"}]

TypeOK ==
    /\ IsBoardTable(rows)
    /\ routes \in RouteTables
    /\ synced \in [Sources -> 0 .. syncs] /\ syncs \in 0 .. MaxSyncs
    /\ task \in [Sources -> {"idle", "queued", "listing", "over"}]
    /\ listing \in [Sources -> Seq(Seq(Entries))] /\ page \in [Sources -> Nat]
    /\ \A s \in Sources : page[s] <= Len(listing[s])
    /\ ids \in [Sources -> SUBSET Boards] /\ hinted \in [Sources -> BOOLEAN]
    /\ outcome \in [Sources -> Dispositions \cup {"none"}]
    /\ probed \subseteq DOMAIN routes /\ returned \subseteq DOMAIN routes /\ probes \in 0 .. MaxProbes
    /\ main \in {"idle", "gathering"} /\ accounting \in {"none", "complete", "incomplete"}

Init ==
    /\ rows = <<>>
    /\ routes = [sb \in Sources \X Boards |-> "none"]
    /\ synced = [s \in Sources |-> 0]
    /\ syncs = 0
    /\ task = [s \in Sources |-> "idle"]
    /\ listing = [s \in Sources |-> <<>>]
    /\ page = [s \in Sources |-> 0]
    /\ ids = [s \in Sources |-> {}]
    /\ hinted = [s \in Sources |-> FALSE]
    /\ outcome = [s \in Sources |-> "none"]
    /\ main = "idle"
    /\ accounting = "none"
    /\ probed = {} /\ probes = MaxProbes /\ returned = {}

-----------------------------------------------------------------------------
(* Merging boards and routes.                                              *)

\* The function f with v at x.
With(f, x, v) == [y \in DOMAIN f \cup {x} |-> IF y = x THEN v ELSE f[y]]

SameDomain(table, e) ==
    IF e.domain = NoDomain THEN {} ELSE {b \in DOMAIN table : table[b].domain = e.domain}

\* Mutant: a board is only looked up by its key.
Target_ByKey(table, e) == e.board

\* The row a board goes to: that of its domain, or else that of its key.
Target(table, e) ==
    IF SameDomain(table, e) # {} THEN CHOOSE b \in SameDomain(table, e) : TRUE ELSE e.board

\* Mutant: the row takes the sources of the incoming board alone.
MergeBoard_Replaced(table, s, e) ==
    With(table, Target(table, e), [domain |-> e.domain, emitted |-> [q \in {s} |-> e.board]])

MergeBoard(table, s, e) ==
    LET b == Target(table, e)
        row == IF b \notin DOMAIN table THEN [domain |-> e.domain, emitted |-> [q \in {s} |-> e.board]]
               ELSE [domain |-> IF table[b].domain = NoDomain THEN e.domain ELSE table[b].domain,
                     emitted |-> With(table[b].emitted, s, e.board)]
    IN  With(table, b, row)

MergeBoards(table, s, entries) ==
    FoldLeft(LAMBDA t, e : MergeBoard(t, s, e), table, entries)

\* Where the boards of a page of s ended up: every row is also found by the key that
\* it has from s now, and the later entry wins.
AddAlias(aliases, table, s, e) ==
    LET b == Target(table, e) IN With(With(aliases, table[b].emitted[s], b), e.board, b)

Aliases(table, s, entries) ==
    FoldLeft(LAMBDA aliases, e : AddAlias(aliases, table, s, e), <<>>, entries)

\* The entries that come with a hint.
Hints(entries) == {e \in ToSet(entries) : e.hint # "none"}

\* A hint without metadata leaves the metadata, and a disabled route, as they are.
MergeRoute(table, s, b, hint) ==
    IF hint = "none" \/ (hint = "bare" /\ table[<<s, b>>] # "none") THEN table
    ELSE [table EXCEPT ![<<s, b>>] = hint]

MergeRoutes(table, s, aliases, entries) ==
    FoldLeft(LAMBDA t, e : MergeRoute(t, s, aliases[e.board], e.hint), table, entries)

\* The first boards of a page are written and, when that is all of them, the
\* hints of the first.
Writes(s, entries, boards, hinting) ==
    LET written == MergeBoards(rows, s, SubSeq(entries, 1, boards)) IN
    /\ rows' = written
    /\ routes' = IF boards < Len(entries) THEN routes
                 ELSE MergeRoutes(routes, s, Aliases(written, s, entries), SubSeq(entries, 1, hinting))
    /\ UNCHANGED synced

NextPage(s) == listing[s][page[s] + 1]

\* A write fails, or the process ends, after some of the batches.
WritesPart(s) ==
    /\ page[s] < Len(listing[s])
    /\ \E boards, hinting \in 0 .. Len(NextPage(s)) : Writes(s, NextPage(s), boards, hinting)

\* Mutant: the routes are deleted even when the listing has no hint at all.
Reconciled_Always(s) ==
    [sb \in DOMAIN routes |-> IF sb[1] = s /\ sb[2] \notin ids[s] THEN "none" ELSE routes[sb]]

\* reconcile_source_board_provider_routes, for a listing that has hints.
Reconciled(s) ==
    IF hinted[s]
    THEN [sb \in DOMAIN routes |-> IF sb[1] = s /\ sb[2] \notin ids[s] THEN "none" ELSE routes[sb]]
    ELSE routes

-----------------------------------------------------------------------------
(* The task of a source.                                                   *)

Ends(s, disposition) ==
    /\ task' = [task EXCEPT ![s] = "over"]
    /\ outcome' = [outcome EXCEPT ![s] = disposition]
    /\ UNCHANGED <<syncs, locals, main, accounting>>

Launch(s) ==
    /\ task[s] = "queued"
    /\ Cardinality({q \in Sources : task[q] = "listing"}) < Concurrency
    /\ UNCHANGED tables
    /\ \/ s \in Unadapted /\ Ends(s, "failed")
       \/ /\ s \notin Unadapted
          /\ task' = [task EXCEPT ![s] = "listing"]
          /\ \E l \in Listings[s] : listing' = [listing EXCEPT ![s] = l]
          /\ page' = [page EXCEPT ![s] = 0]
          /\ ids' = [ids EXCEPT ![s] = {}]
          /\ hinted' = [hinted EXCEPT ![s] = FALSE]
          /\ UNCHANGED <<syncs, outcome, main, accounting>>

\* A page is written in full.
Page(s) ==
    LET entries == NextPage(s)
        aliases == Aliases(MergeBoards(rows, s, entries), s, entries)
    IN
    /\ task[s] = "listing" /\ page[s] < Len(listing[s])
    /\ Writes(s, entries, Len(entries), Len(entries))
    /\ page' = [page EXCEPT ![s] = @ + 1]
    /\ ids' = [ids EXCEPT ![s] = @ \cup {aliases[e.board] : e \in Hints(entries)}]
    /\ hinted' = [hinted EXCEPT ![s] = @ \/ Hints(entries) # {}]
    /\ UNCHANGED <<syncs, task, listing, outcome, main, accounting>>

\* Mutant: the pages that came make the source fresh.
PageError_Fresh(s) ==
    /\ task[s] = "listing"
    /\ \E disposition \in {"failed", "timed_out", "rate_limited"} : Ends(s, disposition)
    /\ synced' = [synced EXCEPT ![s] = syncs]
    /\ UNCHANGED <<rows, routes>>

\* The adapter raises, or runs out of its time, before a page or before the end.
PageError(s) ==
    /\ task[s] = "listing"
    /\ \E disposition \in {"failed", "timed_out", "rate_limited"} : Ends(s, disposition)
    /\ UNCHANGED tables

WriteError(s) ==
    /\ task[s] = "listing"
    /\ WritesPart(s)
    /\ Ends(s, "failed")

\* The listing is at its end.
Complete(s) ==
    /\ task[s] = "listing" /\ page[s] = Len(listing[s])
    /\ routes' = Reconciled(s)
    /\ synced' = [synced EXCEPT ![s] = syncs]
    /\ UNCHANGED rows
    /\ Ends(s, "succeeded")

\* The deletion, or the freshness that follows it, cannot be written.
CompleteError(s) ==
    /\ task[s] = "listing" /\ page[s] = Len(listing[s])
    /\ routes' \in {routes, Reconciled(s)}
    /\ UNCHANGED <<rows, synced>>
    /\ Ends(s, "failed")

-----------------------------------------------------------------------------
(* The command.                                                            *)

\* The sources that are denied or fresh are recorded before anything starts.
\* Whether one that was synced is still fresh depends on the time that passed.
BeginSync ==
    /\ main = "idle" /\ syncs < MaxSyncs
    /\ main' = "gathering"
    /\ syncs' = syncs + 1
    /\ accounting' = "none"
    /\ \E fresh \in SUBSET {s \in Sources \ Denied : synced[s] > 0} :
          LET before(s) == IF s \in Denied THEN "policy_blocked"
                           ELSE IF s \in fresh THEN "fresh_skipped" ELSE "none"
          IN /\ outcome' = [s \in Sources |-> before(s)]
             /\ task' = [s \in Sources |-> IF before(s) = "none" THEN "queued" ELSE "over"]
    /\ UNCHANGED <<tables, locals>>

Bad == {"failed", "timed_out", "policy_blocked", "rate_limited", "cancelled", "unstarted"}

Close ==
    /\ main = "gathering" /\ \A s \in Sources : task[s] = "over"
    /\ accounting' = IF \E s \in Sources : outcome[s] \in Bad THEN "incomplete" ELSE "complete"
    /\ main' = "idle"
    /\ UNCHANGED <<tables, syncs, task, locals, outcome>>

\* The operator interrupts: what is launched is cancelled, the rest is unstarted.
Interrupt ==
    /\ main = "gathering"
    /\ outcome' = [s \in Sources |->
          IF outcome[s] # "none" THEN outcome[s]
          ELSE IF task[s] = "listing" THEN "cancelled" ELSE "unstarted"]
    /\ task' = [s \in Sources |-> "over"]
    /\ accounting' = "incomplete"
    /\ main' = "idle"
    /\ UNCHANGED <<tables, syncs, locals>>

\* The process ends at any commit: within a page, or between the deletion of the
\* routes and the freshness.
Crash ==
    /\ main = "gathering"
    /\ \/ UNCHANGED tables
       \/ \E s \in Sources : task[s] = "listing" /\ WritesPart(s)
       \/ \E s \in Sources :
             /\ task[s] = "listing" /\ page[s] = Len(listing[s])
             /\ routes' = Reconciled(s) /\ UNCHANGED <<rows, synced>>
    /\ task' = [s \in Sources |-> "over"]
    /\ main' = "idle"
    /\ UNCHANGED <<syncs, locals, outcome, accounting>>

\* A `jobs sync`, perhaps of another process, finds the board of a route gone.
Deactivate(s, b) ==
    /\ routes[<<s, b>>] = "ready"
    /\ routes' = [routes EXCEPT ![<<s, b>>] = "disabled"]
    /\ UNCHANGED <<rows, synced, syncs, task, locals, outcome, main, accounting>>

Step(s) ==
    Launch(s) \/ Page(s) \/ PageError(s) \/ WriteError(s) \/ Complete(s) \/ CompleteError(s)

-----------------------------------------------------------------------------
(* A route probe (probe_routes in route_probe.py) of `boards sync`, in any   *)
(* process: it reads the routes without metadata, awaits the providers, and *)
(* writes those that answered back as it read them, with their metadata.    *)

BeginProbe ==
    /\ probed = {} /\ probes > 0
    /\ probes' = probes - 1
    /\ \E read \in (SUBSET {sb \in DOMAIN routes : routes[sb] = "bare"}) \ {{}} : probed' = read
    /\ UNCHANGED returned

\* The row of the route's key, or one that has the key as this source's: which it
\* is depends on the order in which the table is read.
ProbeTargets(s, b) ==
    {b} \cup {x \in DOMAIN rows : s \in DOMAIN rows[x].emitted /\ rows[x].emitted[s] = b}

\* Those that matched, or the batches of them that were committed before a failure.
ApplyProbe ==
    /\ probed # {}
    /\ \E matched \in SUBSET probed : \E target \in [matched -> Boards] :
          LET written == {<<sb[1], target[sb]>> : sb \in matched} IN
          /\ \A sb \in matched : target[sb] \in ProbeTargets(sb[1], sb[2])
          /\ routes' = [sb \in DOMAIN routes |-> IF sb \in written THEN "ready" ELSE routes[sb]]
          /\ returned' = returned \cup {sb \in written : routes[sb] = "none"}
    /\ probed' = {}
    /\ UNCHANGED <<rows, synced, syncs, task, locals, outcome, main, accounting, probes>>

Sync ==
    \/ \E s \in Sources : Step(s)
    \/ BeginSync \/ Close \/ Interrupt \/ Crash
    \/ \E s \in Sources, b \in Boards : Deactivate(s, b)

Next ==
    \/ Sync /\ UNCHANGED probe
    \/ BeginProbe /\ UNCHANGED <<tables, syncs, task, locals, outcome, main, accounting>>
    \/ ApplyProbe

Spec == Init /\ [][Next]_vars

-----------------------------------------------------------------------------
(* Properties.                                                             *)

\* The entries that s lists with a hint.
Listed(s) == UNION {Hints(listing[s][i]) : i \in DOMAIN listing[s]}

\* The row b of the table stands for the board of the entry e: by its key or by its domain.
Hosts(table, b, e) == b = e.board \/ b \in SameDomain(table, e)

\* And for the board k that s lists: with the domain that some entry of k has.
Stands(s, b, k) ==
    \E i \in DOMAIN listing[s] : \E f \in ToSet(listing[s][i]) : f.board = k /\ Hosts(rows, b, f)

\* A source is fresh only when all of its listing is in the tables, and when the
\* routes it no longer lists are not, but for those that a route probe had read
\* before and wrote back whole, and unless it lists boards without a single hint of a
\* route, which deletes nothing (ingestion-integrity spec: "OpenOpps SHALL
\* advance source freshness only after the source iterator completes normally").
\* The accounting agrees: a source succeeded exactly when this sync made it fresh,
\* unless the process ended.
FreshIsComplete ==
    /\ \A s \in Sources : synced[s] = syncs /\ syncs > 0 =>
          /\ page[s] = Len(listing[s])
          /\ \A e \in Listed(s) :
                \E b \in DOMAIN rows : Stands(s, b, e.board) /\ routes[<<s, b>>] # "none"
          /\ Listed(s) # {} => \A b \in Boards : routes[<<s, b>>] # "none" =>
                <<s, b>> \in returned \/ \E e \in Listed(s) : Stands(s, b, e.board)
    /\ \A s \in Sources : outcome[s] = "succeeded" => synced[s] = syncs
    /\ accounting = "complete" => \A s \in Sources : synced[s] > 0
    /\ \A s \in Sources : outcome[s] \in Bad => synced[s] < syncs

\* No two rows have one domain, however the sources' pages interleave.
OneRowPerDomain ==
    \A a, b \in DOMAIN rows : rows[a].domain = rows[b].domain => a = b \/ rows[a].domain = NoDomain

\* Every route is on a row that exists and that names its source, also after a
\* page was written in part: exports attribute jobs by the sources of the row.
RoutesAttributed ==
    \A s \in Sources, b \in Boards :
        routes[<<s, b>>] # "none" => b \in DOMAIN rows /\ s \in DOMAIN rows[b].emitted

\* The board and route tables agree with each other and are well-typed.
TablesConsistent == TypeOK /\ OneRowPerDomain /\ RoutesAttributed

\* Routes are deleted only at the end of a listing; a listing without any hint deletes
\* none, and another leaves every board that it lists with a hint a route.
DeletesUnlisted ==
    \A s \in Sources, b \in Boards :
        routes[<<s, b>>] # "none" /\ routes'[<<s, b>>] = "none" =>
            /\ task[s] = "listing" /\ page[s] = Len(listing[s])
            /\ Listed(s) # {}
            /\ \A e \in Listed(s) :
                  \E a \in Boards \ {b} : Stands(s, a, e.board) /\ routes'[<<s, a>>] # "none"
DeletedWhenUnlisted == [][DeletesUnlisted]_vars
=============================================================================
