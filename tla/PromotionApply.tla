---------------------------- MODULE PromotionApply ----------------------------
(***************************************************************************)
(* Promotion of reviewed candidates into the repository                    *)
(* (src/src/openopps/discovery/promotion_runtime.py, promotion.py and the  *)
(* callers in promotion_closure.py).                                       *)
(*                                                                         *)
(* A decision is reserved in a ledger file, the maintainer commits the     *)
(* ledger, and the decision is applied: a journal keeps what every owned   *)
(* file was and will be, then the files are replaced one by one, the       *)
(* ledger among them.  A command may die before any write; what it leaves  *)
(* is finished or undone by recover.  Commands exclude each other by a     *)
(* file lock and refuse when the repository is not as their caller saw it. *)
(***************************************************************************)
EXTENDS Naturals, Sequences, FiniteSets

CONSTANTS
    Decision,       \* the decisions, each with one intent
    Process,        \* the maintainer's processes
    Tuple,          \* the HEAD and catalog a decision's intent is bound to
    Order,          \* the owned paths in the order they are installed
    Ledger,         \* the one that holds the ledger
    NewPaths,       \* the ones that do not exist at first
    DefaultOwned,   \* the ones that revoke looks at
    Absent,         \* the content of a file that does not exist
    Original,       \* the content of a file before any promotion
    ResolveFirst,   \* whether the maintainer recovers before anything else
    MaxCommands,    \* bound: commands
    MaxCrashes      \* bound: processes that die

Paths == {Order[i] : i \in DOMAIN Order}
Nobody == "nobody"

ASSUME PromotionAssumption ==
    /\ Order \in Seq(Paths)
    /\ Ledger \in Paths \ NewPaths /\ DefaultOwned \subseteq Paths
    /\ Nobody \notin Process
    /\ ResolveFirst \in BOOLEAN
    /\ MaxCommands \in Nat /\ MaxCrashes \in Nat

VARIABLES
    tree,           \* what is in each owned path
    temp,           \* the paths with a .promoting file beside them
    journal,        \* the recovery journal of each intent
    lock,           \* who holds the promotion lock
    cmd,            \* what each process is doing
    committed,      \* the ledger in the repository's history
    commands,       \* how many commands were started
    crashes         \* how many died

files == <<tree, temp, journal>>
bounds == <<commands, crashes>>
vars == <<files, lock, cmd, committed, bounds>>

NoJournal == [phase |-> "none"]
Idle == [stage |-> "idle"]
Ops == {"reserve", "apply", "revoke", "recover"}
Events == [decision : Decision, state : {"reserved", "applied", "revoked"}]
Working == {"locked", "prepared", "installing", "appending", "restoring", "revoking", "closing"}

Event(d, state) == [decision |-> d, state |-> state]

\* The state of a decision in a ledger.
Latest(ledger, d) ==
    LET marks == {n \in DOMAIN ledger : ledger[n].decision = d} IN
    IF marks = {} THEN "none" ELSE ledger[CHOOSE n \in marks : \A m \in marks : m <= n].state

Extends(ledger, prefix) ==
    Len(prefix) <= Len(ledger) /\ SubSeq(ledger, 1, Len(prefix)) = prefix

IsTree(t) ==
    /\ t = [path \in Paths |-> t[path]]
    /\ t[Ledger] \in Seq(Events)
    /\ \A path \in Paths \ {Ledger} : t[path] \in Decision \cup {Absent, Original}

\* A type invariant: the lock is held by the process that is at work.
TypeOK ==
    /\ IsTree(tree) /\ temp \subseteq Paths
    /\ \A d \in Decision : journal[d] # NoJournal =>
          /\ journal[d].phase \in {"prepared", "applying", "finalizing"}
          /\ IsTree(journal[d].before) /\ IsTree(journal[d].after)
    /\ \A p \in Process : cmd[p].stage \in {"idle", "asked"} \cup Working
    /\ \A p \in Process : lock = p <=> cmd[p].stage \in Working
    /\ committed \in Seq(Events)
    /\ commands \in 0 .. MaxCommands /\ crashes \in 0 .. MaxCrashes

Init ==
    /\ tree = [path \in Paths |->
          IF path = Ledger THEN <<>> ELSE IF path \in NewPaths THEN Absent ELSE Original]
    /\ temp = {}
    /\ journal = [d \in Decision |-> NoJournal]
    /\ lock = Nobody
    /\ cmd = [p \in Process |-> Idle]
    /\ committed = <<>>
    /\ commands = 0 /\ crashes = 0

-----------------------------------------------------------------------------
(* Starting a command.                                                     *)

\* What compare-and-swap looks at: the journals, the ledger and left-over files.
Seen(op) ==
    [journals |-> journal, ledger |-> tree[Ledger],
     clean |-> temp \cap (IF op = "revoke" THEN DefaultOwned ELSE Paths) = {}]

NoJournals == \A d \in Decision : journal[d] = NoJournal

\* The caller looks at the repository and calls; apply's looks at the history too.
Ask(p, op, d) ==
    /\ cmd[p] = Idle /\ commands < MaxCommands
    /\ op # "recover" => (ResolveFirst => NoJournals)
    /\ op = "apply" => committed # <<>> /\ committed[Len(committed)] = Event(d, "reserved")
    /\ cmd' = [cmd EXCEPT ![p] =
          [stage |-> "asked", op |-> op, decision |-> d, seen |-> Seen(op), known |-> committed]]
    /\ commands' = commands + 1
    /\ UNCHANGED <<files, lock, committed, crashes>>

Acquire(p) ==
    /\ cmd[p].stage = "asked" /\ lock = Nobody
    /\ lock' = p
    /\ cmd' = [cmd EXCEPT ![p].stage = "locked"]
    /\ UNCHANGED <<files, committed, bounds>>

\* The lock is not waited for.
Contended(p) ==
    /\ cmd[p].stage = "asked" /\ lock # Nobody
    /\ cmd' = [cmd EXCEPT ![p] = Idle]
    /\ UNCHANGED <<files, lock, committed, bounds>>

Release(p) == lock' = Nobody /\ cmd' = [cmd EXCEPT ![p] = Idle]

Locked(p, op) == cmd[p].stage = "locked" /\ cmd[p].op = op

\* Mutant: the repository is not looked at again under the lock.
Unchanged_Trusted(p) == TRUE

\* Nothing has changed since the caller looked, and nothing is left over.
Unchanged(p) == Seen(cmd[p].op) = cmd[p].seen /\ cmd[p].seen.clean

\* The decision is new, and no other reservation owns its HEAD and catalog.
Reservable(d) ==
    /\ Latest(tree[Ledger], d) = "none"
    /\ \A e \in Decision : Latest(tree[Ledger], e) = "reserved" => Tuple[e] # Tuple[d]

Allowed(p) ==
    LET d == cmd[p].decision
        ledger == tree[Ledger]
    IN  CASE cmd[p].op = "reserve" -> Unchanged(p) /\ ledger = cmd[p].known /\ Reservable(d)
          [] cmd[p].op = "apply" ->
                Unchanged(p) /\ ledger = cmd[p].known /\ Latest(ledger, d) = "reserved"
          [] cmd[p].op = "revoke" ->
                /\ Unchanged(p) /\ Extends(ledger, cmd[p].known)
                /\ Latest(ledger, d) \in {"reserved", "applied"}
          [] cmd[p].op = "recover" -> journal[d] # NoJournal

\* A check fails, or apply's generation or its wheel does, before anything is written.
Refused(p) ==
    /\ cmd[p].stage = "locked"
    /\ ~Allowed(p) \/ cmd[p].op = "apply"
    /\ Release(p)
    /\ UNCHANGED <<files, committed, bounds>>

-----------------------------------------------------------------------------
(* Writing.                                                                *)

Writes(content) == [i \in DOMAIN Order |-> [path |-> Order[i], content |-> content[Order[i]]]]
Appended(d, state) == [path |-> Ledger, content |-> Append(tree[Ledger], Event(d, state))]

Does(p, stage, todo) == cmd' = [cmd EXCEPT ![p].stage = stage, ![p].todo = todo]

Starts(p, stage, todo) ==
    cmd' = [cmd EXCEPT ![p] = [stage |-> stage, op |-> cmd[p].op, decision |-> cmd[p].decision,
                               known |-> cmd[p].known, todo |-> todo]]

\* A file is written beside the path, which it then replaces; a path that was
\* absent is removed.
Write(p) ==
    /\ cmd[p].stage \in {"installing", "appending", "restoring", "revoking"}
    /\ cmd[p].todo # <<>>
    /\ LET w == Head(cmd[p].todo)
           replaces == w.content = Absent \/ w.path \in temp
       IN  IF replaces
           THEN /\ tree' = [tree EXCEPT ![w.path] = w.content]
                /\ temp' = IF w.content = Absent THEN temp ELSE temp \ {w.path}
                /\ Does(p, cmd[p].stage, Tail(cmd[p].todo))
           ELSE temp' = temp \cup {w.path} /\ UNCHANGED <<tree, cmd>>
    /\ UNCHANGED <<journal, lock, committed, bounds>>

\* Mutant: the event is appended to the history that the caller passed.
AppendEvent_ToHistory(p) ==
    LET event == Event(cmd[p].decision, IF cmd[p].op = "reserve" THEN "reserved" ELSE "revoked") IN
    /\ Locked(p, "reserve") \/ Locked(p, "revoke")
    /\ Allowed(p)
    /\ Starts(p, "appending", <<[path |-> Ledger, content |-> Append(cmd[p].known, event)]>>)
    /\ UNCHANGED <<files, lock, committed, bounds>>

\* The ledger gets one event.
AppendEvent(p) ==
    /\ Locked(p, "reserve") \/ Locked(p, "revoke")
    /\ Allowed(p)
    /\ Starts(p, "appending",
              <<Appended(cmd[p].decision, IF cmd[p].op = "reserve" THEN "reserved" ELSE "revoked")>>)
    /\ UNCHANGED <<files, lock, committed, bounds>>

AppendEnds(p) ==
    /\ cmd[p].stage = "appending" /\ cmd[p].todo = <<>>
    /\ Release(p)
    /\ UNCHANGED <<files, committed, bounds>>

After(d) ==
    [path \in Paths |-> IF path = Ledger THEN Appended(d, "applied").content ELSE d]

\* The journal is written once everything is verified; then the files follow.
Prepare(p) ==
    LET d == cmd[p].decision IN
    /\ Locked(p, "apply") /\ Allowed(p)
    /\ journal' = [journal EXCEPT ![d] = [phase |-> "prepared", before |-> tree, after |-> After(d)]]
    /\ Starts(p, "prepared", Writes(After(d)))
    /\ UNCHANGED <<tree, temp, lock, committed, bounds>>

Install(p) ==
    /\ cmd[p].stage = "prepared"
    /\ journal' = [journal EXCEPT ![cmd[p].decision].phase = "applying"]
    /\ Does(p, "installing", cmd[p].todo)
    /\ UNCHANGED <<tree, temp, lock, committed, bounds>>

Installed(p) ==
    /\ cmd[p].stage = "installing" /\ cmd[p].todo = <<>>
    /\ journal' = [journal EXCEPT ![cmd[p].decision].phase = "finalizing"]
    /\ Does(p, "closing", <<>>)
    /\ UNCHANGED <<tree, temp, lock, committed, bounds>>

\* The journal is removed last.
CloseJournal(p) ==
    /\ cmd[p].stage = "closing"
    /\ journal' = [journal EXCEPT ![cmd[p].decision] = NoJournal]
    /\ Release(p)
    /\ UNCHANGED <<tree, temp, committed, bounds>>

-----------------------------------------------------------------------------
(* Recovery, and what happens to the repository.                           *)

\* Mutant: the ledger alone tells whether the decision was applied.
Complete_ByLedger(j) == tree[Ledger] = j.after[Ledger]

\* Every owned file is as it was going to be.
Complete(j) == tree = j.after

\* An application that is complete is finished, another is undone.
Recover(p) ==
    LET d == cmd[p].decision
        j == journal[d]
    IN
    /\ Locked(p, "recover") /\ Allowed(p)
    /\ IF Complete(j)
       THEN /\ journal' = [journal EXCEPT ![d].phase = "finalizing"]
            /\ Starts(p, "closing", <<>>)
       ELSE Starts(p, "restoring", Writes(j.before)) /\ UNCHANGED journal
    /\ UNCHANGED <<tree, temp, lock, committed, bounds>>

\* Mutant: the decision is not revoked.
Restored_NotRevoked(p) ==
    /\ cmd[p].stage = "restoring" /\ cmd[p].todo = <<>>
    /\ Does(p, "closing", <<>>)
    /\ UNCHANGED <<files, lock, committed, bounds>>

\* The decision is revoked, unless the ledger just restored misses some history.
Restored(p) ==
    LET d == cmd[p].decision
        ledger == tree[Ledger]
    IN
    /\ cmd[p].stage = "restoring" /\ cmd[p].todo = <<>>
    /\ IF ~Extends(ledger, cmd[p].known) THEN Release(p)
       ELSE IF Latest(ledger, d) \in {"none", "revoked"} THEN Does(p, "closing", <<>>) /\ UNCHANGED lock
       ELSE Does(p, "revoking", <<Appended(d, "revoked")>>) /\ UNCHANGED lock
    /\ UNCHANGED <<files, committed, bounds>>

Revoked(p) ==
    /\ cmd[p].stage = "revoking" /\ cmd[p].todo = <<>>
    /\ Does(p, "closing", <<>>)
    /\ UNCHANGED <<files, lock, committed, bounds>>

\* A process dies or raises, and its lock with it; the files stay.
Crash(p) ==
    /\ cmd[p].stage \in Working /\ crashes < MaxCrashes
    /\ Release(p)
    /\ crashes' = crashes + 1
    /\ UNCHANGED <<files, committed, commands>>

\* The decision whose files a ledger says are in the tree.
InTree(ledger) ==
    LET applied == {n \in DOMAIN ledger : ledger[n].state = "applied"} IN
    IF applied = {} THEN {} ELSE {ledger[CHOOSE n \in applied : \A m \in applied : m <= n].decision}

\* The owned files are the ones of the decision last applied, or none has changed.
Whole ==
    \A path \in Paths \ {Ledger} :
        IF InTree(tree[Ledger]) = {}
        THEN tree[path] = (IF path \in NewPaths THEN Absent ELSE Original)
        ELSE tree[path] \in InTree(tree[Ledger])

\* The maintainer commits the ledger, but never an application in part.
Commit ==
    LET ledger == tree[Ledger] IN
    /\ lock = Nobody /\ (ResolveFirst => NoJournals)
    /\ Extends(ledger, committed) /\ ledger # committed
    /\ ledger[Len(ledger)].state = "applied" => Whole
    /\ committed' = ledger
    /\ UNCHANGED <<files, lock, cmd, bounds>>

Step(p) ==
    \/ \E op \in Ops, d \in Decision : Ask(p, op, d)
    \/ Acquire(p) \/ Contended(p) \/ Refused(p)
    \/ AppendEvent(p) \/ AppendEnds(p) \/ Write(p)
    \/ Prepare(p) \/ Install(p) \/ Installed(p) \/ CloseJournal(p)
    \/ Recover(p) \/ Restored(p) \/ Revoked(p) \/ Crash(p)

Next == (\E p \in Process : Step(p)) \/ Commit

Spec == Init /\ [][Next]_vars

-----------------------------------------------------------------------------
(* Properties.                                                             *)

\* When no journal is left and no command runs, a promotion is in the tree as a
\* whole or not at all, and the ledger says which (source-discovery spec:
\* recovery "restores all exact preimages").
WholeOrNothing == TypeOK /\ (lock = Nobody /\ NoJournals => Whole)

\* An event that the history has is never missing from the ledger on disk, not
\* even while a recovery puts an earlier ledger back (source-discovery spec:
\* deletion of "an earlier ledger event fails closed").
CommittedStays == Extends(tree[Ledger], committed)

\* A journal goes away only when its decision is applied as a whole or revoked:
\* what was interrupted is never left reserved, to be applied again.
ResolvedIsFinal ==
    [][\A d \in Decision :
          journal[d] # NoJournal /\ journal'[d] = NoJournal =>
              \/ Latest(tree[Ledger], d) = "revoked"
              \/ Latest(tree[Ledger], d) = "applied" /\ Whole]_vars
=============================================================================
