--------------------------- MODULE KagglePublish ---------------------------
(***************************************************************************)
(* Publication of a staged bundle as one version of a Kaggle dataset          *)
(* (src/scripts/openopps_kaggle/publication.py).  A command records its plan  *)
(* in a ledger file, observes the version of the dataset, runs one command of *)
(* the Kaggle client that changes it, waits for the new version and reads it   *)
(* back; before each of these steps the ledger is read and written whole.      *)
(* Several commands may run at once, over one ledger and one dataset, and any   *)
(* of them may die.                                                             *)
(***************************************************************************)
EXTENDS Naturals, Sequences, FiniteSets, SequencesExt

CONSTANTS
    Publishers,   \* processes that run publish commands
    Bundles,      \* the contents that are staged
    Listed,       \* what of a bundle can be listed and downloaded again
    MaxEntries,   \* MAX_LEDGER_ENTRIES
    MaxExpected,  \* bound: versions that a plan may start from
    MaxCommands   \* bound: commands that are started

ASSUME KaggleAssumption ==
    /\ DOMAIN Listed = Bundles /\ Bundles # {}
    /\ MaxEntries \in Nat \ {0} /\ MaxExpected \in Nat /\ MaxCommands \in Nat

VARIABLES
    remote,      \* the versions of the dataset, never changed: what was published, by which plan
    ready,       \* what the status of the dataset says: its newest version is processed
    ledger,      \* the entries of the ledger file, the oldest first
    job,         \* the command that each publisher runs
    commands,    \* commands that were started
    overlapped   \* history: two commands have run at the same time

vars == <<remote, ready, ledger, job, commands, overlapped>>

\* plan_identity: a plan whose expected version is 0 creates the dataset.
Plans == [bundle : Bundles, expected : 0 .. MaxExpected]
Published(plan) == plan.expected + 1

Phases == {"staged", "preflight-verified", "mutated", "readback-verified",
           "preflight-failed", "readback-failed"}
Failures == {"preflight-failed", "readback-failed"}
Entries == [plan : Plans, phase : Phases]
Points == {"idle", "load", "save", "preflight", "mutate", "wait", "readback"}
Jobs == [pc : Points, plan : Plans, phase : Phases, execute : BOOLEAN, seen : Seq(Entries)]
Versions == [bundle : Bundles, plan : Plans, recorded : BOOLEAN]

NoJob == [pc |-> "idle", plan |-> [bundle |-> CHOOSE b \in Bundles : TRUE, expected |-> 0],
          phase |-> "staged", execute |-> FALSE, seen |-> <<>>]

\* Either nothing was ever published, or the create of some bundle was.
Init ==
    /\ \/ remote = <<>> /\ ledger = <<>>
       \/ \E plan \in Plans :
            /\ plan.expected = 0
            /\ remote = <<[bundle |-> plan.bundle, plan |-> plan, recorded |-> TRUE]>>
            /\ ledger = <<[plan |-> plan, phase |-> "readback-verified"]>>
    /\ ready = TRUE
    /\ job = [p \in Publishers |-> NoJob]
    /\ commands = 0
    /\ overlapped = FALSE

(***************************************************************************)
(* Helpers.                                                                   *)
(***************************************************************************)

\* A ledger that repeats a plan is not loaded (_load_ledger), so a plan has one entry at most.
Without(entries, plan) ==
    LET places == {i \in 1 .. Len(entries) : entries[i].plan = plan}
    IN  IF places = {} THEN entries ELSE RemoveAt(entries, CHOOSE i \in places : TRUE)

\* _upsert_ledger_entry: the entry replaces the one of its plan, goes to the end, and the
\* oldest entries beyond the limit are dropped.
Upserted(entries, entry) ==
    LET all == Append(Without(entries, entry.plan), entry)
    IN  SubSeq(all, (IF Len(all) > MaxEntries THEN Len(all) - MaxEntries ELSE 0) + 1, Len(all))

\* Where the command goes on when its entry is saved.
Continues(j) ==
    CASE j.phase = "staged" /\ ~j.execute -> "idle"
      [] j.phase = "staged" /\ j.execute ->
            IF j.plan.expected = 0 THEN "mutate" ELSE "preflight"
      [] j.phase = "preflight-verified" -> "mutate"
      [] j.phase = "mutated" -> "wait"
      [] OTHER -> "idle"

\* The handler of every exception: the phase that failed goes to the ledger.  An entry that
\* was read back does not pass its validation with another phase, and the handler raises.
Failed(j) ==
    IF j.phase = "readback-verified" THEN NoJob
    ELSE [j EXCEPT !.pc = "load",
                   !.phase = IF j.phase = "mutated" THEN "readback-failed" ELSE "preflight-failed"]

Advance(p, phase) == job' = [job EXCEPT ![p].pc = "load", ![p].phase = phase]
Fails(p) == job' = [job EXCEPT ![p] = Failed(@)]

(***************************************************************************)
(* A command.                                                                  *)
(***************************************************************************)

\* The operator publishes what is staged, or plans it only.
Begin(p, plan, execute) ==
    /\ job[p].pc = "idle" /\ commands < MaxCommands
    /\ job' = [job EXCEPT ![p] = [NoJob EXCEPT !.pc = "load", !.plan = plan, !.execute = execute]]
    /\ commands' = commands + 1
    /\ overlapped' = (overlapped \/ \E q \in Publishers \ {p} : job[q].pc # "idle")
    /\ UNCHANGED <<remote, ready, ledger>>

LoadLedger(p) ==
    /\ job[p].pc = "load"
    /\ job' = [job EXCEPT ![p].seen = ledger, ![p].pc = "save"]
    /\ UNCHANGED <<remote, ready, ledger, commands, overlapped>>

SaveLedger(p) ==
    LET j == job[p] IN
    /\ j.pc = "save"
    /\ ledger' = Upserted(j.seen, [plan |-> j.plan, phase |-> j.phase])
    /\ job' = [job EXCEPT ![p] = [@ EXCEPT !.pc = Continues(j), !.seen = <<>>]]
    /\ UNCHANGED <<remote, ready, commands, overlapped>>

\* The file cannot be read or replaced.  The first entry is written outside the handler,
\* and the entries of the handler itself are its last chance.
LedgerFails(p) ==
    /\ job[p].pc \in {"load", "save"}
    /\ \/ job[p].phase \in Failures \cup {"staged"} /\ job' = [job EXCEPT ![p] = NoJob]
       \/ job[p].phase \notin Failures \cup {"staged"} /\ Fails(p)
    /\ UNCHANGED <<remote, ready, ledger, commands, overlapped>>

\* Mutant: the preflight accepts any version that is ready.
StatusIs_Ready(version) == ready /\ Len(remote) >= version

\* _read_status and _require_status: exactly the version that the plan starts from, ready.
StatusIs(version) == ready /\ Len(remote) = version

Preflight(p) ==
    /\ job[p].pc = "preflight"
    /\ IF StatusIs(job[p].plan.expected) THEN Advance(p, "preflight-verified") ELSE Fails(p)
    /\ UNCHANGED <<remote, ready, ledger, commands, overlapped>>

\* External: the dataset takes the bundle as its next version; a dataset is created once.
\* Until it is processed its status is not ready.
Accepts(plan) ==
    /\ (plan.expected = 0) <=> (remote = <<>>)
    /\ remote' = Append(remote, [bundle |-> plan.bundle, plan |-> plan,
                                 recorded |-> \E i \in 1 .. Len(ledger) : ledger[i].plan = plan])
    /\ ready' = FALSE

\* The one command that changes the dataset.  It may take effect and yet fail or time out,
\* and it may say that it succeeded without having taken effect.
Mutate(p) ==
    /\ job[p].pc = "mutate"
    /\ Accepts(job[p].plan) \/ UNCHANGED <<remote, ready>>
    /\ Advance(p, "mutated") \/ Fails(p)
    /\ UNCHANGED <<ledger, commands, overlapped>>

\* _wait_for_version: polls until the version is ready, has been passed, or the time is up.
Arrived(p) ==
    /\ job[p].pc = "wait" /\ StatusIs(Published(job[p].plan))
    /\ job' = [job EXCEPT ![p].pc = "readback"]
    /\ UNCHANGED <<remote, ready, ledger, commands, overlapped>>

Overtaken(p) ==
    /\ job[p].pc = "wait" /\ Len(remote) > Published(job[p].plan)
    /\ Fails(p)
    /\ UNCHANGED <<remote, ready, ledger, commands, overlapped>>

\* Mutant: the wait has no deadline once there is a version to look at.
WaitTimesOut_Never(p) ==
    /\ job[p].pc = "wait" /\ remote = <<>>
    /\ Fails(p)
    /\ UNCHANGED <<remote, ready, ledger, commands, overlapped>>

WaitTimesOut(p) ==
    /\ job[p].pc = "wait" /\ ~StatusIs(Published(job[p].plan))
    /\ Fails(p)
    /\ UNCHANGED <<remote, ready, ledger, commands, overlapped>>

\* Mutant: the version number is taken as proof of the contents.
Matches_Number(plan) == Published(plan) <= Len(remote)

\* verify_remote_readback: the files of that immutable version, without the control files that
\* the service neither lists nor returns, are those of the bundle.
Matches(plan) ==
    /\ Published(plan) <= Len(remote)
    /\ Listed[remote[Published(plan)].bundle] = Listed[plan.bundle]

Readback(p) ==
    /\ job[p].pc = "readback"
    /\ IF Matches(job[p].plan) THEN Advance(p, "readback-verified") ELSE Fails(p)
    /\ UNCHANGED <<remote, ready, ledger, commands, overlapped>>

\* A call of the client fails or times out, or the stage changed while it was copied.
CallFails(p) ==
    /\ \/ job[p].pc \in {"preflight", "wait", "readback"}
       \/ job[p].pc = "mutate" /\ job[p].phase = "staged"
    /\ Fails(p)
    /\ UNCHANGED <<remote, ready, ledger, commands, overlapped>>

\* The process dies, is interrupted, or finds no credentials.
Stops(p) ==
    /\ job[p].pc # "idle"
    /\ job' = [job EXCEPT ![p] = NoJob]
    /\ UNCHANGED <<remote, ready, ledger, commands, overlapped>>

\* External: the service has processed the newest version.
Processed ==
    /\ ~ready
    /\ ready' = TRUE
    /\ UNCHANGED <<remote, ledger, job, commands, overlapped>>

Step(p) ==
    \/ LoadLedger(p) \/ SaveLedger(p) \/ Preflight(p) \/ Mutate(p)
    \/ Arrived(p) \/ Overtaken(p) \/ WaitTimesOut(p) \/ Readback(p)

Next ==
    \/ \E p \in Publishers :
        \/ \E plan \in Plans, execute \in BOOLEAN : Begin(p, plan, execute)
        \/ Step(p) \/ LedgerFails(p) \/ CallFails(p) \/ Stops(p)
    \/ Processed

\* Every call has a timeout and the wait has a deadline; nothing obliges the service to finish.
Spec == Init /\ [][Next]_vars /\ \A p \in Publishers : WF_vars(Step(p))

(***************************************************************************)
(* Properties.                                                                 *)
(***************************************************************************)

TypeOK ==
    /\ remote \in Seq(Versions)
    /\ ready \in BOOLEAN
    /\ ledger \in Seq(Entries) /\ Len(ledger) <= MaxEntries
    /\ job \in [Publishers -> Jobs]
    /\ commands \in 0 .. MaxCommands /\ overlapped \in BOOLEAN

Occurs(entries, plan, phases) ==
    \E i \in 1 .. Len(entries) : entries[i].plan = plan /\ entries[i].phase \in phases

\* What the ledger calls verified is there: that version of the dataset returns exactly the
\* files of the bundle, whoever else publishes, loses ledger entries or dies in between
\* (prepare_publication, verify_remote_readback); and the ledger has one entry for a plan.
VerifiedIsPublished ==
    /\ TypeOK
    /\ \A plan \in Plans : Occurs(ledger, plan, {"readback-verified"}) =>
        /\ plan.expected < Len(remote)
        /\ Listed[remote[plan.expected + 1].bundle] = Listed[plan.bundle]
    /\ \A i, k \in 1 .. Len(ledger) : ledger[i].plan = ledger[k].plan => i = k

\* As long as commands do not overlap, every version of the dataset is the one its plan named
\* and was recorded with the version to roll back to before it was published: a command that
\* is repeated after a failure, at any step of it, publishes nothing twice.
PublishedAsPlanned ==
    ~overlapped => \A v \in 1 .. Len(remote) :
        Published(remote[v].plan) = v /\ remote[v].recorded

\* A command ends, although the service may never finish processing what it was given.
CommandEnds == \A p \in Publishers : job[p].pc # "idle" ~> job[p].pc = "idle"
=============================================================================
