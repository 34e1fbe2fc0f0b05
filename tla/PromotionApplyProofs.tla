------------------------- MODULE PromotionApplyProofs -------------------------
(***************************************************************************)
(* Proofs about PromotionApply, for any decisions, processes and owned     *)
(* paths, any number of commands and of deaths, when the maintainer        *)
(* recovers before anything else.                                          *)
(***************************************************************************)
EXTENDS PromotionApply, WellFoundedInduction, TLAPS

Pending(d) == journal[d] # NoJournal
Writing == {"prepared", "installing", "appending", "restoring", "revoking", "closing"}

\* What is still to be written.
Contents == Seq(Events) \cup Decision \cup {Absent, Original}
Writings == [path : Paths, content : Contents]
Fits(w) ==
    IF w.path = Ledger THEN w.content \in Seq(Events)
    ELSE w.content \in Decision \cup {Absent, Original}

Planned(todo) == todo \in Seq(Writings) /\ \A n \in DOMAIN todo : Fits(todo[n])

\* The fields of a command.
Shaped(c) ==
    /\ c.stage # "idle" => c.op \in Ops /\ c.decision \in Decision
    /\ c.stage \in {"asked", "locked"} => "stage" \in DOMAIN c
    /\ c.stage \in Writing =>
          /\ {"stage", "todo"} \subseteq DOMAIN c
          /\ Planned(c.todo)

Types ==
    /\ TypeOK
    /\ DOMAIN cmd = Process /\ \A p \in Process : Shaped(cmd[p])
    /\ DOMAIN journal = Decision
    /\ \A d \in Decision : Pending(d) => DOMAIN journal[d] = {"phase", "before", "after"}

\* Nothing that is in a file, in a journal or still to be written misses an event of the
\* history.
KeepsHistory(todo) ==
    \A n \in DOMAIN todo : todo[n].path = Ledger => Extends(todo[n].content, committed)

Kept ==
    /\ CommittedStays
    /\ \A d \in Decision : Pending(d) =>
          Extends(journal[d].before[Ledger], committed) /\ Extends(journal[d].after[Ledger], committed)
    /\ \A p \in Process : cmd[p].stage \in Writing => KeepsHistory(cmd[p].todo)

\* A tree that holds a promotion as a whole or none.
WholeTree(t) ==
    \A path \in Paths \ {Ledger} :
        IF InTree(t[Ledger]) = {}
        THEN t[path] = (IF path \in NewPaths THEN Absent ELSE Original)
        ELSE t[path] \in InTree(t[Ledger])

\* One decision at most is being applied.  Its journal has the tree it was reserved in,
\* as a whole, and the tree with its promotion.
OneJournal ==
    /\ \A d, e \in Decision : Pending(d) /\ Pending(e) => d = e
    /\ \A d \in Decision : Pending(d) =>
          /\ WholeTree(journal[d].before) /\ Latest(journal[d].before[Ledger], d) = "reserved"
          /\ journal[d].after[Ledger] = Append(journal[d].before[Ledger], Event(d, "applied"))
          /\ \A path \in Paths \ {Ledger} : journal[d].after[path] = d

\* What is not as in t will be written.
Leads(todo, t) ==
    /\ \A path \in Paths : tree[path] = t[path] \/ \E n \in DOMAIN todo : todo[n].path = path
    /\ \A n \in DOMAIN todo : todo[n].content = t[todo[n].path]

\* The decision is applied as a whole, or revoked.
Resolved(d) ==
    \/ Latest(tree[Ledger], d) = "revoked"
    \/ Latest(tree[Ledger], d) = "applied" /\ Whole

\* What the one that is at work will leave behind.
Underway(p) ==
    LET d == cmd[p].decision
        todo == cmd[p].todo
    IN
    /\ cmd[p].stage \in Writing => (cmd[p].stage = "appending" <=> ~Pending(d))
    /\ cmd[p].stage = "appending" =>
          /\ NoJournals
          /\ \/ todo = <<>>
             \/ \E state \in {"reserved", "revoked"} : todo = <<Appended(d, state)>>
    /\ cmd[p].stage \in {"prepared", "installing"} => Leads(todo, journal[d].after)
    /\ cmd[p].stage = "restoring" => Leads(todo, journal[d].before)
    /\ cmd[p].stage = "revoking" =>
          /\ Whole
          /\ \/ todo = <<>> /\ Resolved(d)
             \/ todo = <<Appended(d, "revoked")>>
    /\ cmd[p].stage = "closing" => Whole /\ Resolved(d)

\* A command that is not a recovery was called when no journal was left.
CalledClean ==
    \A p \in Process :
        cmd[p].stage \in {"asked", "locked"} /\ cmd[p].op # "recover" =>
            \A d \in Decision : cmd[p].seen.journals[d] = NoJournal

Settled == NoJournals => Whole

Control == OneJournal /\ CalledClean /\ Settled /\ \A p \in Process : Underway(p)

IInv == Types /\ Kept /\ Control

-----------------------------------------------------------------------------
(* Ledgers.                                                                *)

\* What is taken off a sequence, and what is left.
LEMMA Taken ==
    ASSUME NEW S, NEW s \in Seq(S), s # <<>>
    PROVE  /\ Head(s) = s[1] /\ 1 \in DOMAIN s /\ Tail(s) \in Seq(S)
           /\ \A n \in DOMAIN Tail(s) : n + 1 \in DOMAIN s /\ Tail(s)[n] = s[n + 1]
           /\ \A n \in DOMAIN s : n = 1 \/ \E m \in DOMAIN Tail(s) : Tail(s)[m] = s[n]
<1>1. Len(s) \in Nat \ {0} /\ DOMAIN s = 1 .. Len(s)
  OBVIOUS
<1>2. /\ Tail(s) \in Seq(S) /\ Len(Tail(s)) = Len(s) - 1 /\ DOMAIN Tail(s) = 1 .. Len(Tail(s))
      /\ \A n \in 1 .. Len(s) - 1 : Tail(s)[n] = s[n + 1]
  OBVIOUS
<1>3. ASSUME NEW n \in DOMAIN s, n # 1
      PROVE  \E m \in DOMAIN Tail(s) : Tail(s)[m] = s[n]
  <2>1. n - 1 \in 1 .. Len(s) - 1 /\ (n - 1) + 1 = n
    BY <1>1, <1>3
  <2> QED
    BY <2>1, <1>2
<1>4. Head(s) = s[1] /\ 1 \in DOMAIN s
  BY <1>1
<1>5. \A n \in DOMAIN Tail(s) : n + 1 \in DOMAIN s /\ Tail(s)[n] = s[n + 1]
  BY <1>1, <1>2
<1> QED
  BY <1>2, <1>3, <1>4, <1>5

\* A ledger extends itself.
LEMMA ExtendsItself ==
    ASSUME NEW s \in Seq(Events)
    PROVE  Extends(s, s)
BY DEF Extends

\* A ledger that extends a history still does with one more event.
LEMMA ExtendsFurther ==
    ASSUME NEW s \in Seq(Events), NEW c \in Seq(Events), NEW e \in Events, Extends(s, c)
    PROVE  Extends(Append(s, e), c)
<1>1. Len(c) \in Nat /\ Len(s) \in Nat /\ Len(c) <= Len(s) /\ SubSeq(s, 1, Len(c)) = c
  BY DEF Extends
<1>2. Len(Append(s, e)) = Len(s) + 1 /\ \A n \in 1 .. Len(s) : Append(s, e)[n] = s[n]
  OBVIOUS
<1>3. SubSeq(Append(s, e), 1, Len(c)) = SubSeq(s, 1, Len(c))
  BY <1>1, <1>2
<1> QED
  BY <1>1, <1>2, <1>3 DEF Extends

\* A ledger with one more event: where each event stands.
LEMMA Appending ==
    ASSUME NEW s \in Seq(Events), NEW e \in Events
    PROVE  /\ Append(s, e) \in Seq(Events) /\ Len(s) \in Nat
           /\ DOMAIN s = 1 .. Len(s) /\ DOMAIN Append(s, e) = 1 .. Len(s) + 1
           /\ Append(s, e)[Len(s) + 1] = e
           /\ \A n \in 1 .. Len(s) : Append(s, e)[n] = s[n]
OBVIOUS

\* The last event of a decision is its state.
LEMMA LatestAppended ==
    ASSUME NEW s \in Seq(Events), NEW d \in Decision, NEW state, Event(d, state) \in Events
    PROVE  Latest(Append(s, Event(d, state)), d) = state
<1> DEFINE more == Append(s, Event(d, state))
           marks == {n \in DOMAIN more : more[n].decision = d}
           last == CHOOSE n \in marks : \A m \in marks : m <= n
<1>1. /\ DOMAIN more = 1 .. Len(s) + 1 /\ Len(s) \in Nat
      /\ more[Len(s) + 1] = Event(d, state)
  BY Appending
<1>2. Len(s) + 1 \in marks /\ \A m \in marks : m \in Nat /\ m <= Len(s) + 1
  BY <1>1 DEF Event
<1>3. last \in marks /\ \A m \in marks : m <= last
  BY <1>2
<1>4. last = Len(s) + 1
  BY <1>1, <1>2, <1>3
<1>5. Latest(more, d) = more[last].state
  BY <1>2 DEF Latest
<1> QED
  BY <1>1, <1>4, <1>5 DEF Event

\* A set of places has a last one.
LEMMA LastPlace ==
    ASSUME NEW k \in Nat, NEW S \in SUBSET (1 .. k), S # {}
    PROVE  \E n \in S : \A m \in S : m <= n
<1> DEFINE Back == {k - n : n \in S}
<1>1. Back \subseteq Nat /\ Back # {}
  <2>1. \A n \in S : n \in Nat /\ n <= k
    OBVIOUS
  <2>2. \A n \in S : k - n \in Nat
    BY <2>1
  <2> QED
    BY <2>2
<1>2. PICK b \in Back : \A c \in Back : ~(<<c, b>> \in OpToRel(<, Nat))
  <2> HIDE DEF Back
  <2> QED
    BY <1>1, WFMin, NatLessThanWellFounded
<1>3. PICK n \in S : b = k - n
  OBVIOUS
<1>4. ASSUME NEW m \in S PROVE m <= n
  <2>1. k - m \in Back /\ k - m \in Nat /\ k - n \in Nat /\ m \in Nat /\ n \in Nat
    OBVIOUS
  <2>2. ~(k - m < k - n)
    BY <1>1, <1>2, <1>3, <2>1 DEF OpToRel
  <2> QED
    BY <2>1, <2>2
<1> QED
  BY <1>4

\* An application puts its decision in the tree.
LEMMA InTreeApplied ==
    ASSUME NEW s \in Seq(Events), NEW d \in Decision
    PROVE  InTree(Append(s, Event(d, "applied"))) = {d}
<1> DEFINE more == Append(s, Event(d, "applied"))
           applied == {n \in DOMAIN more : more[n].state = "applied"}
           last == CHOOSE n \in applied : \A m \in applied : m <= n
<1>0. Event(d, "applied") \in Events
  BY DEF Event, Events
<1>1. /\ DOMAIN more = 1 .. Len(s) + 1 /\ Len(s) \in Nat
      /\ more[Len(s) + 1] = Event(d, "applied")
  BY <1>0, Appending
<1>2. Len(s) + 1 \in applied /\ \A m \in applied : m \in Nat /\ m <= Len(s) + 1
  BY <1>1 DEF Event
<1>3. last \in applied /\ \A m \in applied : m <= last
  BY <1>2
<1>4. last = Len(s) + 1
  BY <1>1, <1>2, <1>3
<1>5. InTree(more) = {more[last].decision}
  BY <1>2 DEF InTree
<1>6. more[last].decision = d
  BY <1>1, <1>4 DEF Event
<1> QED
  BY <1>5, <1>6

\* Another event does not change what is in the tree.
LEMMA InTreeOther ==
    ASSUME NEW s \in Seq(Events), NEW e \in Events, e.state # "applied"
    PROVE  InTree(Append(s, e)) = InTree(s)
<1> DEFINE more == Append(s, e)
           Applied(t) == {n \in DOMAIN t : t[n].state = "applied"}
           last == CHOOSE n \in Applied(s) : \A m \in Applied(s) : m <= n
<1>1. /\ DOMAIN s = 1 .. Len(s) /\ Len(s) \in Nat /\ DOMAIN more = 1 .. Len(s) + 1
      /\ more[Len(s) + 1] = e /\ \A n \in 1 .. Len(s) : more[n] = s[n]
  BY Appending
<1>2. Applied(more) = Applied(s)
  BY <1>1
<1>3. CASE Applied(s) = {}
  BY <1>2, <1>3 DEF InTree
<1>4. CASE Applied(s) # {}
  <2>1. \E n \in Applied(s) : \A m \in Applied(s) : m <= n
    <3>1. Applied(s) \in SUBSET (1 .. Len(s))
      BY <1>1
    <3> HIDE DEF Applied
    <3> QED
      BY <1>1, <1>4, <3>1, LastPlace
  <2>2. last \in Applied(s)
    BY <2>1
  <2>3. more[last] = s[last]
    BY <1>1, <2>2
  <2>4. InTree(s) = {s[last].decision}
    BY <1>4 DEF InTree
  <2>5. InTree(more) = {more[last].decision}
    BY <1>2, <1>4 DEF InTree
  <2> QED
    BY <2>3, <2>4, <2>5
<1> QED
  BY <1>3, <1>4

-----------------------------------------------------------------------------
(* Commands.                                                               *)

\* One process is at work.
LEMMA Alone ==
    ASSUME Types, NEW p \in Process, NEW q \in Process,
           cmd[p].stage \in Working, cmd[q].stage \in Working
    PROVE  p = q
BY DEF Types, TypeOK

\* A command that goes on changes its stage and what it still writes.
LEMMA Going ==
    ASSUME Types, NEW p \in Process, cmd[p].stage \in Writing, NEW stage, NEW todo,
           Does(p, stage, todo)
    PROVE  /\ DOMAIN cmd' = Process /\ \A q \in Process \ {p} : cmd'[q] = cmd[q]
           /\ cmd'[p].stage = stage /\ cmd'[p].todo = todo
           /\ cmd'[p].op = cmd[p].op /\ cmd'[p].decision = cmd[p].decision
           /\ DOMAIN cmd'[p] = DOMAIN cmd[p]
<1>1. DOMAIN cmd = Process /\ {"stage", "todo"} \subseteq DOMAIN cmd[p]
  BY DEF Types, Shaped
<1> QED
  BY <1>1 DEF Does

\* A command that starts to write.
LEMMA Starting ==
    ASSUME Types, NEW p \in Process, NEW stage, NEW todo, Starts(p, stage, todo)
    PROVE  /\ DOMAIN cmd' = Process /\ \A q \in Process \ {p} : cmd'[q] = cmd[q]
           /\ cmd'[p].stage = stage /\ cmd'[p].todo = todo
           /\ cmd'[p].op = cmd[p].op /\ cmd'[p].decision = cmd[p].decision
           /\ {"stage", "todo"} \subseteq DOMAIN cmd'[p]
BY DEF Starts, Types

\* A command that ends.
LEMMA Ending ==
    ASSUME Types, NEW p \in Process, cmd' = [cmd EXCEPT ![p] = Idle]
    PROVE  /\ DOMAIN cmd' = Process /\ \A q \in Process \ {p} : cmd'[q] = cmd[q]
           /\ cmd'[p].stage = "idle"
BY DEF Types, Idle

\* The plan to write a tree.
LEMMA WholePlan ==
    ASSUME NEW t, IsTree(t)
    PROVE  /\ Planned(Writes(t))
           /\ \A n \in DOMAIN Writes(t) : Writes(t)[n].content = t[Writes(t)[n].path]
           /\ \A path \in Paths : \E n \in DOMAIN Writes(t) : Writes(t)[n].path = path
<1>1. Order \in Seq(Paths) /\ DOMAIN Order = 1 .. Len(Order) /\ Len(Order) \in Nat
  BY PromotionAssumption
<1>2. ASSUME NEW n \in DOMAIN Order
      PROVE  /\ Writes(t)[n] = [path |-> Order[n], content |-> t[Order[n]]]
             /\ Order[n] \in Paths /\ t[Order[n]] \in Contents
             /\ Fits(Writes(t)[n]) /\ Writes(t)[n] \in Writings
             /\ Writes(t)[n].content = t[Writes(t)[n].path]
  <2>1. Order[n] \in Paths
    BY DEF Paths
  <2>2. Writes(t)[n] = [path |-> Order[n], content |-> t[Order[n]]]
    BY DEF Writes
  <2>3. /\ Order[n] = Ledger => t[Order[n]] \in Seq(Events)
        /\ Order[n] # Ledger => t[Order[n]] \in Decision \cup {Absent, Original}
    BY <2>1 DEF IsTree
  <2>4. Fits(Writes(t)[n])
    BY <2>2, <2>3 DEF Fits
  <2>5. t[Order[n]] \in Contents
    BY <2>3 DEF Contents
  <2>6. Writes(t)[n] \in Writings
    BY <2>1, <2>2, <2>5 DEF Writings
  <2>7. Writes(t)[n].content = t[Writes(t)[n].path]
    BY <2>2
  <2> QED
    BY <2>1, <2>2, <2>3, <2>4, <2>5, <2>6, <2>7
<1>3. DOMAIN Writes(t) = DOMAIN Order
  BY DEF Writes
<1>4. \A n \in DOMAIN Order : Writes(t)[n] \in Writings
  BY <1>2
<1>5. Writes(t) \in Seq(Writings)
  <2>1. Writes(t) \in [1 .. Len(Order) -> Writings]
    BY <1>1, <1>4 DEF Writes
  <2> QED
    BY <1>1, <2>1
<1>6. ASSUME NEW path \in Paths PROVE \E n \in DOMAIN Writes(t) : Writes(t)[n].path = path
  BY <1>2, <1>3 DEF Paths
<1>7. \A n \in DOMAIN Order : Writes(t)[n].content = t[Writes(t)[n].path]
  BY <1>2
<1> QED
  BY <1>2, <1>3, <1>5, <1>6, <1>7 DEF Planned

\* The plan to append an event.
LEMMA LedgerPlan ==
    ASSUME Types, NEW d \in Decision, NEW state \in {"reserved", "applied", "revoked"}
    PROVE  /\ Planned(<<Appended(d, state)>>)
           /\ Appended(d, state).content \in Seq(Events) /\ Event(d, state) \in Events
<1>1. Event(d, state) \in Events /\ tree[Ledger] \in Seq(Events)
  BY DEF Event, Events, Types, TypeOK, IsTree
<1>2. /\ Appended(d, state).path = Ledger /\ Appended(d, state).content \in Seq(Events)
      /\ Appended(d, state) \in Writings
  BY <1>1, PromotionAssumption DEF Appended, Writings, Contents
<1> QED
  BY <1>1, <1>2 DEF Fits, Planned

\* Nothing is left to be written.
LEMMA NothingPlanned == Planned(<<>>)
<1>1. <<>> \in Seq(Writings) /\ DOMAIN <<>> = {}
  OBVIOUS
<1> QED
  BY <1>1 DEF Planned

\* The tree that an application installs.
LEMMA AfterIsTree ==
    ASSUME Types, NEW d \in Decision
    PROVE  /\ IsTree(After(d))
           /\ After(d)[Ledger] = Append(tree[Ledger], Event(d, "applied"))
           /\ \A path \in Paths \ {Ledger} : After(d)[path] = d
<1>1. Appended(d, "applied").content \in Seq(Events)
  BY LedgerPlan
<1>2. Appended(d, "applied").content = Append(tree[Ledger], Event(d, "applied"))
  BY DEF Appended
<1> QED
  BY <1>1, <1>2, PromotionAssumption DEF After, IsTree

-----------------------------------------------------------------------------
(* Types.                                                                  *)

LEMMA InitTypes == Init => Types
<1> SUFFICES ASSUME Init PROVE Types
  OBVIOUS
<1> USE PromotionAssumption
<1>1. IsTree(tree)
  BY DEF Init, IsTree
<1>2. TypeOK
  BY <1>1 DEF Init, TypeOK, Idle, Working
<1> QED
  BY <1>2 DEF Init, Types, Shaped, Idle, Writing, Pending

\* A command that goes on, or stops, keeps its shape, and the others theirs.
LEMMA CommandTypes ==
    ASSUME Types, NEW p \in Process, DOMAIN cmd' = Process,
           \A q \in Process \ {p} : cmd'[q] = cmd[q],
           cmd'[p].stage \in {"idle", "asked"} \cup Working, Shaped(cmd'[p]),
           \/ lock' = lock /\ (cmd[p].stage \in Working <=> cmd'[p].stage \in Working)
           \/ lock' = Nobody /\ cmd[p].stage \in Working /\ cmd'[p].stage \notin Working
           \/ lock = Nobody /\ lock' = p /\ cmd'[p].stage \in Working
    PROVE  /\ \A q \in Process : cmd'[q].stage \in {"idle", "asked"} \cup Working
           /\ \A q \in Process : lock' = q <=> cmd'[q].stage \in Working
           /\ \A q \in Process : Shaped(cmd'[q])
<1> USE PromotionAssumption
<1>1. \A q \in Process : Shaped(cmd[q])
  BY DEF Types
<1>2. \A q \in Process : cmd[q].stage \in {"idle", "asked"} \cup Working
  BY DEF Types, TypeOK
<1>3. \A q \in Process : lock = q <=> cmd[q].stage \in Working
  BY DEF Types, TypeOK
<1> QED
  BY <1>1, <1>2, <1>3

\* A step of a process that leaves the journals.
LEMMA CommandStep ==
    ASSUME Types, NEW p \in Process, DOMAIN cmd' = Process,
           \A q \in Process \ {p} : cmd'[q] = cmd[q],
           cmd'[p].stage \in {"idle", "asked"} \cup Working, Shaped(cmd'[p]),
           \/ lock' = lock /\ (cmd[p].stage \in Working <=> cmd'[p].stage \in Working)
           \/ lock' = Nobody /\ cmd[p].stage \in Working /\ cmd'[p].stage \notin Working
           \/ lock = Nobody /\ lock' = p /\ cmd'[p].stage \in Working,
           IsTree(tree'), temp' \subseteq Paths, UNCHANGED <<journal, committed>>,
           commands' \in 0 .. MaxCommands, crashes' \in 0 .. MaxCrashes
    PROVE  Types'
<1>1. /\ \A q \in Process : cmd'[q].stage \in {"idle", "asked"} \cup Working
      /\ \A q \in Process : lock' = q <=> cmd'[q].stage \in Working
      /\ \A q \in Process : Shaped(cmd'[q])
  BY CommandTypes
<1>2. TypeOK'
  BY <1>1 DEF Types, TypeOK
<1> QED
  BY <1>1, <1>2 DEF Types, Pending

\* A step of a process that changes a journal.
LEMMA JournalStep ==
    ASSUME Types, NEW p \in Process, DOMAIN cmd' = Process,
           \A q \in Process \ {p} : cmd'[q] = cmd[q],
           cmd'[p].stage \in {"idle", "asked"} \cup Working, Shaped(cmd'[p]),
           \/ lock' = lock /\ (cmd[p].stage \in Working <=> cmd'[p].stage \in Working)
           \/ lock' = Nobody /\ cmd[p].stage \in Working /\ cmd'[p].stage \notin Working,
           UNCHANGED <<tree, temp, committed, bounds>>,
           NEW d \in Decision, NEW j, journal' = [journal EXCEPT ![d] = j],
           \/ j = NoJournal
           \/ /\ DOMAIN j = {"phase", "before", "after"}
              /\ j.phase \in {"prepared", "applying", "finalizing"}
              /\ IsTree(j.before) /\ IsTree(j.after)
    PROVE  Types'
<1>1. /\ \A q \in Process : cmd'[q].stage \in {"idle", "asked"} \cup Working
      /\ \A q \in Process : lock' = q <=> cmd'[q].stage \in Working
      /\ \A q \in Process : Shaped(cmd'[q])
  BY CommandTypes
<1>2. /\ DOMAIN journal' = Decision /\ journal'[d] = j
      /\ \A e \in Decision \ {d} : journal'[e] = journal[e]
  BY DEF Types
<1>3. \A e \in Decision : journal'[e] # NoJournal =>
         /\ DOMAIN journal'[e] = {"phase", "before", "after"}
         /\ journal'[e].phase \in {"prepared", "applying", "finalizing"}
         /\ IsTree(journal'[e].before) /\ IsTree(journal'[e].after)
  BY <1>2 DEF Types, TypeOK, Pending
<1>4. TypeOK'
  BY <1>1, <1>3 DEF Types, TypeOK, bounds
<1> QED
  BY <1>1, <1>2, <1>3, <1>4 DEF Types, Pending

\* The phase of a journal.
LEMMA Phased ==
    ASSUME Types, NEW d \in Decision, Pending(d),
           NEW phase \in {"prepared", "applying", "finalizing"}
    PROVE  \E j :
              /\ [journal EXCEPT ![d].phase = phase] = [journal EXCEPT ![d] = j]
              /\ DOMAIN j = {"phase", "before", "after"} /\ j.phase = phase
              /\ j.before = journal[d].before /\ j.after = journal[d].after
              /\ IsTree(j.before) /\ IsTree(j.after)
<1> DEFINE j == [journal[d] EXCEPT !.phase = phase]
<1>1. DOMAIN journal[d] = {"phase", "before", "after"}
  BY DEF Types
<1>2. /\ DOMAIN j = {"phase", "before", "after"} /\ j.phase = phase
      /\ j.before = journal[d].before /\ j.after = journal[d].after
  BY <1>1
<1>3. [journal EXCEPT ![d].phase = phase] = [journal EXCEPT ![d] = j]
  OBVIOUS
<1>4. IsTree(journal[d].before) /\ IsTree(journal[d].after)
  BY DEF Types, TypeOK, Pending
<1> QED
  BY <1>2, <1>3, <1>4

\* A step of a process keeps the types.
LEMMA StepTypes ==
    ASSUME Types, NEW p \in Process, Underway(p), Step(p)
    PROVE  Types'
<1> USE PromotionAssumption
<1>0. /\ IsTree(tree) /\ temp \subseteq Paths /\ Shaped(cmd[p])
      /\ commands \in 0 .. MaxCommands /\ crashes \in 0 .. MaxCrashes
      /\ DOMAIN cmd = Process /\ DOMAIN journal = Decision
      /\ cmd[p].stage \in {"idle", "asked"} \cup Working
  BY DEF Types, TypeOK
<1>a. ASSUME cmd' = [cmd EXCEPT ![p] = Idle]
      PROVE  Shaped(cmd'[p]) /\ cmd'[p].stage = "idle"
  BY <1>0, <1>a, Ending DEF Shaped, Writing
<1>1. ASSUME NEW op \in Ops, NEW d \in Decision, Ask(p, op, d) PROVE Types'
  <2>1. /\ cmd[p] = Idle /\ commands' \in 0 .. MaxCommands
        /\ UNCHANGED <<files, lock, committed, crashes>>
    BY <1>0, <1>1 DEF Ask
  <2>2. /\ cmd'[p].stage = "asked" /\ cmd'[p].op = op /\ cmd'[p].decision = d
        /\ "stage" \in DOMAIN cmd'[p]
        /\ DOMAIN cmd' = Process /\ \A q \in Process \ {p} : cmd'[q] = cmd[q]
    BY <1>0, <1>1 DEF Ask
  <2>3. Shaped(cmd'[p])
    BY <2>2 DEF Shaped, Writing
  <2> QED
    BY <1>0, <2>1, <2>2, <2>3, CommandStep DEF files, Idle, Working
<1>2. CASE Acquire(p)
  <2>1. /\ cmd'[p].stage = "locked" /\ cmd'[p].op = cmd[p].op
        /\ cmd'[p].decision = cmd[p].decision /\ "stage" \in DOMAIN cmd'[p]
        /\ DOMAIN cmd' = Process /\ \A q \in Process \ {p} : cmd'[q] = cmd[q]
    BY <1>0, <1>2 DEF Acquire, Shaped
  <2>2. Shaped(cmd'[p])
    BY <1>0, <1>2, <2>1 DEF Shaped, Writing, Acquire
  <2> QED
    BY <1>0, <1>2, <2>1, <2>2, CommandStep DEF files, bounds, Working, Acquire
<1>3. CASE Contended(p)
  BY <1>0, <1>3, <1>a, Ending, CommandStep DEF Contended, files, bounds, Working
<1>4. CASE Refused(p)
  BY <1>0, <1>4, <1>a, Ending, CommandStep DEF Refused, Release, files, bounds, Working
<1>5. CASE AppendEvent(p)
  <2> DEFINE state == IF cmd[p].op = "reserve" THEN "reserved" ELSE "revoked"
             todo == <<Appended(cmd[p].decision, state)>>
  <2>1. cmd[p].stage = "locked" /\ Starts(p, "appending", todo)
    BY <1>5 DEF AppendEvent, Locked
  <2>2. Planned(todo)
    BY <1>0, <2>1, LedgerPlan DEF Shaped
  <2> HIDE DEF todo
  <2>3. Shaped(cmd'[p]) /\ cmd'[p].stage = "appending"
    BY <1>0, <2>1, <2>2, Starting DEF Shaped, Writing
  <2> QED
    BY <1>0, <1>5, <2>1, <2>3, Starting, CommandStep DEF AppendEvent, files, bounds, Working
<1>6. CASE AppendEnds(p)
  BY <1>0, <1>6, <1>a, Ending, CommandStep DEF AppendEnds, Release, files, bounds, Working
<1>7. CASE Write(p)
  <2> DEFINE w == Head(cmd[p].todo)
  <2>1. /\ cmd[p].stage \in {"installing", "appending", "restoring", "revoking"}
        /\ cmd[p].todo # <<>> /\ cmd[p].stage \in Writing
    BY <1>7 DEF Write, Writing
  <2>2. cmd[p].todo \in Seq(Writings) /\ \A n \in DOMAIN cmd[p].todo : Fits(cmd[p].todo[n])
    BY <1>0, <2>1 DEF Shaped, Planned
  <2>3. w \in Writings /\ Fits(w) /\ Planned(Tail(cmd[p].todo))
    BY <2>1, <2>2, Taken DEF Planned
  <2>4. w.path \in Paths
    BY <2>3 DEF Writings
  <2> HIDE DEF w
  <2>5. CASE /\ tree' = [tree EXCEPT ![w.path] = w.content] /\ temp' \subseteq Paths
             /\ Does(p, cmd[p].stage, Tail(cmd[p].todo))
             /\ UNCHANGED <<journal, lock, committed, bounds>>
    <3>1. IsTree(tree')
      BY <1>0, <2>3, <2>4, <2>5 DEF IsTree, Fits
    <3>2. cmd'[p].stage = cmd[p].stage /\ Shaped(cmd'[p])
      BY <1>0, <2>1, <2>3, <2>5, Going DEF Shaped, Writing
    <3> QED
      BY <1>0, <2>1, <2>5, <3>1, <3>2, Going, CommandStep DEF bounds
  <2>6. CASE temp' \subseteq Paths /\ UNCHANGED <<tree, cmd, journal, lock, committed, bounds>>
    BY <1>0, <2>6, CommandStep DEF bounds
  <2> QED
    BY <1>0, <1>7, <2>4, <2>5, <2>6 DEF Write, w
<1>8. CASE Prepare(p)
  <2> DEFINE d == cmd[p].decision
             j == [phase |-> "prepared", before |-> tree, after |-> After(d)]
  <2>1. /\ cmd[p].stage = "locked" /\ d \in Decision
        /\ Starts(p, "prepared", Writes(After(d)))
        /\ journal' = [journal EXCEPT ![d] = j]
    BY <1>0, <1>8 DEF Prepare, Locked, Shaped
  <2>2. IsTree(After(d))
    BY <2>1, AfterIsTree
  <2>3. Shaped(cmd'[p]) /\ cmd'[p].stage = "prepared"
    BY <1>0, <2>1, <2>2, WholePlan, Starting DEF Shaped, Writing
  <2>4. /\ DOMAIN j = {"phase", "before", "after"} /\ j.phase = "prepared"
        /\ IsTree(j.before) /\ IsTree(j.after)
    BY <1>0, <2>2
  <2>5. UNCHANGED <<tree, temp, lock, committed, bounds>>
    BY <1>8 DEF Prepare
  <2> HIDE DEF d, j
  <2> QED
    BY <1>0, <2>1, <2>3, <2>4, <2>5, Starting, JournalStep DEF Working
<1>9. ASSUME NEW stage, NEW phase \in {"prepared", "applying", "finalizing"}, NEW todo,
             cmd[p].stage \in {"prepared", "installing"}, stage \in {"installing", "closing"},
             todo \in {cmd[p].todo, <<>>}, Does(p, stage, todo),
             journal' = [journal EXCEPT ![cmd[p].decision].phase = phase],
             UNCHANGED <<tree, temp, lock, committed, bounds>>
      PROVE  Types'
  <2>1. cmd[p].decision \in Decision /\ Pending(cmd[p].decision)
    BY <1>0, <1>9 DEF Shaped, Writing, Underway
  <2>2. Shaped(cmd'[p]) /\ cmd'[p].stage = stage
    <3>1. cmd[p].stage \in Writing
      BY <1>9 DEF Writing
    <3>2. Planned(todo)
      BY <1>0, <1>9, <3>1, NothingPlanned DEF Shaped
    <3> QED
      BY <1>0, <1>9, <3>1, <3>2, Going DEF Shaped, Writing
  <2>3. PICK j :
              /\ [journal EXCEPT ![cmd[p].decision].phase = phase]
                   = [journal EXCEPT ![cmd[p].decision] = j]
              /\ DOMAIN j = {"phase", "before", "after"} /\ j.phase = phase
              /\ IsTree(j.before) /\ IsTree(j.after)
    BY <2>1, Phased
  <2> QED
    BY <1>0, <1>9, <2>1, <2>2, <2>3, Going, JournalStep DEF Working, Writing
<1>10. CASE Install(p)
  BY <1>9, <1>10 DEF Install
<1>11. CASE Installed(p)
  BY <1>9, <1>11 DEF Installed
<1>12. CASE CloseJournal(p)
  <2>1. cmd[p].decision \in Decision
    BY <1>0, <1>12 DEF CloseJournal, Shaped
  <2> QED
    BY <1>0, <1>12, <1>a, <2>1, Ending, JournalStep DEF CloseJournal, Release, Working
<1>13. CASE Recover(p)
  <2> DEFINE d == cmd[p].decision
  <2>1. /\ cmd[p].stage = "locked" /\ d \in Decision /\ Pending(d)
        /\ UNCHANGED <<tree, temp, lock, committed, bounds>>
    BY <1>0, <1>13 DEF Recover, Locked, Allowed, Shaped, Pending
  <2>2. CASE Starts(p, "restoring", Writes(journal[d].before)) /\ UNCHANGED journal
    <3>1. IsTree(journal[d].before)
      BY <2>1 DEF Types, TypeOK, Pending
    <3>2. Shaped(cmd'[p]) /\ cmd'[p].stage = "restoring"
      BY <1>0, <2>1, <2>2, <3>1, WholePlan, Starting DEF Shaped, Writing
    <3> QED
      BY <1>0, <2>1, <2>2, <3>2, Starting, CommandStep DEF bounds, Working
  <2>3. CASE /\ journal' = [journal EXCEPT ![d].phase = "finalizing"]
             /\ Starts(p, "closing", <<>>)
    <3>1. Shaped(cmd'[p]) /\ cmd'[p].stage = "closing"
      BY <1>0, <2>1, <2>3, Starting, NothingPlanned DEF Shaped, Writing
    <3>2. PICK j :
              /\ [journal EXCEPT ![d].phase = "finalizing"] = [journal EXCEPT ![d] = j]
              /\ DOMAIN j = {"phase", "before", "after"} /\ j.phase = "finalizing"
              /\ IsTree(j.before) /\ IsTree(j.after)
      BY <2>1, Phased
    <3> QED
      BY <1>0, <2>1, <2>3, <3>1, <3>2, Starting, JournalStep DEF Working
  <2> QED
    BY <1>13, <2>2, <2>3 DEF Recover
<1>14. CASE Restored(p)
  <2> DEFINE d == cmd[p].decision
  <2>1. /\ cmd[p].stage = "restoring" /\ cmd[p].stage \in Writing /\ d \in Decision
        /\ UNCHANGED <<files, committed, bounds>>
    BY <1>0, <1>14 DEF Restored, Shaped, Writing
  <2>2. CASE Release(p)
    BY <1>0, <1>a, <2>1, <2>2, Ending, CommandStep DEF Release, files, bounds, Working
  <2>3. CASE Does(p, "closing", <<>>) /\ UNCHANGED lock
    <3>1. Shaped(cmd'[p]) /\ cmd'[p].stage = "closing"
      BY <1>0, <2>1, <2>3, Going, NothingPlanned DEF Shaped, Writing
    <3> QED
      BY <1>0, <2>1, <2>3, <3>1, Going, CommandStep DEF files, bounds, Working
  <2>4. CASE Does(p, "revoking", <<Appended(d, "revoked")>>) /\ UNCHANGED lock
    <3> DEFINE todo == <<Appended(d, "revoked")>>
    <3>1. Planned(todo)
      BY <2>1, LedgerPlan
    <3> HIDE DEF todo
    <3>2. Shaped(cmd'[p]) /\ cmd'[p].stage = "revoking"
      BY <1>0, <2>1, <2>4, <3>1, Going DEF Shaped, Writing, todo
    <3> QED
      BY <1>0, <2>1, <2>4, <3>2, Going, CommandStep DEF files, bounds, Working
  <2> QED
    BY <1>14, <2>2, <2>3, <2>4 DEF Restored
<1>15. CASE Revoked(p)
  <2>1. cmd[p].stage = "revoking" /\ cmd[p].stage \in Writing
    BY <1>15 DEF Revoked, Writing
  <2>2. Shaped(cmd'[p]) /\ cmd'[p].stage = "closing"
    BY <1>0, <1>15, <2>1, Going, NothingPlanned DEF Revoked, Shaped, Writing
  <2> QED
    BY <1>0, <1>15, <2>1, <2>2, Going, CommandStep DEF Revoked, files, bounds, Working
<1>16. CASE Crash(p)
  <2>1. crashes' \in 0 .. MaxCrashes
    BY <1>0, <1>16 DEF Crash
  <2> QED
    BY <1>0, <1>16, <1>a, <2>1, Ending, CommandStep DEF Crash, Release, files, Working
<1> QED
  BY <1>1, <1>2, <1>3, <1>4, <1>5, <1>6, <1>7, <1>8, <1>10, <1>11, <1>12, <1>13, <1>14,
     <1>15, <1>16 DEF Step

-----------------------------------------------------------------------------
(* The history.                                                            *)

\* An appended event leaves the history in the ledger.
LEMMA AppendedKept ==
    ASSUME Types, Kept, NEW d \in Decision, NEW state \in {"reserved", "applied", "revoked"}
    PROVE  /\ Extends(Append(tree[Ledger], Event(d, state)), committed)
           /\ KeepsHistory(<<Appended(d, state)>>)
<1>1. tree[Ledger] \in Seq(Events) /\ committed \in Seq(Events)
  BY DEF Types, TypeOK, IsTree
<1>2. Event(d, state) \in Events
  BY LedgerPlan
<1>3. Extends(Append(tree[Ledger], Event(d, state)), committed)
  BY <1>1, <1>2, ExtendsFurther DEF Kept, CommittedStays
<1>4. Appended(d, state).content = Append(tree[Ledger], Event(d, state))
  BY DEF Appended
<1>a. \A x : \A n \in DOMAIN <<x>> : <<x>>[n] = x
  OBVIOUS
<1>5. \A n \in DOMAIN <<Appended(d, state)>> :
         Extends(<<Appended(d, state)>>[n].content, committed)
  BY <1>3, <1>4, <1>a, Zenon
<1> QED
  BY <1>3, <1>5 DEF KeepsHistory

\* A tree whose ledger has the history is written with it.
LEMMA WritesKept ==
    ASSUME NEW t, IsTree(t), Extends(t[Ledger], committed)
    PROVE  KeepsHistory(Writes(t))
BY WholePlan DEF KeepsHistory

\* Another phase of a journal leaves its trees.
LEMMA PhasedKept ==
    ASSUME Types, Kept, NEW d \in Decision, Pending(d),
           NEW phase \in {"prepared", "applying", "finalizing"},
           journal' = [journal EXCEPT ![d].phase = phase]
    PROVE  \E e \in Decision : \E j :
              /\ journal' = [journal EXCEPT ![e] = j]
              /\ Extends(j.before[Ledger], committed) /\ Extends(j.after[Ledger], committed)
<1>1. PICK j :
          /\ [journal EXCEPT ![d].phase = phase] = [journal EXCEPT ![d] = j]
          /\ DOMAIN j = {"phase", "before", "after"} /\ j.phase = phase
          /\ j.before = journal[d].before /\ j.after = journal[d].after
          /\ IsTree(j.before) /\ IsTree(j.after)
  BY Phased
<1>2. Extends(j.before[Ledger], committed) /\ Extends(j.after[Ledger], committed)
  BY <1>1 DEF Kept
<1>3. journal' = [journal EXCEPT ![d] = j]
  BY <1>1
<1> QED
  BY <1>2, <1>3

\* No step of a process loses an event of the history.
LEMMA StepKept ==
    ASSUME Types, Kept, NEW p \in Process, Underway(p), Step(p)
    PROVE  Kept'
<1>0. /\ \A q \in Process : cmd[q].stage \in Writing => KeepsHistory(cmd[q].todo)
      /\ \A d \in Decision : Pending(d) =>
            /\ Extends(journal[d].before[Ledger], committed)
            /\ Extends(journal[d].after[Ledger], committed)
      /\ CommittedStays /\ Shaped(cmd[p]) /\ DOMAIN cmd = Process /\ DOMAIN journal = Decision
  BY DEF Kept, Types
<1>a. committed' = committed
  BY DEF Step, Ask, Acquire, Contended, Refused, AppendEvent, AppendEnds, Write, Prepare,
         Install, Installed, CloseJournal, Recover, Restored, Revoked, Crash, files, bounds
<1>b. ASSUME UNCHANGED tree,
             \/ UNCHANGED journal
             \/ \E d \in Decision : \E j :
                    /\ journal' = [journal EXCEPT ![d] = j]
                    /\ \/ j = NoJournal
                       \/ /\ Extends(j.before[Ledger], committed)
                          /\ Extends(j.after[Ledger], committed),
             \A q \in Process \ {p} : cmd'[q] = cmd[q],
             cmd'[p].stage \in Writing => KeepsHistory(cmd'[p].todo)
      PROVE  Kept'
  <2>1. CommittedStays'
    BY <1>0, <1>a, <1>b DEF CommittedStays
  <2>2. \A q \in Process : cmd'[q].stage \in Writing => KeepsHistory(cmd'[q].todo)
    BY <1>0, <1>b
  <2>3. \A q \in Process : cmd'[q].stage \in Writing => KeepsHistory(cmd[q].todo)'
    BY <1>a, <2>2 DEF KeepsHistory
  <2>4. \A d \in Decision : journal'[d] # NoJournal =>
            /\ Extends(journal'[d].before[Ledger], committed)
            /\ Extends(journal'[d].after[Ledger], committed)
    BY <1>0, <1>b DEF Pending
  <2> QED
    BY <1>a, <2>1, <2>3, <2>4 DEF Kept, Pending
<1>c. ASSUME cmd' = [cmd EXCEPT ![p] = Idle]
      PROVE  (cmd'[p].stage \notin Writing) /\ \A q \in Process \ {p} : cmd'[q] = cmd[q]
  BY <1>c, Ending DEF Writing
<1>d. KeepsHistory(<<>>)
  BY DEF KeepsHistory
<1>1. ASSUME NEW op \in Ops, NEW d \in Decision, Ask(p, op, d) PROVE Kept'
  <2>1. cmd'[p].stage = "asked" /\ \A q \in Process \ {p} : cmd'[q] = cmd[q]
    BY <1>0, <1>1 DEF Ask
  <2> QED
    BY <1>1, <1>b, <2>1 DEF Ask, files, Writing
<1>2. CASE Acquire(p)
  <2>1. cmd'[p].stage = "locked" /\ \A q \in Process \ {p} : cmd'[q] = cmd[q]
    BY <1>0, <1>2 DEF Acquire, Shaped
  <2> QED
    BY <1>2, <1>b, <2>1 DEF Acquire, files, Writing
<1>3. CASE Contended(p)
  BY <1>3, <1>b, <1>c DEF Contended, files
<1>4. CASE Refused(p)
  BY <1>4, <1>b, <1>c DEF Refused, Release, files
<1>5. CASE AppendEvent(p)
  <2> DEFINE state == IF cmd[p].op = "reserve" THEN "reserved" ELSE "revoked"
             todo == <<Appended(cmd[p].decision, state)>>
  <2>1. /\ cmd[p].stage = "locked" /\ Starts(p, "appending", todo)
        /\ cmd[p].decision \in Decision
    BY <1>0, <1>5 DEF AppendEvent, Locked, Shaped
  <2>2. KeepsHistory(todo)
    BY <2>1, AppendedKept
  <2> HIDE DEF todo
  <2> QED
    BY <1>5, <1>b, <2>1, <2>2, Starting DEF AppendEvent, files
<1>6. CASE AppendEnds(p)
  BY <1>6, <1>b, <1>c DEF AppendEnds, Release, files
<1>7. CASE Write(p)
  <2> DEFINE w == Head(cmd[p].todo)
  <2>1. cmd[p].todo # <<>> /\ cmd[p].stage \in Writing /\ UNCHANGED journal
    BY <1>7 DEF Write, Writing
  <2>2. cmd[p].todo \in Seq(Writings) /\ KeepsHistory(cmd[p].todo)
    BY <1>0, <2>1 DEF Shaped, Planned
  <2>3. /\ w.path = Ledger => Extends(w.content, committed)
        /\ KeepsHistory(Tail(cmd[p].todo))
    BY <2>1, <2>2, Taken DEF KeepsHistory
  <2>a. w \in Writings
    BY <2>1, <2>2, Taken
  <2>4. w.path \in Paths
    BY <2>a DEF Writings
  <2> HIDE DEF w
  <2>5. CASE /\ tree' = [tree EXCEPT ![w.path] = w.content]
             /\ Does(p, cmd[p].stage, Tail(cmd[p].todo))
    <3>1. tree'[Ledger] = IF w.path = Ledger THEN w.content ELSE tree[Ledger]
      BY <2>4, <2>5, PromotionAssumption DEF Types, TypeOK, IsTree
    <3>2. CommittedStays'
      BY <1>0, <1>a, <2>3, <3>1 DEF CommittedStays
    <3>3. \A q \in Process : cmd'[q].stage \in Writing => KeepsHistory(cmd'[q].todo)
      BY <1>0, <2>1, <2>3, <2>5, Going
    <3>4. \A q \in Process : cmd'[q].stage \in Writing => KeepsHistory(cmd[q].todo)'
      BY <1>a, <3>3 DEF KeepsHistory
    <3> QED
      BY <1>0, <1>a, <2>1, <3>2, <3>4 DEF Kept, Pending
  <2>6. CASE UNCHANGED <<tree, cmd>>
    BY <1>0, <1>b, <2>1, <2>6
  <2> QED
    BY <1>7, <2>5, <2>6 DEF Write, w
<1>8. CASE Prepare(p)
  <2> DEFINE d == cmd[p].decision
             j == [phase |-> "prepared", before |-> tree, after |-> After(d)]
  <2>1. /\ cmd[p].stage = "locked" /\ d \in Decision /\ UNCHANGED tree
        /\ Starts(p, "prepared", Writes(After(d)))
        /\ journal' = [journal EXCEPT ![d] = j]
    BY <1>0, <1>8 DEF Prepare, Locked, Shaped
  <2>2. IsTree(After(d)) /\ Extends(After(d)[Ledger], committed)
    BY <2>1, AfterIsTree, AppendedKept
  <2>3. KeepsHistory(Writes(After(d)))
    BY <2>2, WritesKept
  <2>4. Extends(j.before[Ledger], committed) /\ Extends(j.after[Ledger], committed)
    BY <1>0, <2>2 DEF CommittedStays
  <2> HIDE DEF d, j
  <2> QED
    BY <1>b, <2>1, <2>3, <2>4, Starting
<1>9. ASSUME NEW stage, NEW phase \in {"prepared", "applying", "finalizing"}, NEW todo,
             cmd[p].stage \in {"prepared", "installing"},
             todo \in {cmd[p].todo, <<>>}, Does(p, stage, todo), UNCHANGED tree,
             journal' = [journal EXCEPT ![cmd[p].decision].phase = phase]
      PROVE  Kept'
  <2>1. cmd[p].decision \in Decision /\ Pending(cmd[p].decision) /\ cmd[p].stage \in Writing
    BY <1>0, <1>9 DEF Shaped, Writing, Underway
  <2>2. \E d \in Decision : \E j :
            /\ journal' = [journal EXCEPT ![d] = j]
            /\ Extends(j.before[Ledger], committed) /\ Extends(j.after[Ledger], committed)
    BY <1>9, <2>1, PhasedKept
  <2>4. KeepsHistory(todo)
    BY <1>0, <1>9, <1>d, <2>1
  <2> QED
    <3>1. /\ \A q \in Process \ {p} : cmd'[q] = cmd[q]
          /\ KeepsHistory(cmd'[p].todo)
      BY <1>9, <2>1, <2>4, Going
    <3> QED
      BY <1>9, <1>b, <2>2, <3>1
<1>10. CASE Install(p)
  BY <1>9, <1>10 DEF Install
<1>11. CASE Installed(p)
  BY <1>9, <1>11 DEF Installed
<1>12. CASE CloseJournal(p)
  <2>1. cmd[p].decision \in Decision
    BY <1>0, <1>12 DEF CloseJournal, Shaped
  <2> QED
    BY <1>12, <1>b, <1>c, <2>1 DEF CloseJournal, Release
<1>13. CASE Recover(p)
  <2> DEFINE d == cmd[p].decision
  <2>1. cmd[p].stage = "locked" /\ d \in Decision /\ Pending(d) /\ UNCHANGED tree
    BY <1>0, <1>13 DEF Recover, Locked, Allowed, Shaped, Pending
  <2>2. CASE Starts(p, "restoring", Writes(journal[d].before)) /\ UNCHANGED journal
    <3>1. IsTree(journal[d].before)
      BY <2>1 DEF Types, TypeOK, Pending
    <3>2. KeepsHistory(Writes(journal[d].before))
      BY <1>0, <2>1, <3>1, WritesKept
    <3> QED
      BY <1>b, <2>1, <2>2, <3>2, Starting
  <2>3. CASE /\ journal' = [journal EXCEPT ![d].phase = "finalizing"]
             /\ Starts(p, "closing", <<>>)
    <3>1. \E e \in Decision : \E j :
              /\ journal' = [journal EXCEPT ![e] = j]
              /\ Extends(j.before[Ledger], committed) /\ Extends(j.after[Ledger], committed)
      BY <2>1, <2>3, PhasedKept
    <3>2. /\ \A q \in Process \ {p} : cmd'[q] = cmd[q]
          /\ KeepsHistory(cmd'[p].todo)
      BY <1>d, <2>3, Starting
    <3> QED
      BY <1>b, <2>1, <3>1, <3>2
  <2> QED
    BY <1>13, <2>2, <2>3 DEF Recover
<1>14. CASE Restored(p)
  <2> DEFINE d == cmd[p].decision
  <2>1. /\ cmd[p].stage \in Writing /\ d \in Decision /\ UNCHANGED <<tree, journal>>
    BY <1>0, <1>14 DEF Restored, Shaped, Writing, files
  <2>2. CASE Release(p)
    BY <1>b, <1>c, <2>1, <2>2 DEF Release
  <2>3. CASE Does(p, "closing", <<>>)
    BY <1>b, <1>d, <2>1, <2>3, Going
  <2>4. CASE Does(p, "revoking", <<Appended(d, "revoked")>>)
    <3>1. KeepsHistory(<<Appended(d, "revoked")>>)
      BY <2>1, AppendedKept
    <3> QED
      BY <1>b, <2>1, <2>4, <3>1, Going
  <2> QED
    BY <1>14, <2>2, <2>3, <2>4 DEF Restored
<1>15. CASE Revoked(p)
  BY <1>15, <1>b, <1>d, Going DEF Revoked, Writing, files
<1>16. CASE Crash(p)
  BY <1>16, <1>b, <1>c DEF Crash, Release, files
<1> QED
  BY <1>1, <1>2, <1>3, <1>4, <1>5, <1>6, <1>7, <1>8, <1>10, <1>11, <1>12, <1>13, <1>14,
     <1>15, <1>16 DEF Step

\* A commit takes the whole ledger, when nobody writes and no journal can put another back.
LEMMA CommitKept ==
    ASSUME ResolveFirst, Types, Kept, Commit
    PROVE  Kept'
<1>1. NoJournals /\ lock = Nobody /\ committed' = tree[Ledger] /\ UNCHANGED <<files, cmd>>
  BY DEF Commit
<1>2. \A p \in Process : cmd[p].stage \notin Writing
  BY <1>1, PromotionAssumption DEF Types, TypeOK, Writing, Working
<1>3. tree[Ledger] \in Seq(Events)
  BY DEF Types, TypeOK, IsTree
<1>4. CommittedStays'
  BY <1>1, <1>3, ExtendsItself DEF CommittedStays, files
<1> QED
  BY <1>1, <1>2, <1>4 DEF Kept, NoJournals, Pending, files

-----------------------------------------------------------------------------
(* Promotions as a whole.                                                  *)

\* A tree with the files of one decision is whole when its ledger ends with its
\* application.
LEMMA AppliedIsWhole ==
    ASSUME Types, OneJournal, NEW d \in Decision, Pending(d)
    PROVE  /\ WholeTree(journal[d].after)
           /\ Latest(journal[d].after[Ledger], d) = "applied"
<1> DEFINE before == journal[d].before[Ledger]
<1>1. before \in Seq(Events)
  BY DEF Types, TypeOK, IsTree, Pending
<1>2. /\ journal[d].after[Ledger] = Append(before, Event(d, "applied"))
      /\ \A path \in Paths \ {Ledger} : journal[d].after[path] = d
  BY DEF OneJournal
<1>3. InTree(journal[d].after[Ledger]) = {d}
  BY <1>1, <1>2, InTreeApplied
<1>4. Event(d, "applied") \in Events
  BY LedgerPlan
<1>5. Latest(journal[d].after[Ledger], d) = "applied"
  BY <1>1, <1>2, <1>4, LatestAppended
<1> QED
  BY <1>2, <1>3, <1>5 DEF WholeTree

\* An event that is no application leaves a whole tree whole.
LEMMA StaysWhole ==
    ASSUME Types, Whole, NEW d \in Decision, NEW state \in {"reserved", "revoked"},
           tree' = [tree EXCEPT ![Ledger] = Appended(d, state).content]
    PROVE  Whole' /\ Latest(tree'[Ledger], d) = state
<1>1. tree[Ledger] \in Seq(Events) /\ Event(d, state) \in Events /\ Ledger \in DOMAIN tree
  BY LedgerPlan, PromotionAssumption DEF Types, TypeOK, IsTree
<1>2. /\ tree'[Ledger] = Append(tree[Ledger], Event(d, state))
      /\ \A path \in Paths \ {Ledger} : tree'[path] = tree[path]
  BY <1>1 DEF Appended, Types, TypeOK, IsTree
<1>3. InTree(tree'[Ledger]) = InTree(tree[Ledger])
  <2>1. Event(d, state).state # "applied"
    BY DEF Event
  <2> QED
    BY <1>1, <1>2, <2>1, InTreeOther
<1>4. Latest(tree'[Ledger], d) = state
  BY <1>1, <1>2, LatestAppended
<1> QED
  BY <1>2, <1>3, <1>4 DEF Whole

\* What leads to a tree has it when nothing is left to be written.
LEMMA Led ==
    ASSUME NEW t, IsTree(t), IsTree(tree), Leads(<<>>, t)
    PROVE  tree = t
<1>1. \A path \in Paths : tree[path] = t[path]
  BY DEF Leads
<1> QED
  BY <1>1 DEF IsTree

\* The next write leads on.
LEMMA LeadsOn ==
    ASSUME Types, NEW t, NEW todo \in Seq(Writings), todo # <<>>, Leads(todo, t),
           tree' = [tree EXCEPT ![Head(todo).path] = Head(todo).content]
    PROVE  /\ \A path \in Paths :
                 tree'[path] = t[path] \/ \E n \in DOMAIN Tail(todo) : Tail(todo)[n].path = path
           /\ \A n \in DOMAIN Tail(todo) : Tail(todo)[n].content = t[Tail(todo)[n].path]
<1>1. /\ Head(todo) = todo[1] /\ 1 \in DOMAIN todo
      /\ \A n \in DOMAIN Tail(todo) : n + 1 \in DOMAIN todo /\ Tail(todo)[n] = todo[n + 1]
      /\ \A n \in DOMAIN todo : n = 1 \/ \E m \in DOMAIN Tail(todo) : Tail(todo)[m] = todo[n]
  BY Taken
<1>2. Head(todo).content = t[Head(todo).path]
  BY <1>1 DEF Leads
<1>3. ASSUME NEW path \in Paths
      PROVE  tree'[path] = t[path] \/ \E n \in DOMAIN Tail(todo) : Tail(todo)[n].path = path
  <2>0. path \in DOMAIN tree
    BY DEF Types, TypeOK, IsTree
  <2>1. CASE path = Head(todo).path
    BY <1>2, <2>0, <2>1
  <2>2. CASE path # Head(todo).path
    <3>1. tree'[path] = tree[path]
      BY <2>0, <2>2
    <3>2. tree[path] = t[path] \/ \E n \in DOMAIN todo : todo[n].path = path
      BY DEF Leads
    <3>3. ASSUME NEW n \in DOMAIN todo, todo[n].path = path
          PROVE  \E m \in DOMAIN Tail(todo) : Tail(todo)[m].path = path
      BY <1>1, <2>2, <3>3
    <3> QED
      BY <3>1, <3>2, <3>3
  <2> QED
    BY <2>1, <2>2
<1>4. \A n \in DOMAIN Tail(todo) : Tail(todo)[n].content = t[Tail(todo)[n].path]
  BY <1>1 DEF Leads
<1> QED
  BY <1>3, <1>4

\* A command that is not a recovery finds no journal, if the maintainer left none.
LEMMA FindsNone ==
    ASSUME CalledClean, NEW p \in Process, cmd[p].stage = "locked", cmd[p].op # "recover",
           Unchanged(p)
    PROVE  NoJournals
<1>1. cmd[p].seen.journals = journal
  BY DEF Unchanged, Seen
<1> QED
  BY <1>1 DEF CalledClean, NoJournals

\* Another phase leaves the journals as they were.
LEMMA PhasedStays ==
    ASSUME Types, OneJournal, NEW d \in Decision, Pending(d),
           NEW phase \in {"prepared", "applying", "finalizing"},
           journal' = [journal EXCEPT ![d].phase = phase]
    PROVE  /\ OneJournal' /\ Pending(d)' /\ \A e \in Decision : Pending(e)' <=> Pending(e)
           /\ journal'[d].before = journal[d].before /\ journal'[d].after = journal[d].after
<1>1. PICK j :
          /\ [journal EXCEPT ![d].phase = phase] = [journal EXCEPT ![d] = j]
          /\ DOMAIN j = {"phase", "before", "after"} /\ j.phase = phase
          /\ j.before = journal[d].before /\ j.after = journal[d].after
          /\ IsTree(j.before) /\ IsTree(j.after)
  BY Phased
<1>2. /\ journal'[d] = j /\ \A e \in Decision \ {d} : journal'[e] = journal[e]
  BY <1>1 DEF Types
<1>3. j # NoJournal
  BY <1>1 DEF NoJournal
<1>4. \A e \in Decision : Pending(e)' <=> Pending(e)
  BY <1>2, <1>3 DEF Pending
<1>5. \A e \in Decision : /\ journal'[e].before = journal[e].before
                          /\ journal'[e].after = journal[e].after
  BY <1>1, <1>2
<1>6. OneJournal'
  BY <1>4, <1>5 DEF OneJournal
<1> QED
  BY <1>4, <1>5, <1>6

\* What is underway depends on the command, the tree and the journals.
LEMMA SameUnderway ==
    ASSUME NEW q \in Process, cmd'[q] = cmd[q], UNCHANGED <<tree, journal>>, Underway(q)
    PROVE  Underway(q)'
<1>1. /\ \A d : Pending(d)' <=> Pending(d)
      /\ NoJournals' <=> NoJournals
      /\ Whole' <=> Whole
      /\ \A d : Resolved(d)' <=> Resolved(d)
  BY DEF Pending, NoJournals, Whole, Resolved
<1>2. /\ \A d, state : Appended(d, state)' = Appended(d, state)
      /\ \A todo, t : Leads(todo, t)' <=> Leads(todo, t)
  BY DEF Appended, Leads
<1> QED
  BY <1>1, <1>2 DEF Underway

\* A step that leaves the files and the journals.
LEMMA QuietStep ==
    ASSUME Control, NEW p \in Process, UNCHANGED <<tree, journal>>,
           \A q \in Process \ {p} : cmd'[q] = cmd[q],
           cmd'[p].stage \in {"asked", "locked"} /\ cmd'[p].op # "recover" =>
               \A d \in Decision : cmd'[p].seen.journals[d] = NoJournal,
           Underway(p)'
    PROVE  Control'
<1>1. OneJournal' /\ Settled'
  BY DEF Control, OneJournal, Settled, Pending, NoJournals, Whole
<1>2. CalledClean'
  BY DEF Control, CalledClean
<1>3. ASSUME NEW q \in Process, q # p PROVE Underway(q)'
  BY <1>3, SameUnderway DEF Control
<1> QED
  BY <1>1, <1>2, <1>3 DEF Control

\* A step of the process that is at work.
LEMMA WorkStep ==
    ASSUME Types, Control, NEW p \in Process, cmd[p].stage \in Working,
           \A q \in Process \ {p} : cmd'[q] = cmd[q],
           cmd'[p].stage \notin {"asked", "locked"},
           OneJournal', Settled', Underway(p)'
    PROVE  Control'
<1>1. CalledClean'
  BY DEF Control, CalledClean
<1>2. ASSUME NEW q \in Process, q # p PROVE Underway(q)'
  <2>1. cmd'[q].stage \notin Writing
    BY <1>2, Alone DEF Writing, Working
  <2> QED
    BY <2>1 DEF Underway, Writing
<1> QED
  BY <1>1, <1>2 DEF Control

\* A command that is not writing leaves nothing behind.
LEMMA Resting ==
    ASSUME NEW p \in Process, cmd[p].stage \notin Writing
    PROVE  Underway(p)
BY DEF Underway, Writing

\* A write keeps what is underway.
LEMMA WriteControl ==
    ASSUME Types, Control, NEW p \in Process, Write(p)
    PROVE  Control'
<1> DEFINE d == cmd[p].decision
           todo == cmd[p].todo
           w == Head(todo)
<1>0. /\ OneJournal /\ Settled /\ Underway(p) /\ IsTree(tree)
      /\ cmd[p].stage \in {"installing", "appending", "restoring", "revoking"}
      /\ cmd[p].stage \in Writing /\ cmd[p].stage \in Working
      /\ todo # <<>> /\ UNCHANGED journal
  BY DEF Control, Types, TypeOK, Write, Writing, Working
<1>1. d \in Decision /\ todo \in Seq(Writings)
  BY <1>0 DEF Types, Shaped, Planned, Writing
<1>2. CASE UNCHANGED <<tree, cmd>>
  <2>1. Underway(p)'
    BY <1>0, <1>2, SameUnderway
  <2> QED
    BY <1>0, <1>2, <2>1, QuietStep DEF Control, CalledClean
<1>3. CASE tree' = [tree EXCEPT ![w.path] = w.content] /\ Does(p, cmd[p].stage, Tail(todo))
  <2>1. /\ \A q \in Process \ {p} : cmd'[q] = cmd[q]
        /\ cmd'[p].stage = cmd[p].stage /\ cmd'[p].todo = Tail(todo) /\ cmd'[p].decision = d
    BY <1>0, <1>3, Going
  <2>2. OneJournal'
    BY <1>0 DEF OneJournal, Pending
  <2>3. ASSUME NEW state \in {"reserved", "revoked"}, todo = <<Appended(d, state)>>, Whole
        PROVE  Whole' /\ Latest(tree'[Ledger], d) = state /\ Tail(todo) = <<>>
    <3>1. w = Appended(d, state) /\ Tail(todo) = <<>>
      BY <2>3
    <3>a. Appended(d, state).path = Ledger
      BY DEF Appended
    <3>2. tree' = [tree EXCEPT ![Ledger] = Appended(d, state).content]
      BY <1>3, <3>1, <3>a
    <3> QED
      BY <1>1, <2>3, <3>1, <3>2, StaysWhole
  <2>4. CASE cmd[p].stage = "appending"
    <3>1. NoJournals /\ Whole
      BY <1>0, <2>4 DEF Underway, Settled
    <3>2. PICK state \in {"reserved", "revoked"} : todo = <<Appended(d, state)>>
      BY <1>0, <2>4 DEF Underway
    <3>3. Whole' /\ Tail(todo) = <<>>
      BY <2>3, <3>1, <3>2
    <3>4. Underway(p)'
      BY <1>0, <1>1, <2>1, <2>4, <3>1, <3>3 DEF Underway, NoJournals, Pending, Writing
    <3> QED
      BY <1>0, <2>1, <2>2, <2>4, <3>3, <3>4, WorkStep DEF Settled
  <2>5. CASE cmd[p].stage = "revoking"
    <3>1. Whole /\ todo = <<Appended(d, "revoked")>> /\ Pending(d)
      BY <1>0, <2>5 DEF Underway, Writing
    <3>2. Whole' /\ Latest(tree'[Ledger], d) = "revoked" /\ Tail(todo) = <<>>
      BY <2>3, <3>1
    <3>3. Underway(p)'
      BY <1>0, <2>1, <2>5, <3>1, <3>2 DEF Underway, Pending, Writing, Resolved
    <3> QED
      BY <1>0, <2>1, <2>2, <2>5, <3>2, <3>3, WorkStep DEF Settled
  <2>6. CASE cmd[p].stage \in {"installing", "restoring"}
    <3> DEFINE t == IF cmd[p].stage = "installing" THEN journal[d].after ELSE journal[d].before
    <3>1. Leads(todo, t) /\ Pending(d)
      BY <1>0, <2>6 DEF Underway, Writing
    <3> HIDE DEF t
    <3>2. /\ \A path \in Paths : \/ tree'[path] = t[path]
                                 \/ \E n \in DOMAIN Tail(todo) : Tail(todo)[n].path = path
          /\ \A n \in DOMAIN Tail(todo) : Tail(todo)[n].content = t[Tail(todo)[n].path]
      <4>1. /\ Types /\ todo \in Seq(Writings) /\ todo # <<>> /\ Leads(todo, t)
            /\ tree' = [tree EXCEPT ![Head(todo).path] = Head(todo).content]
        BY <1>0, <1>1, <1>3, <3>1
      <4> HIDE DEF todo
      <4> QED
        BY <4>1, LeadsOn, Zenon
    <3>a. /\ cmd'[p].stage = cmd[p].stage /\ cmd'[p].decision = d /\ cmd'[p].todo = Tail(todo)
          /\ journal' = journal
      BY <1>0, <2>1
    <3>b. Pending(cmd[p].decision)'
      BY <3>1, <3>a DEF Pending
    <3>c. ASSUME cmd[p].stage = "installing" PROVE Underway(p)'
      <4>1. t = journal[d].after
        BY <3>c DEF t
      <4>2. /\ \A path \in Paths :
                  \/ tree'[path] = journal'[cmd'[p].decision].after[path]
                  \/ \E n \in DOMAIN cmd'[p].todo : cmd'[p].todo[n].path = path
            /\ \A n \in DOMAIN cmd'[p].todo :
                  cmd'[p].todo[n].content = journal'[cmd'[p].decision].after[cmd'[p].todo[n].path]
        BY <3>2, <3>a, <4>1
      <4>3. Leads(cmd[p].todo, journal[cmd[p].decision].after)'
        BY <4>2 DEF Leads
      <4> QED
        BY <3>a, <3>b, <3>c, <4>3 DEF Underway
    <3>d. ASSUME cmd[p].stage = "restoring" PROVE Underway(p)'
      <4>1. t = journal[d].before
        BY <3>d DEF t
      <4>2. /\ \A path \in Paths :
                  \/ tree'[path] = journal'[cmd'[p].decision].before[path]
                  \/ \E n \in DOMAIN cmd'[p].todo : cmd'[p].todo[n].path = path
            /\ \A n \in DOMAIN cmd'[p].todo :
                  cmd'[p].todo[n].content = journal'[cmd'[p].decision].before[cmd'[p].todo[n].path]
        BY <3>2, <3>a, <4>1
      <4>3. Leads(cmd[p].todo, journal[cmd[p].decision].before)'
        BY <4>2 DEF Leads
      <4> QED
        BY <3>a, <3>b, <3>d, <4>3 DEF Underway
    <3>3. Underway(p)'
      BY <2>6, <3>c, <3>d
    <3>4. Settled'
      BY <1>0, <1>1, <3>1 DEF Settled, NoJournals, Pending
    <3> QED
      BY <1>0, <2>1, <2>2, <2>6, <3>3, <3>4, WorkStep
  <2> QED
    BY <1>0, <2>4, <2>5, <2>6
<1> QED
  BY <1>2, <1>3 DEF Write

\* A step keeps what is underway, and leaves promotions whole.
LEMMA StepControl ==
    ASSUME ResolveFirst, Types, Control, NEW p \in Process, Step(p)
    PROVE  Control'
<1> SUFFICES ASSUME NEW d, d = cmd[p].decision, NEW todo, todo = cmd[p].todo
             PROVE  Control'
  OBVIOUS
<1>0. /\ OneJournal /\ Settled /\ CalledClean /\ Underway(p) /\ IsTree(tree) /\ Shaped(cmd[p])
      /\ DOMAIN cmd = Process /\ DOMAIN journal = Decision
  BY DEF Control, Types, TypeOK
<1>a. ASSUME cmd' = [cmd EXCEPT ![p] = Idle]
      PROVE  /\ cmd'[p].stage = "idle" /\ Underway(p)'
             /\ \A q \in Process \ {p} : cmd'[q] = cmd[q]
  <2>1. cmd'[p].stage = "idle" /\ \A q \in Process \ {p} : cmd'[q] = cmd[q]
    BY <1>a, Ending
  <2> QED
    BY <2>1 DEF Underway, Writing
<1>b. ASSUME cmd' = [cmd EXCEPT ![p] = Idle], UNCHANGED <<tree, journal>>
      PROVE  Control'
  BY <1>a, <1>b, QuietStep
<1>1. ASSUME NEW op \in Ops, NEW e \in Decision, Ask(p, op, e) PROVE Control'
  <2>1. /\ cmd'[p].stage = "asked" /\ cmd'[p].op = op /\ cmd'[p].seen.journals = journal
        /\ \A q \in Process \ {p} : cmd'[q] = cmd[q]
    BY <1>0, <1>1 DEF Ask, Seen
  <2>2. (op # "recover" => NoJournals) /\ UNCHANGED <<tree, journal>>
    BY <1>1 DEF Ask, files
  <2>3. Underway(p)'
    BY <2>1 DEF Underway, Writing
  <2> QED
    BY <2>1, <2>2, <2>3, QuietStep DEF NoJournals
<1>2. CASE Acquire(p)
  <2>1. /\ cmd[p].stage = "asked" /\ cmd'[p].stage = "locked" /\ cmd'[p].op = cmd[p].op
        /\ cmd'[p].seen = cmd[p].seen /\ \A q \in Process \ {p} : cmd'[q] = cmd[q]
        /\ UNCHANGED <<tree, journal>>
    BY <1>0, <1>2 DEF Acquire, Shaped, files
  <2>2. Underway(p)'
    BY <2>1 DEF Underway, Writing
  <2> QED
    BY <1>0, <2>1, <2>2, QuietStep DEF CalledClean
<1>3. CASE Contended(p)
  BY <1>3, <1>b DEF Contended, files
<1>4. CASE Refused(p)
  BY <1>4, <1>b DEF Refused, Release, files
<1>5. CASE AppendEvent(p)
  <2> SUFFICES ASSUME NEW state \in {"reserved", "revoked"},
                      state = IF cmd[p].op = "reserve" THEN "reserved" ELSE "revoked"
               PROVE  Control'
    OBVIOUS
  <2>1. /\ cmd[p].stage = "locked" /\ cmd[p].op # "recover" /\ Unchanged(p)
        /\ Starts(p, "appending", <<Appended(d, state)>>) /\ UNCHANGED <<tree, journal>>
        /\ d \in Decision
    BY <1>0, <1>5 DEF AppendEvent, Locked, Allowed, files, Shaped
  <2>2. NoJournals
    BY <1>0, <2>1, FindsNone
  <2>3. /\ cmd'[p].stage = "appending" /\ cmd'[p].todo = <<Appended(d, state)>>
        /\ cmd'[p].decision = d /\ \A q \in Process \ {p} : cmd'[q] = cmd[q]
    BY <2>1, Starting
  <2>4. /\ NoJournals' /\ (~Pending(d))'
        /\ Appended(d, state)' = Appended(d, state)
    BY <2>1, <2>2 DEF NoJournals, Pending, Appended
  <2>5. Underway(p)'
    BY <2>1, <2>3, <2>4 DEF Underway, Pending, Appended
  <2> QED
    BY <2>1, <2>3, <2>5, QuietStep
<1>6. CASE AppendEnds(p)
  BY <1>6, <1>b DEF AppendEnds, Release, files
<1>7. CASE Write(p)
  BY <1>7, WriteControl
<1>8. CASE Prepare(p)
  <2> SUFFICES ASSUME NEW t, t = After(d),
                      NEW j, j = [phase |-> "prepared", before |-> tree, after |-> t]
               PROVE  Control'
    OBVIOUS
  <2>1. /\ cmd[p].stage = "locked" /\ cmd[p].op # "recover" /\ Unchanged(p)
        /\ Starts(p, "prepared", Writes(t)) /\ UNCHANGED tree
        /\ journal' = [journal EXCEPT ![d] = j]
        /\ d \in Decision /\ Latest(tree[Ledger], d) = "reserved"
    BY <1>0, <1>8 DEF Prepare, Locked, Allowed, Shaped
  <2>2. NoJournals /\ Whole
    BY <1>0, <2>1, FindsNone DEF Settled
  <2>3. /\ cmd'[p].stage = "prepared" /\ cmd'[p].todo = Writes(t)
        /\ cmd'[p].decision = d /\ \A q \in Process \ {p} : cmd'[q] = cmd[q]
    BY <2>1, Starting
  <2>4. /\ IsTree(t)
        /\ t[Ledger] = Append(tree[Ledger], Event(d, "applied"))
        /\ \A path \in Paths \ {Ledger} : t[path] = d
    BY <2>1, AfterIsTree
  <2>5. /\ \A n \in DOMAIN Writes(t) :
              Writes(t)[n].content = t[Writes(t)[n].path]
        /\ \A path \in Paths : \E n \in DOMAIN Writes(t) : Writes(t)[n].path = path
    BY <2>4, WholePlan
  <2>6. /\ journal'[d] = j /\ \A e \in Decision \ {d} : journal'[e] = NoJournal
        /\ j # NoJournal /\ j.before = tree /\ j.after = t
    BY <1>0, <2>1, <2>2 DEF NoJournals, NoJournal
  <2>7. WholeTree(tree)
    BY <2>2 DEF Whole, WholeTree
  <2>8. OneJournal'
    BY <2>1, <2>4, <2>6, <2>7 DEF OneJournal, Pending
  <2>9. Leads(Writes(t), t)'
    BY <2>5 DEF Leads
  <2>10. Underway(p)'
    BY <2>3, <2>6, <2>9 DEF Underway, Pending, Leads
  <2>11. Settled'
    BY <2>1, <2>6 DEF Settled, NoJournals
  <2> QED
    BY <2>1, <2>3, <2>8, <2>10, <2>11, WorkStep DEF Working
<1>9. CASE Install(p)
  <2>1. /\ cmd[p].stage = "prepared" /\ cmd[p].stage \in Writing /\ d \in Decision /\ Pending(d)
        /\ journal' = [journal EXCEPT ![d].phase = "applying"]
        /\ Does(p, "installing", todo) /\ UNCHANGED tree /\ Leads(todo, journal[d].after)
    BY <1>0, <1>9 DEF Install, Shaped, Writing, Underway
  <2>2. /\ cmd'[p].stage = "installing" /\ cmd'[p].todo = todo
        /\ cmd'[p].decision = d /\ \A q \in Process \ {p} : cmd'[q] = cmd[q]
    BY <2>1, Going
  <2>3. OneJournal' /\ Pending(d)' /\ journal'[d].after = journal[d].after
    BY <1>0, <2>1, PhasedStays
  <2>4. Underway(p)'
    BY <2>1, <2>2, <2>3 DEF Underway, Pending, Leads
  <2>5. Settled'
    BY <2>1, <2>3 DEF Settled, NoJournals, Pending
  <2> QED
    BY <2>1, <2>2, <2>3, <2>4, <2>5, WorkStep DEF Working
<1>10. ASSUME d \in Decision, Pending(d), tree = journal[d].after,
              cmd[p].stage \in Working,
              journal' = [journal EXCEPT ![d].phase = "finalizing"],
              cmd'[p].stage = "closing", cmd'[p].decision = d,
              \A q \in Process \ {p} : cmd'[q] = cmd[q], UNCHANGED tree
       PROVE  Control'
  <2>1. WholeTree(journal[d].after) /\ Latest(journal[d].after[Ledger], d) = "applied"
    BY <1>0, <1>10, AppliedIsWhole
  <2>2. Whole /\ Resolved(d)
    BY <1>10, <2>1 DEF Whole, WholeTree, Resolved
  <2>3. Whole' /\ Resolved(d)'
    BY <1>10, <2>2 DEF Whole, Resolved
  <2>4. OneJournal' /\ Pending(d)'
    BY <1>0, <1>10, PhasedStays
  <2>5. Underway(p)'
    BY <1>10, <2>3, <2>4 DEF Underway, Pending, Resolved
  <2>6. Settled'
    BY <2>3 DEF Settled
  <2> QED
    BY <1>10, <2>4, <2>5, <2>6, WorkStep
<1>11. CASE Installed(p)
  <2>1. /\ cmd[p].stage = "installing" /\ cmd[p].stage \in Writing /\ d \in Decision /\ Pending(d)
        /\ journal' = [journal EXCEPT ![d].phase = "finalizing"]
        /\ Does(p, "closing", <<>>) /\ UNCHANGED tree /\ Leads(<<>>, journal[d].after)
    BY <1>0, <1>11 DEF Installed, Shaped, Writing, Underway
  <2>2. tree = journal[d].after
    <3>1. IsTree(journal[d].after)
      BY <2>1 DEF Types, TypeOK, Pending
    <3> QED
      BY <1>0, <2>1, <3>1, Led
  <2> QED
    BY <1>10, <2>1, <2>2, Going DEF Working
<1>12. CASE CloseJournal(p)
  <2>1. /\ cmd[p].stage = "closing" /\ d \in Decision /\ Whole /\ Release(p) /\ UNCHANGED tree
        /\ journal' = [journal EXCEPT ![d] = NoJournal] /\ Pending(d)
    BY <1>0, <1>12 DEF CloseJournal, Shaped, Underway, Writing
  <2>2. \A e \in Decision : journal'[e] = NoJournal
    BY <1>0, <2>1 DEF OneJournal, Pending
  <2>3. OneJournal'
    BY <2>2 DEF OneJournal, Pending
  <2>4. Settled'
    BY <2>1 DEF Settled, Whole
  <2> QED
    BY <1>a, <2>1, <2>3, <2>4, WorkStep DEF Release, Working
<1>13. CASE Recover(p)
  <2>1. cmd[p].stage = "locked" /\ d \in Decision /\ Pending(d) /\ UNCHANGED tree
    BY <1>0, <1>13 DEF Recover, Locked, Allowed, Shaped, Pending
  <2>2. CASE /\ Complete(journal[d])
             /\ journal' = [journal EXCEPT ![d].phase = "finalizing"]
             /\ Starts(p, "closing", <<>>)
    BY <1>10, <2>1, <2>2, Starting DEF Complete, Working
  <2>3. CASE Starts(p, "restoring", Writes(journal[d].before)) /\ UNCHANGED journal
    <3> DEFINE t == journal[d].before
    <3>1. IsTree(t)
      BY <2>1 DEF Types, TypeOK, Pending
    <3>2. /\ \A n \in DOMAIN Writes(t) : Writes(t)[n].content = t[Writes(t)[n].path]
          /\ \A path \in Paths : \E n \in DOMAIN Writes(t) : Writes(t)[n].path = path
      BY <3>1, WholePlan
    <3>3. /\ cmd'[p].stage = "restoring" /\ cmd'[p].todo = Writes(t)
          /\ cmd'[p].decision = d /\ \A q \in Process \ {p} : cmd'[q] = cmd[q]
      BY <2>3, Starting
    <3>4. Leads(Writes(t), t)
      BY <3>2 DEF Leads
    <3>5. Underway(p)'
      BY <2>1, <2>3, <3>3, <3>4 DEF Underway, Pending, Leads
    <3> QED
      BY <2>1, <2>3, <3>3, <3>5, QuietStep
  <2> QED
    BY <1>13, <2>2, <2>3 DEF Recover
<1>14. CASE Restored(p)
  <2>1. /\ cmd[p].stage = "restoring" /\ cmd[p].stage \in Writing /\ d \in Decision /\ Pending(d)
        /\ UNCHANGED <<tree, journal>> /\ Leads(<<>>, journal[d].before)
    BY <1>0, <1>14 DEF Restored, Shaped, Writing, Underway, files
  <2>2. tree = journal[d].before
    <3>1. IsTree(journal[d].before)
      BY <2>1 DEF Types, TypeOK, Pending
    <3> QED
      BY <1>0, <2>1, <3>1, Led
  <2>3. Whole /\ Latest(tree[Ledger], d) = "reserved"
    BY <1>0, <2>1, <2>2 DEF OneJournal, Whole, WholeTree
  <2>4. CASE Release(p)
    BY <1>b, <2>1, <2>4 DEF Release
  <2>5. CASE Does(p, "revoking", <<Appended(d, "revoked")>>)
    <3>1. /\ cmd'[p].stage = "revoking" /\ cmd'[p].todo = <<Appended(d, "revoked")>>
          /\ cmd'[p].decision = d /\ \A q \in Process \ {p} : cmd'[q] = cmd[q]
      BY <2>1, <2>5, Going
    <3>2. Whole' /\ Pending(d)' /\ Appended(d, "revoked")' = Appended(d, "revoked")
      BY <2>1, <2>3 DEF Whole, Pending, Appended
    <3>3. Underway(p)'
      BY <3>1, <3>2 DEF Underway, Pending, Appended
    <3> QED
      BY <2>1, <3>1, <3>3, QuietStep
  <2> QED
    BY <1>14, <2>3, <2>4, <2>5 DEF Restored
<1>15. CASE Revoked(p)
  <2>1. /\ cmd[p].stage = "revoking" /\ cmd[p].stage \in Writing /\ d \in Decision /\ Pending(d)
        /\ UNCHANGED <<tree, journal>> /\ Whole /\ Does(p, "closing", <<>>)
    BY <1>0, <1>15 DEF Revoked, Shaped, Writing, Underway, files
  <2>2. Resolved(d)
    BY <1>0, <1>15 DEF Revoked, Underway
  <2>3. Whole' /\ Resolved(d)' /\ Pending(d)'
    BY <2>1, <2>2 DEF Whole, Resolved, Pending
  <2>4. /\ cmd'[p].stage = "closing" /\ cmd'[p].decision = d
        /\ \A q \in Process \ {p} : cmd'[q] = cmd[q]
    BY <2>1, Going
  <2>5. Underway(p)'
    BY <2>3, <2>4 DEF Underway, Pending, Resolved
  <2> QED
    BY <2>1, <2>4, <2>5, QuietStep
<1>16. CASE Crash(p)
  BY <1>16, <1>b DEF Crash, Release, files
<1> QED
  BY <1>1, <1>2, <1>3, <1>4, <1>5, <1>6, <1>7, <1>8, <1>9, <1>11, <1>12, <1>13, <1>14,
     <1>15, <1>16 DEF Step

-----------------------------------------------------------------------------
(* The theorems.                                                           *)

\* At first nothing was promoted.
LEMMA InitInv == Init => IInv
<1> SUFFICES ASSUME Init PROVE IInv
  OBVIOUS
<1>1. Types
  BY InitTypes
<1>2. /\ tree[Ledger] = <<>> /\ committed = <<>> /\ NoJournals
      /\ \A d \in Decision : ~Pending(d)
      /\ \A p \in Process : cmd[p].stage = "idle"
  BY PromotionAssumption DEF Init, NoJournals, Pending, Idle
<1>3. Kept
  <2>1. <<>> \in Seq(Events)
    OBVIOUS
  <2>2. CommittedStays
    BY <1>2, <2>1, ExtendsItself DEF CommittedStays
  <2> QED
    BY <1>2, <2>2 DEF Kept, Writing
<1>4. Whole
  <2>1. InTree(tree[Ledger]) = {}
    <3>1. {n \in DOMAIN <<>> : <<>>[n].state = "applied"} = {}
      OBVIOUS
    <3> QED
      BY <1>2, <3>1 DEF InTree
  <2> QED
    BY <2>1 DEF Whole, Init
<1>5. Control
  BY <1>2, <1>4 DEF Control, OneJournal, CalledClean, Settled, Underway, Writing
<1> QED
  BY <1>1, <1>3, <1>5 DEF IInv

\* Every step keeps the invariant.
LEMMA NextInv ==
    ASSUME ResolveFirst, IInv, [Next]_vars
    PROVE  IInv'
<1>1. ASSUME NEW p \in Process, Step(p) PROVE IInv'
  BY <1>1, StepTypes, StepKept, StepControl DEF IInv, Control
<1>2. ASSUME UNCHANGED <<files, cmd>> PROVE Control'
  <2>1. OneJournal' /\ CalledClean' /\ Settled'
    BY <1>2 DEF IInv, Control, OneJournal, CalledClean, Settled, Pending, NoJournals, Whole, files
  <2>2. \A p \in Process : Underway(p)'
    BY <1>2, SameUnderway DEF IInv, Control, files
  <2> QED
    BY <2>1, <2>2 DEF Control
<1>3. ASSUME UNCHANGED <<files, lock, cmd, bounds>>, committed' \in {committed, tree[Ledger]}
      PROVE  Types'
  <2>1. tree[Ledger] \in Seq(Events)
    BY DEF IInv, Types, TypeOK, IsTree
  <2>2. TypeOK'
    BY <1>3, <2>1 DEF IInv, Types, TypeOK, files, bounds
  <2> QED
    BY <1>3, <2>2 DEF IInv, Types, Pending, files
<1>4. CASE Commit
  BY <1>2, <1>3, <1>4, CommitKept DEF IInv, Commit
<1>5. CASE UNCHANGED vars
  <2>1. Kept'
    BY <1>5 DEF IInv, Kept, CommittedStays, Pending, KeepsHistory, vars, files
  <2> QED
    BY <1>2, <1>3, <1>5, <2>1 DEF IInv, vars
<1> QED
  BY <1>1, <1>4, <1>5 DEF Next

\* A journal is removed by the last step of its command.
LEMMA NextResolves ==
    ASSUME IInv, Next, NEW d \in Decision, Pending(d), journal'[d] = NoJournal
    PROVE  Resolved(d)
<1>0. Types /\ DOMAIN journal = Decision /\ \A p \in Process : Underway(p)
  BY DEF IInv, Types, Control
<1>1. ASSUME NEW p \in Process, Step(p) PROVE Resolved(d)
  <2>1. CASE CloseJournal(p)
    <3>1. cmd[p].decision = d
      BY <1>0, <2>1 DEF CloseJournal, Pending
    <3> QED
      BY <1>0, <2>1, <3>1 DEF CloseJournal, Underway
  <2>2. ASSUME NEW e, NEW j, j # NoJournal, journal' = [journal EXCEPT ![e] = j] PROVE FALSE
    BY <1>0, <2>2 DEF Pending
  <2>3. CASE Prepare(p)
    <3>1. [phase |-> "prepared", before |-> tree, after |-> After(cmd[p].decision)] # NoJournal
      BY DEF NoJournal
    <3> QED
      BY <2>2, <2>3, <3>1 DEF Prepare
  <2>4. ASSUME NEW e \in Decision, NEW phase \in {"prepared", "applying", "finalizing"}, Pending(e),
               journal' = [journal EXCEPT ![e].phase = phase]
        PROVE  FALSE
    BY <1>0, <2>4, PhasedStays DEF IInv, Control, Pending
  <2>5. CASE Install(p)
    <3>1. cmd[p].decision \in Decision /\ Pending(cmd[p].decision)
      BY <1>0, <2>5 DEF Install, Types, Shaped, Underway, Writing
    <3> QED
      BY <2>4, <2>5, <3>1 DEF Install
  <2>6. CASE Installed(p)
    <3>1. cmd[p].decision \in Decision /\ Pending(cmd[p].decision)
      BY <1>0, <2>6 DEF Installed, Types, Shaped, Underway, Writing
    <3> QED
      BY <2>4, <2>6, <3>1 DEF Installed
  <2>7. CASE Recover(p)
    <3>1. cmd[p].decision \in Decision /\ Pending(cmd[p].decision)
      BY <1>0, <2>7 DEF Recover, Locked, Allowed, Types, Shaped, Pending
    <3> QED
      BY <1>0, <2>4, <2>7, <3>1 DEF Recover, Pending
  <2>8. CASE UNCHANGED journal
    BY <2>8 DEF Pending
  <2> QED
    BY <1>1, <2>1, <2>3, <2>5, <2>6, <2>7, <2>8
       DEF Step, Ask, Acquire, Contended, Refused, AppendEvent, AppendEnds, Write, Restored,
           Revoked, Crash, files
<1>2. ~Commit
  BY DEF Commit, files, Pending
<1> QED
  BY <1>1, <1>2 DEF Next

\* When the maintainer recovers before anything else, the invariant holds.
LEMMA InvAlways ==
    ASSUME ResolveFirst
    PROVE  Spec => []IInv
<1>1. Init => IInv
  BY InitInv
<1>2. IInv /\ [Next]_vars => IInv'
  BY NextInv
<1> QED
  BY <1>1, <1>2, PTL DEF Spec

\* The recovery journal (apply_promotion, recover_promotion): whatever process dies at
\* whatever write, a promotion is in the tree as a whole or not at all when no journal
\* is left, and the ledger says which.
THEOREM PromotedWhole ==
    ASSUME ResolveFirst
    PROVE  Spec => []WholeOrNothing
<1>1. IInv => WholeOrNothing
  BY DEF IInv, Types, Control, Settled, WholeOrNothing
<1> QED
  BY <1>1, InvAlways, PTL

\* The append-only ledger (load_promotion_ledger): no write of a command or of a recovery
\* takes an event away that the history has.
THEOREM CommittedAlways ==
    ASSUME ResolveFirst
    PROVE  Spec => []CommittedStays
<1>1. IInv => CommittedStays
  BY DEF IInv, Kept
<1> QED
  BY <1>1, InvAlways, PTL

\* The end of a journal (recover_promotion): it is removed only when its decision is
\* applied as a whole or revoked, by the command that wrote it or by any recovery.
THEOREM ResolvedAlways ==
    ASSUME ResolveFirst
    PROVE  Spec => ResolvedIsFinal
<1>1. IInv /\ [Next]_vars =>
        [\A d \in Decision :
            journal[d] # NoJournal /\ journal'[d] = NoJournal =>
                \/ Latest(tree[Ledger], d) = "revoked"
                \/ Latest(tree[Ledger], d) = "applied" /\ Whole]_vars
  BY NextResolves DEF Pending, Resolved
<1> QED
  BY <1>1, InvAlways, PTL DEF Spec, ResolvedIsFinal
=============================================================================
