------------------------------ MODULE HttpProofs ------------------------------
(***************************************************************************)
(* Proofs about the HTTP layer, in three parts that share nothing but this *)
(* module: the budgets of an operation (HttpOperation), for every number   *)
(* of reads, every limit and every size of a body, with or without a       *)
(* deadline; the reads of one cache key (CachedRead), for every number of  *)
(* callers, requesters, processes, attempts and contents of the site; and   *)
(* the deletion of cache content (CacheScrub), for any processes, entries,  *)
(* failures and generations.                                               *)
(***************************************************************************)
EXTENDS HttpOperation, CachedRead, CacheScrub, FiniteSetTheorems, WellFoundedInduction, TLAPS

-----------------------------------------------------------------------------
(* THE BUDGETS OF AN OPERATION.                                            *)

\* How often a read is registered is where it stands, and only a read with an attempt
\* left waits for another one.
Registered ==
    \A t \in Task :
        /\ refs[t] = IF at[t] \in {"idle", "done"} THEN 0
                     ELSE IF at[t] \in {"resolving", "sending"} THEN 2 ELSE 1
        /\ at[t] = "backoff" => tries[t] < Attempts

\* The counters are proved apart from the rest: only they need cardinalities.  A chunk that
\* was cut is one byte too long to be admitted.
Control == OperationTypeOK /\ Registered /\ ClosedIsCancelled /\ OutcomeSaysWhy
Counters == SentIsCharged /\ BytesWithin /\ cut = {}
OperationIInv == Control /\ Counters

-----------------------------------------------------------------------------
(* The control of the reads.                                               *)

\* An operation that has not begun is in order.
LEMMA InitControl == OperationInit => Control
<1> SUFFICES ASSUME OperationInit PROVE Control
  OBVIOUS
<1>1. armed \in BOOLEAN /\ (armed => HasDeadline)
  <2>1. armed = FALSE \/ armed = HasDeadline
    BY DEF OperationInit
  <2>2. CASE HasDeadline = TRUE
    BY <2>1, <2>2
  <2>3. CASE HasDeadline = FALSE
    BY <2>1, <2>3
  <2> QED
    BY <2>2, <2>3, OperationAssumption
<1>2. /\ reason \in Closures \cup {"open"}
      /\ used \in Nat /\ bytes \in Nat /\ sent \in Nat
      /\ cancel \subseteq Task /\ expired \subseteq Task /\ cut \subseteq Task
      /\ stored \subseteq Task
  BY DEF OperationInit
<1>3. /\ at \in [Task -> {"idle", "resolving", "sending", "backoff", "reading", "failing",
                          "closing", "done"}]
      /\ refs \in [Task -> 0 .. 2]
      /\ tries \in [Task -> 0 .. Attempts] /\ hops \in [Task -> 0 .. Redirects]
      /\ outcome \in [Task -> Closures \cup {"none", "ok", "error", "cancelled"}]
  BY OperationAssumption DEF OperationInit
<1>4. late = FALSE
  BY DEF OperationInit
<1>5. OperationTypeOK
  BY <1>1, <1>2, <1>3, <1>4, Zenon DEF OperationTypeOK
<1> QED
  BY <1>5 DEF OperationInit, Control, Registered, ClosedIsCancelled, OutcomeSaysWhy, Closures

\* No step of a read disturbs it: whoever closes the operation cancels every other read
\* that is registered, leaves it itself, and takes the reason for its own outcome.
LEMMA ReadControl ==
    ASSUME Control, NEW t \in Task, Read(t)
    PROVE  Control'
<1> USE OperationAssumption
    DEF Control, OperationTypeOK, Registered, ClosedIsCancelled, OutcomeSaysWhy, Closures,
        At, Goes, Ends, Breaks, CloseFor, Cancelled, Reason, Refused, StillOpen, Keeps
<1>1. CASE Begin(t)
  BY <1>1 DEF Begin, Armed, Delivers
<1>2. CASE Send(t)
  BY <1>2 DEF Send, Fails
<1>3. CASE Redirected(t)
  BY <1>3 DEF Redirected, Again, Charge
<1>4. CASE Answered(t)
  BY <1>4 DEF Answered, Unregistered
<1>5. CASE NotModified(t)
  BY <1>5 DEF NotModified, Delivers
<1>6. CASE Retryable(t)
  BY <1>6 DEF Retryable, Delivers
<1>7. CASE Broken(t)
  BY <1>7 DEF Broken, Fails
<1>8. CASE Retry(t)
  BY <1>8 DEF Retry, Again, Charge
<1>9. CASE Chunk(t)
  BY <1>9 DEF Chunk, Decoded
<1>10. CASE Completed(t)
  BY <1>10 DEF Completed
<1>11. CASE Close(t)
  BY <1>11 DEF Close, Fails
<1> QED
  BY <1>1, <1>2, <1>3, <1>4, <1>5, <1>6, <1>7, <1>8, <1>9, <1>10, <1>11 DEF Read

\* Nor does any step at all.
LEMMA NextControl == Control /\ [OperationNext]_operationVars => Control'
<1> SUFFICES ASSUME Control, [OperationNext]_operationVars
             PROVE  Control'
  OBVIOUS
<1> USE DEF Control, OperationTypeOK, Registered, ClosedIsCancelled, OutcomeSaysWhy, Closures
<1>1. ASSUME NEW t \in Task, Deliver(t) PROVE Control'
  BY <1>1 DEF Deliver, Ends
<1>2. ASSUME NEW t \in Task, CancelTask(t) PROVE Control'
  BY <1>2 DEF CancelTask
<1>3. CASE Deadline
  BY <1>3 DEF Deadline
<1>4. CASE Expire
  BY <1>4 DEF Expire, CloseFor, Cancelled, Reason
<1>5. CASE Leave
  BY <1>5 DEF Leave, CloseFor, Cancelled, Reason
<1>6. CASE UNCHANGED operationVars
  BY <1>6 DEF operationVars
<1> QED
  BY <1>1, <1>2, <1>3, <1>4, <1>5, <1>6, ReadControl DEF OperationNext

-----------------------------------------------------------------------------
(* The counters.                                                           *)

\* A read that moves adds itself to those that are resolving, or leaves them, or neither.
LEMMA ResolvingCount ==
    ASSUME NEW t \in Task, \A u \in Task \ {t} : at'[u] = at[u]
    PROVE  /\ Cardinality(Resolving) \in Nat /\ Cardinality(Resolving)' \in Nat
           /\ at[t] = "resolving" /\ at'[t] # "resolving" =>
                 Cardinality(Resolving)' = Cardinality(Resolving) - 1
           /\ at[t] # "resolving" /\ at'[t] = "resolving" =>
                 Cardinality(Resolving)' = Cardinality(Resolving) + 1
           /\ at[t] # "resolving" /\ at'[t] # "resolving" =>
                 Cardinality(Resolving)' = Cardinality(Resolving)
<1>1. IsFiniteSet(Resolving) /\ IsFiniteSet(Resolving')
  BY OperationAssumption, FS_Subset DEF Resolving
<1>2. Resolving' = IF at'[t] = "resolving" THEN Resolving \cup {t} ELSE Resolving \ {t}
  BY DEF Resolving
<1>3. t \in Resolving <=> at[t] = "resolving"
  BY DEF Resolving
<1> QED
  BY <1>1, <1>2, <1>3, FS_CardinalityType, FS_AddElement, FS_RemoveElement

\* A step of a read charges what it will send, sends what it has charged, and admits no
\* byte that does not fit.
LEMMA ReadCounters ==
    ASSUME Control, Counters, NEW t \in Task, Read(t)
    PROVE  Counters'
<1> USE OperationAssumption
    DEF Control, OperationTypeOK, Counters, SentIsCharged, BytesWithin, At, Goes, Ends,
        Breaks, Refused
<1>1. CASE Begin(t)
  BY <1>1, ResolvingCount DEF Begin, Delivers, Fits
<1>2. CASE Send(t)
  BY <1>2, ResolvingCount DEF Send, Fails
<1>3. CASE Redirected(t)
  BY <1>3, ResolvingCount DEF Redirected, Again, Charge
<1>4. CASE Answered(t)
  BY <1>4, ResolvingCount DEF Answered
<1>5. CASE NotModified(t)
  BY <1>5, ResolvingCount DEF NotModified, Delivers, Fits
<1>6. CASE Retryable(t)
  BY <1>6, ResolvingCount DEF Retryable, Delivers, Fits
<1>7. CASE Broken(t)
  BY <1>7, ResolvingCount DEF Broken, Fails
<1>8. CASE Retry(t)
  BY <1>8, ResolvingCount DEF Retry, Again, Charge
<1>9. CASE Chunk(t)
  BY <1>9, ResolvingCount DEF Chunk, Fits, Decoded
<1>10. CASE Completed(t)
  BY <1>10, ResolvingCount DEF Completed
<1>11. CASE Close(t)
  BY <1>11, ResolvingCount DEF Close, Fails
<1> QED
  BY <1>1, <1>2, <1>3, <1>4, <1>5, <1>6, <1>7, <1>8, <1>9, <1>10, <1>11 DEF Read

\* What is not a step of a read counts nothing, and a read that is cancelled while it
\* resolves its address has been charged for nothing.
LEMMA NextCounters == Control /\ Counters /\ [OperationNext]_operationVars => Counters'
<1> SUFFICES ASSUME Control, Counters, [OperationNext]_operationVars
             PROVE  Counters'
  OBVIOUS
<1>1. ASSUME NEW t \in Task, Deliver(t) PROVE Counters'
  BY <1>1, ResolvingCount, OperationAssumption
  DEF Deliver, Ends, Control, OperationTypeOK, Counters, SentIsCharged, BytesWithin
<1>2. ASSUME UNCHANGED <<used, bytes, sent, at, cut>> PROVE Counters'
  <2>1. Resolving' = Resolving
    BY <1>2 DEF Resolving
  <2> QED
    BY <1>2, <2>1 DEF Counters, SentIsCharged, BytesWithin
<1> QED
  BY <1>1, <1>2, ReadCounters DEF OperationNext, operationVars, CancelTask, Deadline, Expire, Leave

-----------------------------------------------------------------------------
(* The theorems.                                                           *)

\* The inductive invariant holds at first and is kept.
LEMMA InitOperation == OperationInit => OperationIInv
<1> SUFFICES ASSUME OperationInit PROVE Counters
  BY InitControl DEF OperationIInv
<1>1. Resolving = {}
  BY DEF OperationInit, Resolving
<1>2. Cardinality(Resolving) = 0
  BY <1>1, FS_EmptySet
<1> QED
  BY <1>2, OperationAssumption DEF OperationInit, Counters, SentIsCharged, BytesWithin

LEMMA NextOperation == OperationIInv /\ [OperationNext]_operationVars => OperationIInv'
BY NextControl, NextCounters DEF OperationIInv

\* No request goes out that was not charged, no limit of requests or bytes is ever
\* passed, and no body is cut to keep within one, however many reads share the operation,
\* retry, break off and follow redirects (HttpOperationBudget, ResponseByteBudget,
\* _read_bounded_response).
THEOREM LimitsHold == OperationSpec => []WithinLimits
<1>1. OperationIInv => WithinLimits
  BY DEF OperationIInv, Control, Counters, WithinLimits, DeliveredWhole
<1> QED
  BY InitOperation, NextOperation, <1>1, PTL DEF OperationSpec

\* Every read that fails because of the operation gives the reason it was closed for.
THEOREM OutcomesSayWhy == OperationSpec => []OutcomeSaysWhy
<1>1. OperationIInv => OutcomeSaysWhy
  BY DEF OperationIInv, Control
<1> QED
  BY InitOperation, NextOperation, <1>1, PTL DEF OperationSpec

\* A closed operation has cancelled every task that is registered with it
\* (_mark_closed).
THEOREM ClosedCancels == OperationSpec => []ClosedIsCancelled
<1>1. OperationIInv => ClosedIsCancelled
  BY DEF OperationIInv, Control
<1> QED
  BY InitOperation, NextOperation, <1>1, PTL DEF OperationSpec

\* A step of a closed operation changes nothing outside: whatever is registered is
\* cancelled, and a read that was not registered is refused.
LEMMA StepSilent == OperationIInv /\ [OperationNext]_operationVars => [Silent]_operationVars
<1> SUFFICES ASSUME Control, [OperationNext]_operationVars, reason # "open"
             PROVE  /\ reason' = reason
                    /\ UNCHANGED <<used, bytes, sent, stored>>
                    /\ \A u \in Task : outcome'[u] = "ok" => outcome[u] = "ok"
  BY DEF Silent, OperationIInv
<1> USE DEF Control, OperationTypeOK, Registered, ClosedIsCancelled
<1>1. ASSUME NEW t \in Task, Read(t) PROVE at[t] = "idle" /\ Begin(t)
  BY <1>1 DEF Read, At, Begin, Send, Redirected, Answered, NotModified, Retryable, Broken, Retry,
              Chunk, Completed, Close
<1>2. ASSUME NEW t \in Task, Begin(t)
      PROVE  Ends(t, reason) /\ UNCHANGED <<reason, used, bytes, sent, stored>>
  BY <1>2 DEF Begin, Refused, StillOpen
<1>3. ASSUME NEW t \in Task, Deliver(t)
      PROVE  Ends(t, reason) /\ UNCHANGED <<reason, used, bytes, sent, stored>>
  BY <1>3 DEF Deliver
<1>4. \A t \in Task : Ends(t, reason) => \A u \in Task : outcome'[u] = "ok" => outcome[u] = "ok"
  BY DEF Ends, Closures
<1> QED
  BY <1>1, <1>2, <1>3, <1>4 DEF OperationNext, operationVars, CancelTask, Deadline, Expire, Leave

\* Once it is closed, for whatever reason, an operation sends, admits, stores and
\* delivers nothing more.
THEOREM ClosedSilent == OperationSpec => SilentOnceClosed
<1>1. OperationIInv /\ [OperationNext]_operationVars => [Silent]_operationVars
  BY StepSilent
<1> QED
  BY InitOperation, NextOperation, <1>1, PTL DEF OperationSpec, SilentOnceClosed

-----------------------------------------------------------------------------
(* THE READS OF ONE CACHE KEY.                                             *)

\* A task that runs for callers who share is in the table of its requester, and a caller
\* that waits has somebody to wait for.
Flights ==
    /\ \A c \in Caller :
          /\ pc[c] \in {"idle", "looking"} => task[c].status = "none"
          /\ pc[c] = "looking" => Shares(c)
          /\ pc[c] = "waiting" =>
                /\ joined[c] \in Caller
                /\ Via[joined[c]] = Via[c]
                /\ Shares(joined[c]) <=> Shares(c)
                /\ ~Shares(c) => joined[c] = c
                /\ task[joined[c]].status # "none"
                /\ task[c].status # "none" => joined[c] = c
          /\ Shares(c) /\ Running(c) => inflight[Via[c]] = c
          /\ ~Shares(c) => stale[c] = NoEntry
    /\ \A q \in Requester :
          inflight[q] # Nobody =>
              /\ Via[inflight[q]] = q
              /\ Shares(inflight[q])
              /\ task[inflight[q]].status # "none"

\* What a task that runs has overtaken began no earlier than its reach.
Overtaken ==
    \A o \in Caller : Running(o) =>
        /\ task[o].reach <= task[o].since
        /\ task[o].since <= site
        /\ \A t \in Caller : Running(t) => task[o].reach <= task[t].since

\* The entry that a task may renew is the one it named, or its body is from a task that
\* had not ended when this one began.
Renewable ==
    \A o \in Caller : Running(o) /\ Shares(o) /\ entry # NoEntry =>
        \/ entry.body >= task[o].reach
        \/ stale[o] # NoEntry /\ stale[o].body = entry.body

\* What a task got the site had while it ran.
Found ==
    \A o \in Caller :
        /\ task[o].end # "lacked"
        /\ task[o].status = "got" /\ task[o].got = "new" => task[o].body \in task[o].since .. site
        /\ task[o].status = "got" /\ task[o].got = "same" =>
              stale[o] # NoEntry /\ stale[o].body \in task[o].since .. site

Sights == Overtaken /\ Renewable /\ Found

Right ==
    /\ entry # NoEntry => entry.had
    /\ \A c \in Caller : right[c]

ReadIInv == TypeOK /\ Flights /\ Sights /\ Right

-----------------------------------------------------------------------------
(* Types.                                                                  *)

\* The contents are numbered from 1.
LEMMA Versions == Version \subseteq Nat /\ 1 \in Version
  BY CachedReadAssumption DEF Version

\* What a task is made of.
LEMMA TaskFields ==
    ASSUME NEW t \in Tasks
    PROVE  /\ t.status \in {"none", "asking", "got", "done"}
           /\ t.tries \in 0 .. MaxTries
           /\ t.since \in Version /\ t.since \in Nat
           /\ t.reach \in Version /\ t.reach \in Nat
           /\ t.body \in Version /\ t.body \in Nat
           /\ t.got \in {"none", "same", "new"}
           /\ t.end \in {"none", "had", "lacked", "retryable", "error"}
  BY Versions DEF Tasks, Statuses, Findings, Endings

\* A task that has got nothing yet.
LEMMA PlainType ==
    ASSUME NEW status \in Statuses, NEW since \in Version, NEW reach \in Version,
           NEW end \in Endings
    PROVE  /\ Plain(status, since, reach, end) \in Tasks
           /\ Plain(status, since, reach, end).status = status
           /\ Plain(status, since, reach, end).since = since
           /\ Plain(status, since, reach, end).reach = reach
           /\ Plain(status, since, reach, end).end = end
           /\ Plain(status, since, reach, end).got = "none"
<1>1. "none" \in Findings
  BY DEF Findings
<1> QED
  BY <1>1, Versions, CachedReadAssumption DEF Plain, Tasks

\* What a new task has overtaken begins no later than the task itself.
LEMMA Reach ==
    ASSUME TypeOK
    PROVE  /\ Begun.reach \in Version
           /\ Begun.reach <= site
           /\ \A c \in Caller : Running(c) => Begun.reach <= task[c].since
<1> DEFINE S == {site} \cup {task[c].since : c \in {d \in Caller : Running(d)}}
<1>1. S \subseteq Nat /\ S \subseteq Version /\ site \in S
  BY Versions, TaskFields DEF TypeOK
<1>2. PICK m \in S : \A x \in S : ~(<<x, m>> \in OpToRel(<, Nat))
  <2> HIDE DEF S
  <2> QED
    BY <1>1, WFMin, NatLessThanWellFounded
<1>3. \A x \in S : m <= x
  <2> SUFFICES ASSUME NEW x \in S PROVE m <= x
    OBVIOUS
  <2>1. ~(x < m) /\ x \in Nat /\ m \in Nat
    BY <1>1, <1>2 DEF OpToRel
  <2> QED
    BY <2>1
<1>4. Min(S) \in S /\ \A x \in S : Min(S) <= x
  <2> HIDE DEF S
  <2> QED
    BY <1>3 DEF Min
<1>5. Begun.reach = Min(S)
  BY DEF Begun, Plain
<1>6. \A c \in Caller : Running(c) => task[c].since \in S
  OBVIOUS
<1> QED
  BY <1>1, <1>4, <1>5, <1>6

\* A task that begins.
LEMMA BegunType ==
    ASSUME TypeOK
    PROVE  /\ Begun.status = "asking" /\ Begun.since = site
           /\ Begun.got = "none" /\ Begun.end = "none"
           /\ Begun \in Tasks
<1> DEFINE reach == Begun.reach
<1>1. Begun = Plain("asking", site, reach, "none")
  BY DEF Begun, Plain
<1> HIDE DEF reach
<1>2. reach \in Version
  BY Reach DEF reach
<1>3. "asking" \in Statuses /\ "none" \in Endings /\ site \in Version
  BY DEF Statuses, Endings, TypeOK
<1> QED
  BY <1>1, <1>2, <1>3, PlainType

\* No task, and a task that has ended.
LEMMA EndTypes ==
    /\ NoTask \in Tasks /\ NoTask.status = "none" /\ NoTask.end = "none"
    /\ \A end \in Endings : Done(end) \in Tasks /\ Done(end).status = "done" /\ Done(end).end = end
<1>1. 1 \in Version /\ "none" \in Statuses /\ "done" \in Statuses /\ "none" \in Endings
  BY Versions DEF Statuses, Endings
<1>2. NoTask \in Tasks /\ NoTask.status = "none" /\ NoTask.end = "none"
  BY <1>1, PlainType DEF NoTask
<1>3. ASSUME NEW end \in Endings
      PROVE  Done(end) \in Tasks /\ Done(end).status = "done" /\ Done(end).end = end
  BY <1>1, PlainType DEF Done
<1> QED
  BY <1>2, <1>3

\* A task whose old body is confirmed.
LEMMA GotSame ==
    ASSUME NEW tasks \in [Caller -> Tasks], NEW o \in Caller
    PROVE  [tasks EXCEPT ![o].status = "got", ![o].got = "same"] \in [Caller -> Tasks]
<1>1. "got" \in Statuses /\ "same" \in Findings
  BY DEF Statuses, Findings
<1> QED
  BY <1>1 DEF Tasks

\* A task that gets a new body.
LEMMA GotNew ==
    ASSUME NEW tasks \in [Caller -> Tasks], NEW o \in Caller, NEW body \in Version
    PROVE  [tasks EXCEPT ![o].status = "got", ![o].got = "new", ![o].body = body]
              \in [Caller -> Tasks]
<1>1. "got" \in Statuses /\ "new" \in Findings
  BY DEF Statuses, Findings
<1> QED
  BY <1>1 DEF Tasks

\* A cache before its first read is in order.
LEMMA InitRead == Init => ReadIInv
<1> SUFFICES ASSUME Init PROVE ReadIInv
  OBVIOUS
<1>1. \A k \in BOOLEAN : [body |-> 1, fresh |-> FALSE, keep |-> k, had |-> TRUE] \in Entries
  BY Versions DEF Entries
<1>2. entry \in Entries \cup {NoEntry} /\ (entry # NoEntry => entry.had)
  BY <1>1 DEF Init
<1>3. site \in Version /\ right \in [Caller -> BOOLEAN] /\ \A c \in Caller : right[c]
  BY Versions DEF Init
<1>4. task \in [Caller -> Tasks]
  BY EndTypes DEF Init
<1>5. TypeOK
  BY <1>2, <1>3, <1>4 DEF Init, TypeOK
<1>6. Flights /\ Sights
  BY EndTypes, CachedReadAssumption DEF Init, Flights, Sights, Overtaken, Renewable, Found, Running
<1> QED
  BY <1>2, <1>3, <1>5, <1>6 DEF ReadIInv, Right

\* No step leaves the types.
LEMMA NextType == TypeOK /\ [Next]_vars => TypeOK'
<1> SUFFICES ASSUME TypeOK, [Next]_vars PROVE TypeOK'
  OBVIOUS
<1> USE CachedReadAssumption DEF TypeOK, callers
<1>1. CASE UNCHANGED vars
  BY <1>1 DEF vars
<1>2. CASE Change
  BY <1>2 DEF Change, Version
<1>3. CASE ExpireEntry \/ PurgeEntry
  BY <1>3 DEF ExpireEntry, PurgeEntry, Hit, Entries
<1>4. ASSUME NEW c \in Caller, Ask(c)
      PROVE  TypeOK'
  <2>1. Begun \in Tasks
    BY BegunType
  <2>2. entry # NoEntry => entry.had \in BOOLEAN
    BY DEF Entries
  <2> QED
    BY <1>4, <2>1, <2>2 DEF Ask, Hit
<1>5. ASSUME NEW c \in Caller, Look(c)
      PROVE  TypeOK'
  <2>1. Begun \in Tasks
    BY BegunType
  <2>2. entry # NoEntry => [entry EXCEPT !.fresh = FALSE] \in Entries
    BY DEF Entries
  <2> QED
    BY <1>5, <2>1, <2>2 DEF Look
<1>6. ASSUME NEW c \in Caller, Wake(c)
      PROVE  TypeOK'
  <2>1. right' \in [Caller -> BOOLEAN]
    <3>1. \A e \in Entries : e.keep \in BOOLEAN
      BY DEF Entries
    <3>2. Fallback(c) \in Entries \cup {NoEntry}
      BY DEF Fallback
    <3>3. \E b \in BOOLEAN : right' \in {right, [right EXCEPT ![c] = b]}
      BY <1>6, <3>1, <3>2 DEF Wake
    <3> QED
      BY <3>3
  <2> QED
    BY <1>6, <2>1, EndTypes DEF Wake
<1>7. ASSUME NEW c \in Caller, Cancel(c)
      PROVE  TypeOK'
  BY <1>7, EndTypes DEF Cancel
<1>8. ASSUME NEW c \in Caller, Respond(c)
      PROVE  TypeOK'
  <2>1. CASE \E end \in Endings : task' = Ended(c, end)
    BY <1>8, <2>1, EndTypes DEF Respond, Ended
  <2>2. CASE ~(\E end \in Endings : task' = Ended(c, end))
    <3>1. CASE task' = [task EXCEPT ![c].status = "got", ![c].got = "same"]
      BY <1>8, <3>1, GotSame DEF Respond
    <3>2. CASE task' = [task EXCEPT ![c].status = "got", ![c].got = "new", ![c].body = site]
      BY <1>8, <3>2, GotNew DEF Respond
    <3>3. CASE task[c].tries + 1 < MaxTries /\ task' = [task EXCEPT ![c].tries = @ + 1]
      BY <1>8, <3>3 DEF Respond, Tasks
    <3> QED
      BY <1>8, <2>2, <3>1, <3>2, <3>3 DEF Respond, Endings
  <2> QED
    BY <2>1, <2>2
<1>9. ASSUME NEW c \in Caller, Store(c)
      PROVE  TypeOK'
  <2>1. task[c] \in Tasks
    OBVIOUS
  <2>2. \E end \in Endings : task' = Ended(c, end)
    BY <1>9 DEF Store, EndedWith, Endings
  <2>3. task' \in [Caller -> Tasks]
    BY <2>2, EndTypes DEF Ended
  <2>4. \A b \in BOOLEAN : /\ entry # NoEntry => [entry EXCEPT !.fresh = TRUE, !.had = b] \in Entries
                           /\ [body |-> task[c].body, fresh |-> TRUE, keep |-> Keep[c], had |-> b]
                                 \in Entries
    BY <2>1, TaskFields DEF Entries
  <2>5. entry' \in Entries \cup {NoEntry}
    <3> DEFINE b == task[c].body >= task[c].reach
               e == entry.body >= task[c].reach
    <3>1. b \in BOOLEAN /\ e \in BOOLEAN
      OBVIOUS
    <3>2. \/ entry' = entry
          \/ entry # NoEntry /\ entry' = [entry EXCEPT !.fresh = TRUE, !.had = e]
          \/ entry' = [body |-> task[c].body, fresh |-> TRUE, keep |-> Keep[c], had |-> b]
      BY <1>9 DEF Store
    <3> HIDE DEF b, e
    <3> QED
      BY <2>4, <3>1, <3>2
  <2> QED
    BY <1>9, <2>3, <2>5 DEF Store
<1>10. ASSUME NEW q \in Requester, Clear(q)
      PROVE  TypeOK'
  BY <1>10 DEF Clear
<1>11. ASSUME NEW p \in Loop, Stop(p)
      PROVE  TypeOK'
  BY <1>11, EndTypes DEF Stop
<1> QED
  BY <1>1, <1>2, <1>3, <1>4, <1>5, <1>6, <1>7, <1>8, <1>9, <1>10, <1>11 DEF Next, Proceed

-----------------------------------------------------------------------------
(* Flights.                                                                *)

\* How a step of a task moves it: one that has an answer or fails stays a task.
LEMMA Moves ==
    ASSUME TypeOK, NEW o \in Caller, Respond(o) \/ Store(o)
    PROVE  /\ Running(o)
           /\ task'[o].status \in {"asking", "got", "done"}
           /\ \A c \in Caller : c # o => task'[c] = task[c]
<1>1. task \in [Caller -> Tasks]
  BY DEF TypeOK
<1>2. CASE Respond(o)
  <2>1. CASE \E end \in Endings : task' = Ended(o, end)
    BY <1>1, <1>2, <2>1, EndTypes DEF Respond, Ended, Running
  <2>2. CASE task' = [task EXCEPT ![o].status = "got", ![o].got = "same"]
    BY <1>1, <1>2, <2>2 DEF Respond, Running, Tasks
  <2>3. CASE task' = [task EXCEPT ![o].status = "got", ![o].got = "new", ![o].body = site]
    BY <1>1, <1>2, <2>3 DEF Respond, Running, Tasks
  <2>4. CASE task' = [task EXCEPT ![o].tries = @ + 1]
    BY <1>1, <1>2, <2>4 DEF Respond, Running, Tasks
  <2> QED
    BY <1>2, <2>1, <2>2, <2>3, <2>4 DEF Respond, Endings
<1>3. CASE Store(o)
  <2>1. \E end \in Endings : task' = Ended(o, end)
    BY <1>3 DEF Store, EndedWith, Endings
  <2> QED
    BY <1>1, <1>3, <2>1, EndTypes DEF Store, Ended, Running
<1> QED
  BY <1>2, <1>3

\* No step leaves a caller waiting for nobody, or a shared task out of the table.
LEMMA NextFlights == TypeOK /\ Flights /\ [Next]_vars => Flights'
<1> SUFFICES ASSUME TypeOK, Flights, [Next]_vars PROVE Flights'
  OBVIOUS
<1> USE CachedReadAssumption DEF TypeOK, Flights, callers, Running, Shares
<1>1. CASE UNCHANGED vars
  BY <1>1 DEF vars
<1>2. CASE Change \/ ExpireEntry \/ PurgeEntry
  BY <1>2 DEF Change, ExpireEntry, PurgeEntry
<1>3. ASSUME NEW c \in Caller, Ask(c)
      PROVE  Flights'
  BY <1>3, BegunType DEF Ask
<1>4. ASSUME NEW c \in Caller, Look(c)
      PROVE  Flights'
  BY <1>4, BegunType DEF Look
<1>5. ASSUME NEW c \in Caller, Wake(c)
      PROVE  Flights'
  <2>1. /\ pc' = [pc EXCEPT ![c] = "over"] /\ joined' = [joined EXCEPT ![c] = Nobody]
        /\ stale' = [stale EXCEPT ![c] = NoEntry]
        /\ task' = IF Shares(c) THEN task ELSE [task EXCEPT ![c] = NoTask]
        /\ UNCHANGED inflight
    BY <1>5 DEF Wake
  <2> QED
    BY <2>1, EndTypes
<1>6. ASSUME NEW c \in Caller, Cancel(c)
      PROVE  Flights'
  BY <1>6, EndTypes DEF Cancel
<1>7. ASSUME NEW o \in Caller, Respond(o) \/ Store(o)
      PROVE  Flights'
  <2>1. UNCHANGED <<pc, joined, stale, inflight>>
    BY <1>7 DEF Respond, Store
  <2>2. \A c \in Caller : task[c].status # "none" => task'[c].status # "none"
    BY <1>7, Moves
  <2>3. \A c \in Caller : task'[c].status # "none" => task[c].status # "none"
    BY <1>7, Moves
  <2>4. \A c \in Caller : Running(c)' => Running(c)
    BY <1>7, Moves
  <2> QED
    BY <2>1, <2>2, <2>3, <2>4
<1>8. ASSUME NEW q \in Requester, Clear(q)
      PROVE  Flights'
  BY <1>8 DEF Clear
<1>9. ASSUME NEW p \in Loop, Stop(p)
      PROVE  Flights'
  <2>1. \A c \in Caller :
           IF ProcessOf(c) = p THEN pc'[c] = "over" /\ task'[c] = NoTask
           ELSE pc'[c] = pc[c] /\ joined'[c] = joined[c] /\ task'[c] = task[c]
    BY <1>9 DEF Stop
  <2>2. \A q \in Requester : inflight'[q] = IF Home[q] = p THEN Nobody ELSE inflight[q]
    BY <1>9 DEF Stop
  <2>3. UNCHANGED stale
    BY <1>9 DEF Stop
  <2> QED
    BY <2>1, <2>2, <2>3, EndTypes DEF ProcessOf
<1> QED
  BY <1>1, <1>2, <1>3, <1>4, <1>5, <1>6, <1>7, <1>8, <1>9 DEF Next, Proceed

-----------------------------------------------------------------------------
(* What the tasks have seen.                                               *)

\* What a response leaves in a task.
LEMMA Responds ==
    ASSUME TypeOK, NEW o \in Caller, Respond(o)
    PROVE  /\ \A c \in Caller : c # o => task'[c] = task[c]
           /\ \/ task'[o].status = "done" /\ task'[o].end # "lacked"
              \/ /\ task'[o].status \in {"asking", "got"} /\ task'[o].end = task[o].end
                 /\ task'[o].since = task[o].since /\ task'[o].reach = task[o].reach
                 /\ task'[o].status = "got" =>
                       \/ task'[o].got = "same" /\ stale[o] # NoEntry /\ stale[o].body = site
                       \/ task'[o].got = "new" /\ task'[o].body = site
<1>1. task \in [Caller -> Tasks] /\ task[o].status = "asking"
  BY DEF TypeOK, Respond
<1>2. CASE \E end \in Endings \ {"lacked"} : task' = Ended(o, end)
  BY <1>1, <1>2, EndTypes DEF Ended
<1>3. CASE task' = [task EXCEPT ![o].status = "got", ![o].got = "same"]
           /\ stale[o] # NoEntry /\ stale[o].body = site
  BY <1>1, <1>3 DEF Tasks
<1>4. CASE task' = [task EXCEPT ![o].status = "got", ![o].got = "new", ![o].body = site]
  BY <1>1, <1>4 DEF Tasks
<1>5. CASE task' = [task EXCEPT ![o].tries = @ + 1]
  BY <1>1, <1>5 DEF Tasks
<1> QED
  BY <1>2, <1>3, <1>4, <1>5 DEF Respond, Endings

\* The types of the fields, for arithmetic.
LEMMA Fields ==
    ASSUME TypeOK
    PROVE  /\ site \in Nat
           /\ \A c \in Caller : task[c].since \in Nat /\ task[c].reach \in Nat /\ task[c].body \in Nat
           /\ entry # NoEntry => entry.body \in Nat /\ entry.had \in BOOLEAN
           /\ \A c \in Caller : stale[c] # NoEntry => stale[c].body \in Nat
<1>1. \A e \in Entries : e.body \in Nat /\ e.had \in BOOLEAN
  BY Versions DEF Entries
<1> QED
  BY <1>1, Versions, TaskFields DEF TypeOK

\* A step that begins no task, that finds nothing the site does not have, and that puts
\* nothing into the cache that is older than a task that runs.
BeginsNone ==
    \A o \in Caller :
       Running(o)' => /\ Running(o) /\ stale'[o] = stale[o]
                      /\ task'[o].since = task[o].since /\ task'[o].reach = task[o].reach
FindsRight ==
    \A o \in Caller :
       \/ task'[o] = task[o]
       \/ task'[o].end # "lacked" /\ task'[o].status # "got"
       \/ /\ task'[o].end # "lacked"
          /\ \/ task'[o].got = "same" /\ stale'[o] # NoEntry /\ stale'[o].body = site'
             \/ task'[o].got = "new" /\ task'[o].body = site'
StoresRecent ==
    entry' # NoEntry =>
       \/ entry # NoEntry /\ entry'.body = entry.body
       \/ entry'.body \in Nat /\ \E t \in Caller : Running(t) /\ task[t].since <= entry'.body

LEMMA SightsKept ==
    ASSUME TypeOK, Sights, site' \in Nat, site <= site', BeginsNone, FindsRight, StoresRecent
    PROVE  Sights'
<1>1. Overtaken'
  <2> SUFFICES ASSUME NEW o \in Caller, Running(o)' PROVE Overtaken!(o)!2'
    BY DEF Overtaken
  <2> QED
    BY Fields DEF Sights, Overtaken, Running, BeginsNone
<1>2. Renewable'
  <2> SUFFICES ASSUME NEW o \in Caller, Running(o)', Shares(o), entry' # NoEntry
               PROVE  \/ entry'.body >= task'[o].reach
                      \/ stale'[o] # NoEntry /\ stale'[o].body = entry'.body
    BY DEF Renewable, Shares
  <2>1. /\ Running(o) /\ stale'[o] = stale[o] /\ task'[o].reach = task[o].reach
        /\ task[o].reach \in Nat
    BY Fields DEF BeginsNone, Running
  <2>2. CASE entry # NoEntry /\ entry'.body = entry.body
    BY <2>1, <2>2 DEF Sights, Renewable
  <2>3. CASE entry'.body \in Nat /\ \E t \in Caller : Running(t) /\ task[t].since <= entry'.body
    BY <2>1, <2>3, Fields DEF Sights, Overtaken
  <2> QED
    BY <2>2, <2>3 DEF StoresRecent
<1>3. Found'
  <2> SUFFICES ASSUME NEW o \in Caller PROVE Found!(o)'
    BY DEF Found
  <2>1. task[o].since \in Nat /\ (task'[o].status = "got" => task'[o].since = task[o].since)
    BY Fields DEF BeginsNone, Running
  <2>2. task'[o].status = "got" => task'[o].since <= site'
    BY <1>1 DEF Overtaken, Running
  <2>3. CASE task'[o] = task[o]
    <3>1. task[o].status = "got" => stale'[o] = stale[o]
      BY <2>3 DEF BeginsNone, Running
    <3>2. \A n \in task[o].since .. site : n \in task[o].since .. site'
      BY <2>1, Fields
    <3> QED
      BY <2>3, <3>1, <3>2 DEF Sights, Found
  <2>4. CASE task'[o] # task[o]
    <3>1. task'[o].status = "got" => site' \in task'[o].since .. site'
      BY <2>1, <2>2
    <3> QED
      BY <2>4, <3>1 DEF FindsRight
  <2> QED
    BY <2>3, <2>4
<1> QED
  BY <1>1, <1>2, <1>3 DEF Sights

\* A step that begins a task overtakes none whose content is older than its own reach.
LEMMA BeginsSights ==
    ASSUME TypeOK, Sights, NEW c \in Caller, ~Running(c),
           task' = [task EXCEPT ![c] = Begun],
           UNCHANGED <<site, entry>>,
           \A o \in Caller : o # c => stale'[o] = stale[o],
           Shares(c) /\ entry # NoEntry => stale'[c] # NoEntry /\ stale'[c].body = entry.body
    PROVE  Sights'
<1>1. /\ task'[c].status = "asking" /\ task'[c].since = site /\ task'[c].end = "none"
      /\ task'[c].reach \in Nat /\ task'[c].reach <= site
      /\ \A o \in Caller : Running(o) => task'[c].reach <= task[o].since
      /\ \A o \in Caller : o # c => task'[o] = task[o]
  BY BegunType, Reach, Versions DEF TypeOK
<1>2. Overtaken'
  BY <1>1, Fields DEF Sights, Overtaken, Running
<1>3. Renewable'
  BY <1>1, Fields DEF Sights, Renewable, Running, Shares
<1>4. Found'
  BY <1>1, Fields DEF Sights, Found
<1> QED
  BY <1>2, <1>3, <1>4 DEF Sights

\* What is stored is the new body, or the row that is there, renewed.
LEMMA Stores ==
    ASSUME TypeOK, NEW o \in Caller, Store(o)
    PROVE  \/ entry' = entry
           \/ /\ task[o].got = "same" /\ entry # NoEntry /\ entry'.body = entry.body
              /\ entry'.had <=> entry.body >= task[o].reach
           \/ /\ task[o].got = "new" /\ entry'.body = task[o].body
              /\ entry'.had <=> task[o].body >= task[o].reach
<1> DEFINE had == entry.body >= task[o].reach
           has == task[o].body >= task[o].reach
           renewed == [entry EXCEPT !.fresh = TRUE, !.had = had]
           written == [body |-> task[o].body, fresh |-> TRUE, keep |-> Keep[o], had |-> has]
<1>1. \/ entry' = entry
      \/ task[o].got = "same" /\ entry # NoEntry /\ entry' = renewed
      \/ task[o].got = "new" /\ entry' = written
  BY DEF Store
<1>2. written.body = task[o].body /\ (written.had <=> has)
  OBVIOUS
<1>3. had \in BOOLEAN
  OBVIOUS
<1>4. entry # NoEntry => renewed.body = entry.body /\ (renewed.had <=> had)
  <2> HIDE DEF had
  <2> QED
    BY <1>3 DEF TypeOK, Entries
<1> QED
  BY <1>1, <1>2, <1>4

\* No step disturbs it.
LEMMA NextSights == TypeOK /\ Flights /\ Sights /\ [Next]_vars => Sights'
<1> SUFFICES ASSUME TypeOK, Flights, Sights, [Next]_vars PROVE Sights'
  OBVIOUS
<1>0. site \in Nat
  BY Fields
<1>1. CASE UNCHANGED <<task, stale>> /\ site' \in Nat /\ site <= site' /\ StoresRecent
  <2>1. BeginsNone /\ FindsRight
    BY <1>1 DEF BeginsNone, FindsRight, Running
  <2> QED
    BY <1>1, <2>1, SightsKept
<1>2. CASE UNCHANGED <<site, entry>> /\ BeginsNone /\ FindsRight
  <2>1. StoresRecent
    BY <1>2 DEF StoresRecent
  <2>2. site' \in Nat
    BY <1>0, <1>2
  <2>3. site <= site'
    BY <1>0, <1>2
  <2> QED
    BY <1>2, <2>1, <2>2, <2>3, SightsKept
<1>3. CASE UNCHANGED vars
  <2>1. UNCHANGED <<site, entry>> /\ BeginsNone /\ FindsRight
    BY <1>3 DEF vars, BeginsNone, FindsRight, Running
  <2> QED
    BY <1>2, <2>1
<1>4. CASE Change
  <2>1. UNCHANGED <<entry, task, stale>> /\ site' = site + 1
    BY <1>4 DEF Change, callers
  <2>2. StoresRecent
    BY <2>1 DEF StoresRecent
  <2>3. site' \in Nat /\ site <= site'
    BY <1>0, <2>1
  <2> QED
    BY <1>1, <2>1, <2>2, <2>3
<1>5. CASE ExpireEntry \/ PurgeEntry
  <2>1. StoresRecent
    BY <1>5 DEF ExpireEntry, PurgeEntry, Hit, TypeOK, Entries, StoresRecent
  <2> QED
    BY <1>0, <1>1, <1>5, <2>1 DEF ExpireEntry, PurgeEntry, callers
<1>6. ASSUME NEW c \in Caller, Ask(c)
      PROVE  Sights'
  <2>1. CASE UNCHANGED task
    BY <1>0, <1>1, <1>6, <2>1 DEF Ask, StoresRecent
  <2>2. CASE task' = [task EXCEPT ![c] = Begun] /\ c \in Refreshing
    <3>1. ~Running(c)
      BY <1>6 DEF Ask, Flights, Running
    <3> QED
      BY <1>6, <2>2, <3>1, BeginsSights DEF Ask, Shares
  <2> QED
    BY <1>6, <2>1, <2>2 DEF Ask
<1>7. ASSUME NEW c \in Caller, Look(c)
      PROVE  Sights'
  <2>1. ~Running(c) /\ UNCHANGED <<site, entry>>
    BY <1>7 DEF Look, Flights, Running
  <2>2. \A o \in Caller : o # c => stale'[o] = stale[o]
    BY <1>7 DEF Look, TypeOK
  <2>3. entry # NoEntry => stale'[c] # NoEntry /\ stale'[c].body = entry.body
    <3>1. entry # NoEntry => /\ [entry EXCEPT !.fresh = FALSE] \in Entries
                             /\ [entry EXCEPT !.fresh = FALSE].body = entry.body
      BY DEF TypeOK, Entries
    <3> QED
      BY <1>7, <3>1, CachedReadAssumption DEF Look, TypeOK
  <2>4. CASE task' = [task EXCEPT ![c] = Begun]
    BY <2>1, <2>2, <2>3, <2>4, BeginsSights
  <2>5. CASE UNCHANGED task
    <3>1. BeginsNone /\ FindsRight
      BY <2>1, <2>2, <2>5 DEF BeginsNone, FindsRight, Running
    <3> QED
      BY <1>2, <2>1, <3>1
  <2> QED
    BY <1>7, <2>4, <2>5 DEF Look
<1>8. ASSUME NEW c \in Caller, Wake(c) \/ Cancel(c)
      PROVE  Sights'
  <2>1. \A o \in Caller : /\ task'[o] = task[o] \/ task'[o] = NoTask
                          /\ o # c => stale'[o] = stale[o]
    BY <1>8 DEF Wake, Cancel, TypeOK
  <2>2. Running(c) /\ task'[c] = task[c] => stale'[c] = stale[c]
    BY <1>8 DEF Wake, Cancel, Flights, Running
  <2>3. BeginsNone /\ FindsRight
    BY <2>1, <2>2, EndTypes DEF BeginsNone, FindsRight, Running
  <2> QED
    BY <1>2, <1>8, <2>3 DEF Wake, Cancel
<1>9. ASSUME NEW o \in Caller, Respond(o)
      PROVE  Sights'
  <2>1. UNCHANGED <<site, entry, stale>> /\ Running(o)
    BY <1>9 DEF Respond, callers, Running
  <2>2. BeginsNone
    BY <1>9, <2>1, Responds DEF BeginsNone, Running
  <2>3. FindsRight
    BY <1>9, <2>1, Responds DEF FindsRight, Sights, Found
  <2> QED
    BY <1>2, <2>1, <2>2, <2>3
<1>10. ASSUME NEW o \in Caller, Store(o)
      PROVE  Sights'
  <2>1. UNCHANGED <<site, stale>> /\ task[o].status = "got" /\ Running(o)
    BY <1>10 DEF Store, callers, Running
  <2>2. PICK how \in Endings \ {"lacked"} : task' = Ended(o, how)
    BY <1>10 DEF Store, EndedWith, Endings, Sights, Found, Revalidated
  <2>3. /\ task'[o].status = "done" /\ task'[o].end # "lacked"
        /\ \A c \in Caller : c # o => task'[c] = task[c]
    BY <2>2, EndTypes DEF Ended, TypeOK
  <2>4. BeginsNone /\ FindsRight
    BY <2>1, <2>3 DEF BeginsNone, FindsRight, Running
  <2>5. \/ entry' = entry
        \/ entry # NoEntry /\ entry'.body = entry.body
        \/ task[o].got = "new" /\ entry'.body = task[o].body
    BY <1>10, Stores
  <2>6. task[o].got = "new" => task[o].since <= task[o].body /\ task[o].body \in Nat
    <3>1. task[o].got = "new" => task[o].body \in task[o].since .. site
      BY <2>1 DEF Sights, Found
    <3>2. task[o].since \in Nat /\ task[o].body \in Nat /\ site \in Nat
      BY Fields
    <3> QED
      BY <3>1, <3>2
  <2>7. StoresRecent
    <3>1. CASE task[o].got = "new" /\ entry'.body = task[o].body
      <4>1. entry'.body \in Nat /\ task[o].since <= entry'.body
        BY <2>6, <3>1
      <4> QED
        BY <2>1, <4>1 DEF StoresRecent
    <3> QED
      BY <2>5, <3>1 DEF StoresRecent
  <2>8. site' \in Nat /\ site <= site'
    <3>1. site' = site
      BY <2>1
    <3> QED
      BY <1>0, <3>1
  <2> QED
    BY <2>4, <2>7, <2>8, SightsKept
<1>11. ASSUME (\E q \in Requester : Clear(q)) \/ (\E p \in Loop : Stop(p))
      PROVE  Sights'
  <2>1. UNCHANGED <<site, entry, stale>>
    BY <1>11 DEF Clear, Stop, callers
  <2>2. \A o \in Caller : task'[o] = task[o] \/ task'[o] = NoTask
    BY <1>11 DEF Clear, Stop
  <2>3. BeginsNone /\ FindsRight
    BY <2>1, <2>2, EndTypes DEF BeginsNone, FindsRight, Running
  <2> QED
    BY <1>2, <2>1, <2>3
<1> QED
  BY <1>3, <1>4, <1>5, <1>6, <1>7, <1>8, <1>9, <1>10, <1>11 DEF Next, Proceed

-----------------------------------------------------------------------------
(* The answers.                                                            *)

\* An entry is put into the cache, or renewed, only with a body the site had, and
\* everybody who waits gets one, or a fallback that was marked for it.
LEMMA NextRight == TypeOK /\ Flights /\ Sights /\ Right /\ [Next]_vars => Right'
<1> SUFFICES ASSUME TypeOK, Flights, Sights, Right, [Next]_vars PROVE Right'
  OBVIOUS
<1>1. CASE UNCHANGED <<entry, right>>
  BY <1>1 DEF Right
<1>2. CASE UNCHANGED right /\ (entry' # NoEntry => entry'.had)
  BY <1>2 DEF Right
<1>3. CASE UNCHANGED entry /\ \E c \in Caller : right' = [right EXCEPT ![c] = TRUE]
  BY <1>3 DEF Right, TypeOK
<1>4. CASE ExpireEntry
  BY <1>2, <1>4 DEF ExpireEntry, Hit, callers, Right, TypeOK, Entries
<1>5. CASE PurgeEntry
  BY <1>2, <1>5 DEF PurgeEntry, callers
<1>6. ASSUME NEW c \in Caller, Ask(c)
      PROVE  Right'
  <2>1. entry # NoEntry => entry.had = TRUE
    BY DEF Right, TypeOK, Entries
  <2> QED
    BY <1>1, <1>3, <1>6, <2>1 DEF Ask, Hit
<1>7. ASSUME NEW c \in Caller, Wake(c)
      PROVE  Right'
  <2>1. Fallback(c) # NoEntry => Fallback(c).keep = TRUE
    BY DEF Fallback, TypeOK, Entries
  <2>2. /\ UNCHANGED entry
        /\ UNCHANGED right \/ right' = [right EXCEPT ![c] = TRUE]
    <3>1. task[joined[c]].end = "lacked" => FALSE
      BY <1>7 DEF Wake, Flights, Sights, Found
    <3> QED
      BY <1>7, <2>1, <3>1 DEF Wake
  <2> QED
    BY <1>1, <1>3, <2>2
<1>8. ASSUME NEW o \in Caller, Store(o)
      PROVE  Right'
  <2>1. UNCHANGED right /\ task[o].status = "got" /\ Running(o)
    BY <1>8 DEF Store, callers, Running
  <2>0. site \in Nat /\ task[o].since \in Nat /\ task[o].reach \in Nat /\ task[o].body \in Nat
    BY Fields
  <2>2. CASE task[o].got = "new" /\ entry'.body = task[o].body
             /\ (entry'.had <=> task[o].body >= task[o].reach)
    <3>1. task[o].body \in task[o].since .. site
      BY <2>1, <2>2 DEF Sights, Found
    <3>2. task[o].reach <= task[o].since
      BY <2>1 DEF Sights, Overtaken
    <3>3. task[o].body >= task[o].reach
      BY <3>1, <3>2, <2>0
    <3> QED
      BY <1>2, <2>1, <2>2, <3>3
  <2>3. CASE task[o].got = "same" /\ entry # NoEntry /\ entry'.body = entry.body
             /\ (entry'.had <=> entry.body >= task[o].reach)
    <3>1. stale[o] # NoEntry /\ stale[o].body \in task[o].since .. site
      BY <2>1, <2>3 DEF Sights, Found
    <3>2. task[o].reach <= task[o].since
      BY <2>1 DEF Sights, Overtaken
    <3>3. Shares(o)
      BY <3>1 DEF Flights
    <3>4. entry.body >= task[o].reach \/ stale[o].body = entry.body
      BY <2>1, <2>3, <3>3 DEF Sights, Renewable
    <3>5. stale[o].body \in Nat
      BY <3>1, Fields
    <3>6. entry.body >= task[o].reach
      BY <2>0, <3>1, <3>2, <3>4, <3>5
    <3> QED
      BY <1>2, <2>1, <2>3, <3>6
  <2> QED
    BY <1>1, <1>8, <2>1, <2>2, <2>3, Stores
<1> QED
  BY <1>1, <1>4, <1>5, <1>6, <1>7, <1>8
     DEF Next, Proceed, vars, callers, Change, Look, Cancel, Respond, Clear, Stop

-----------------------------------------------------------------------------
(* The theorems.                                                           *)

LEMMA Invariant == Spec => []ReadIInv
<1>1. Init => ReadIInv
  BY InitRead
<1>2. ReadIInv /\ [Next]_vars => ReadIInv'
  BY NextType, NextFlights, NextSights, NextRight DEF ReadIInv
<1> QED
  BY <1>1, <1>2, PTL DEF Spec

\* Whatever reads overtake one another in however many processes, and whatever is purged
\* or replaced meanwhile, the site had what the cache calls fresh while a task ran that wrote
\* or renewed it, or that one of them overtook; an answer from a task is no older than
\* that task; and a fallback was marked for it.
THEOREM AnswersAreExplained == Spec => []AnswersExplained
<1>1. ReadIInv => AnswersExplained
  BY DEF ReadIInv, AnswersExplained, Right
<1> QED
  BY <1>1, Invariant, PTL

\* A requester has one request on its way for the callers that share, and whoever waits
\* has a task to wait for, also when the caller that started it has left.
THEOREM FlightsAreSingle == Spec => []SingleFlight
<1>1. ReadIInv => SingleFlight
  <2> SUFFICES ASSUME ReadIInv PROVE SingleFlight
    OBVIOUS
  <2>1. ASSUME NEW q \in Requester
        PROVE  Cardinality({c \in Caller : Via[c] = q /\ Shares(c) /\ Running(c)}) <= 1
    <3> DEFINE S == {c \in Caller : Via[c] = q /\ Shares(c) /\ Running(c)}
    <3>1. S \subseteq {inflight[q]}
      BY DEF ReadIInv, Flights
    <3>2. IsFiniteSet({inflight[q]}) /\ Cardinality({inflight[q]}) = 1
      BY FS_Singleton
    <3>3. Cardinality(S) <= Cardinality({inflight[q]})
      BY <3>1, <3>2, FS_Subset
    <3> QED
      BY <3>2, <3>3
  <2>2. ASSUME NEW c \in Caller, pc[c] = "waiting"
        PROVE  task[joined[c]].status \in {"asking", "got", "done"}
    <3>1. joined[c] \in Caller /\ task[joined[c]].status # "none"
      BY <2>2 DEF ReadIInv, Flights
    <3> QED
      BY <3>1, TaskFields DEF ReadIInv, TypeOK
  <2> QED
    BY <2>1, <2>2 DEF SingleFlight
<1> QED
  BY <1>1, Invariant, PTL

-----------------------------------------------------------------------------
(* THE DELETION OF CACHE CONTENT.  The invariant adds to the two           *)
(* properties what a process under the lock relies on: its generation is   *)
(* the pending one and is owed until it completes it, and nothing can be   *)
(* deleted meanwhile.                                                      *)

Compacting(p) == stage[p] \in {"committed", "checkpointed", "vacuumed", "compacted"}

\* What a process that compacts owes, and what it has reached.
StageInv ==
    \A p \in Process :
        /\ Compacting(p) => generation[p] = pending /\ pending > completed
        /\ stage[p] = "compacted" => residue = {}
        /\ stage[p] \notin {"closed", "opening"} => rows \cap Legacy = {} /\ pending # 0

ScrubIInv == ScrubTypeOK /\ StageInv /\ ScrubbedMeansGone

\* At most one process is under the lock.
LEMMA OneHolder ==
    ASSUME ScrubTypeOK, NEW p \in Process, NEW q \in Process, Locked(p), Locked(q)
    PROVE  p = q
BY DEF ScrubTypeOK

\* The next generation is larger than both that are there.
LEMMA AdvancedAbove ==
    ASSUME ScrubTypeOK
    PROVE  Advanced \in Nat /\ Advanced > pending /\ Advanced > completed
BY DEF ScrubTypeOK, Advanced

\* Every initial database, also one with residue, satisfies the invariant.
LEMMA InitScrub == ScrubInit => ScrubIInv
BY CacheAssumption
DEF ScrubInit, ScrubIInv, ScrubTypeOK, StageInv, ScrubbedMeansGone, Stages, Locked,
    Compacting, Entry

\* A transaction that deletes keeps the invariant: what it deletes is owed.
LEMMA DeleteScrub ==
    ASSUME ScrubIInv, NEW p \in Process, Locked(p), ~Compacting(p),
           NEW deleted \in SUBSET Entry, NEW owed \in BOOLEAN,
           deleted \subseteq rows, (rows \ deleted) \cap Legacy = {}, owed \/ pending # 0,
           Delete(p, deleted, owed)
    PROVE  ScrubIInv'
<1> DEFINE next == IF deleted # {} \/ owed THEN Advanced ELSE pending
           clean == next <= completed
<1>1. /\ rows' = rows \ deleted
      /\ residue' = residue \cup deleted
      /\ pending' = next
      /\ generation' = [generation EXCEPT ![p] = next]
      /\ stage' = [stage EXCEPT ![p] = IF clean THEN "open" ELSE "committed"]
      /\ lock' = IF clean THEN NoProcess ELSE lock
      /\ UNCHANGED <<completed, failures>>
  BY DEF Delete
<1>2. next \in Nat /\ next # 0 /\ next >= pending
  BY AdvancedAbove DEF ScrubIInv, ScrubTypeOK
<1>3. clean => deleted = {} /\ ~owed /\ next = pending
  BY AdvancedAbove DEF ScrubIInv, ScrubTypeOK
<1>4. \A q \in Process : q # p => ~Locked(q) /\ ~Compacting(q) /\ stage[q] \in {"closed", "open"}
  BY OneHolder DEF ScrubIInv, Locked, Compacting
<1>5. lock = p
  BY DEF ScrubIInv, ScrubTypeOK
<1> HIDE DEF next, clean
<1>6. ScrubTypeOK'
  <2>1. rows' \subseteq Entry /\ residue' \subseteq Entry /\ pending' \in Nat
        /\ completed' \in Nat /\ lock' \in Process \cup {NoProcess} /\ failures' \in Nat
    BY <1>1, <1>2 DEF ScrubIInv, ScrubTypeOK
  <2>2. stage' \in [Process -> Stages]
    BY <1>1 DEF ScrubIInv, ScrubTypeOK, Stages
  <2>3. generation' \in [Process -> Nat]
    BY <1>1, <1>2 DEF ScrubIInv, ScrubTypeOK
  <2>4. \A q \in Process : Locked(q)' <=> lock' = q
    <3> SUFFICES ASSUME NEW q \in Process PROVE Locked(q)' <=> lock' = q
      OBVIOUS
    <3>1. CASE q = p
      BY <3>1, <1>1, <1>5, CacheAssumption DEF ScrubIInv, ScrubTypeOK, Locked
    <3>2. CASE q # p
      BY <3>2, <1>1, <1>4, <1>5, CacheAssumption DEF ScrubIInv, ScrubTypeOK, Locked
    <3> QED BY <3>1, <3>2
  <2> QED BY <2>1, <2>2, <2>3, <2>4 DEF ScrubTypeOK
<1>7. StageInv'
  <2> SUFFICES ASSUME NEW q \in Process
               PROVE  /\ Compacting(q)' => generation'[q] = pending' /\ pending' > completed'
                      /\ stage'[q] = "compacted" => residue' = {}
                      /\ stage'[q] \notin {"closed", "opening"} =>
                            rows' \cap Legacy = {} /\ pending' # 0
    BY DEF StageInv
  <2>1. CASE q = p
    <3>1. stage'[q] = IF clean THEN "open" ELSE "committed"
      BY <2>1, <1>1 DEF ScrubIInv, ScrubTypeOK
    <3>2. generation'[q] = next
      BY <2>1, <1>1 DEF ScrubIInv, ScrubTypeOK
    <3>3. ~clean => next > completed
      BY <1>2 DEF clean, ScrubIInv, ScrubTypeOK
    <3> QED BY <3>1, <3>2, <3>3, <1>1, <1>2 DEF Compacting
  <2>2. CASE q # p
    BY <2>2, <1>1, <1>2, <1>4 DEF ScrubIInv, ScrubTypeOK, Compacting
  <2> QED BY <2>1, <2>2
<1>8. ScrubbedMeansGone'
  <2>1. CASE clean
    <3>1. pending' = pending /\ completed' = completed /\ residue' = residue
      BY <2>1, <1>1, <1>3
    <3> QED BY <3>1 DEF ScrubIInv, ScrubbedMeansGone
  <2>2. CASE ~clean
    <3>1. ~(completed' >= pending')
      BY <2>2, <1>1, <1>2 DEF clean, ScrubIInv, ScrubTypeOK
    <3> QED BY <3>1 DEF ScrubbedMeansGone
  <2> QED BY <2>1, <2>2
<1> QED BY <1>6, <1>7, <1>8 DEF ScrubIInv

\* A step under the lock that changes neither the generations nor the residue,
\* and leaves its process where it owes what it owed, keeps the invariant.
LEMMA StageScrub ==
    ASSUME ScrubIInv, NEW p \in Process, NEW to \in Stages,
           Locked(p), stage' = [stage EXCEPT ![p] = to], to \notin {"closed", "open", "compacted"},
           Compacting(p),
           UNCHANGED <<rows, residue, pending, completed, lock, generation, failures>>
    PROVE  ScrubIInv'
<1>1. ScrubTypeOK'
  BY DEF ScrubIInv, ScrubTypeOK, Locked
<1>2. StageInv'
  BY DEF ScrubIInv, ScrubTypeOK, StageInv, Compacting, Stages
<1>3. ScrubbedMeansGone'
  BY DEF ScrubIInv, ScrubbedMeansGone
<1> QED BY <1>1, <1>2, <1>3 DEF ScrubIInv

\* Taking the lock.
LEMMA EnterScrub ==
    ASSUME ScrubIInv, NEW p \in Process, Open(p) \/ StartPurge(p)
    PROVE  ScrubIInv'
<1>1. /\ lock = NoProcess /\ lock' = p
      /\ UNCHANGED <<rows, residue, pending, completed, generation, failures>>
      /\ \/ stage[p] = "closed" /\ stage' = [stage EXCEPT ![p] = "opening"]
         \/ stage[p] = "open" /\ stage' = [stage EXCEPT ![p] = "purging"]
  BY DEF Open, StartPurge
<1>2. ScrubTypeOK'
  BY <1>1, CacheAssumption DEF ScrubIInv, ScrubTypeOK, Locked, Stages
<1>3. StageInv'
  BY <1>1 DEF ScrubIInv, ScrubTypeOK, StageInv, Compacting
<1>4. ScrubbedMeansGone'
  BY <1>1 DEF ScrubIInv, ScrubbedMeansGone
<1> QED BY <1>2, <1>3, <1>4 DEF ScrubIInv

\* Releasing it, with or without a failure.
LEMMA LeaveScrub ==
    ASSUME ScrubIInv, NEW p \in Process, Exit(p) \/ Fail(p)
    PROVE  ScrubIInv'
<1>1. /\ stage' = [stage EXCEPT ![p] = "closed"]
      /\ UNCHANGED <<rows, residue, pending, completed, generation>>
      /\ failures' \in Nat
      /\ \/ stage[p] = "open" /\ lock' = lock
         \/ lock' = IF lock = p THEN NoProcess ELSE lock
  BY DEF Exit, Fail, ScrubIInv, ScrubTypeOK
<1>2. \A q \in Process : Locked(q)' <=> lock' = q
  BY <1>1, CacheAssumption DEF ScrubIInv, ScrubTypeOK, Locked
<1>3. ScrubTypeOK'
  BY <1>1, <1>2 DEF ScrubIInv, ScrubTypeOK, Stages
<1>4. StageInv'
  BY <1>1 DEF ScrubIInv, ScrubTypeOK, StageInv, Compacting
<1>5. ScrubbedMeansGone'
  BY <1>1 DEF ScrubIInv, ScrubbedMeansGone
<1> QED BY <1>3, <1>4, <1>5 DEF ScrubIInv

\* The end of the compaction.
LEMMA TruncateScrub ==
    ASSUME ScrubIInv, NEW p \in Process, Truncate(p)
    PROVE  ScrubIInv'
<1>1. /\ stage[p] = "vacuumed" /\ stage' = [stage EXCEPT ![p] = "compacted"] /\ residue' = {}
      /\ UNCHANGED <<rows, pending, completed, lock, generation, failures>>
  BY DEF Truncate, Advance
<1>2. ScrubTypeOK'
  BY <1>1 DEF ScrubIInv, ScrubTypeOK, Locked, Stages
<1>3. StageInv'
  BY <1>1 DEF ScrubIInv, ScrubTypeOK, StageInv, Compacting
<1>4. ScrubbedMeansGone'
  BY <1>1 DEF ScrubbedMeansGone
<1> QED BY <1>2, <1>3, <1>4 DEF ScrubIInv

\* The generation is completed only by the process that compacted for it.
LEMMA CompleteScrub ==
    ASSUME ScrubIInv, NEW p \in Process, Complete(p)
    PROVE  ScrubIInv'
<1>1. /\ stage[p] = "compacted" /\ stage' = [stage EXCEPT ![p] = "open"] /\ lock' = NoProcess
      /\ UNCHANGED <<rows, residue, pending, generation, failures>>
  BY DEF Complete, Advance
<1>2. residue = {} /\ generation[p] = pending /\ completed' = pending /\ lock = p
      /\ rows \cap Legacy = {} /\ pending # 0
  BY <1>1 DEF Complete, ScrubIInv, ScrubTypeOK, StageInv, Compacting, Locked
<1>3. \A q \in Process : q # p => ~Locked(q) /\ ~Compacting(q)
  BY <1>1, <1>2 DEF ScrubIInv, ScrubTypeOK, Locked, Compacting
<1>4. ScrubTypeOK'
  BY <1>1, <1>2, <1>3, CacheAssumption DEF ScrubIInv, ScrubTypeOK, Locked, Stages
<1>5. StageInv'
  <2> SUFFICES ASSUME NEW q \in Process
               PROVE  /\ Compacting(q)' => generation'[q] = pending' /\ pending' > completed'
                      /\ stage'[q] = "compacted" => residue' = {}
                      /\ stage'[q] \notin {"closed", "opening"} =>
                            rows' \cap Legacy = {} /\ pending' # 0
    BY DEF StageInv
  <2>1. ~Compacting(q)' /\ stage'[q] # "compacted"
    BY <1>1, <1>3 DEF ScrubIInv, ScrubTypeOK, Compacting
  <2> QED BY <2>1, <1>1, <1>2
<1>6. ScrubbedMeansGone'
  BY <1>1, <1>2 DEF ScrubbedMeansGone
<1> QED BY <1>4, <1>5, <1>6 DEF ScrubIInv

\* Every step keeps the invariant.
LEMMA NextScrub == ScrubIInv /\ [ScrubNext]_scrubVars => ScrubIInv'
<1> SUFFICES ASSUME ScrubIInv, [ScrubNext]_scrubVars PROVE ScrubIInv'
  OBVIOUS
<1>1. CASE UNCHANGED scrubVars
  BY <1>1 DEF scrubVars, ScrubIInv, ScrubTypeOK, StageInv, ScrubbedMeansGone, Locked, Compacting
<1>2. ASSUME NEW p \in Process, Opened(p) PROVE ScrubIInv'
  <2>1. Locked(p) /\ ~Compacting(p) /\ Owed \in BOOLEAN /\ (Owed \/ pending # 0)
    BY <1>2 DEF Opened, Locked, Compacting, Owed
  <2>2. rows \cap Legacy \in SUBSET Entry /\ (rows \ (rows \cap Legacy)) \cap Legacy = {}
    BY DEF ScrubIInv, ScrubTypeOK
  <2> QED BY <1>2, <2>1, <2>2, DeleteScrub DEF Opened
<1>3. ASSUME NEW p \in Process, Purge(p) PROVE ScrubIInv'
  <2>1. Locked(p) /\ ~Compacting(p) /\ pending # 0 /\ rows \cap Legacy = {}
    BY <1>3 DEF Purge, Locked, Compacting, ScrubIInv, StageInv
  <2>2. PICK deleted : deleted \subseteq rows /\ Delete(p, deleted, FALSE)
    BY <1>3 DEF Purge
  <2>3. deleted \in SUBSET Entry /\ (rows \ deleted) \cap Legacy = {}
    BY <2>1, <2>2 DEF ScrubIInv, ScrubTypeOK
  <2> QED BY <2>1, <2>2, <2>3, DeleteScrub
<1>4. ASSUME NEW p \in Process, Checkpoint(p) \/ Vacuum(p) PROVE ScrubIInv'
  <2>1. PICK to \in {"checkpointed", "vacuumed"} : stage' = [stage EXCEPT ![p] = to]
    BY <1>4 DEF Checkpoint, Vacuum, Advance
  <2>2. /\ Locked(p) /\ Compacting(p)
        /\ UNCHANGED <<rows, residue, pending, completed, lock, generation, failures>>
    BY <1>4 DEF Checkpoint, Vacuum, Advance, Locked, Compacting
  <2>3. to \in Stages /\ to \notin {"closed", "open", "compacted"}
    BY <2>1 DEF Stages
  <2> QED BY <2>1, <2>2, <2>3, StageScrub
<1>5. ASSUME NEW p \in Process, Put(p) PROVE ScrubIInv'
  <2>1. PICK k \in Key : rows' = rows \cup {k}
    BY <1>5 DEF Put
  <2>2. UNCHANGED <<residue, pending, completed, lock, stage, generation, failures>>
    BY <1>5 DEF Put
  <2>3. rows' \subseteq Entry /\ (rows \cap Legacy = {} => rows' \cap Legacy = {})
    BY <2>1, CacheAssumption DEF ScrubIInv, ScrubTypeOK, Entry
  <2>4. ScrubTypeOK'
    BY <2>2, <2>3 DEF ScrubIInv, ScrubTypeOK, Locked
  <2>5. StageInv' /\ ScrubbedMeansGone'
    BY <2>2, <2>3 DEF ScrubIInv, StageInv, ScrubbedMeansGone, Compacting
  <2> QED BY <2>4, <2>5 DEF ScrubIInv
<1> QED
  BY <1>1, <1>2, <1>3, <1>4, <1>5, EnterScrub, LeaveScrub, TruncateScrub, CompleteScrub
  DEF ScrubNext, Work

\* The tables, the generations and the lock are always of their types.
THEOREM ScrubTypeCorrect == ScrubSpec => []ScrubTypeOK
<1>1. ScrubIInv => ScrubTypeOK
  BY DEF ScrubIInv
<1> QED BY InitScrub, NextScrub, <1>1, PTL DEF ScrubSpec

\* A completed generation always means that the deleted content is gone.
THEOREM ScrubHolds == ScrubSpec => []ScrubbedMeansGone
<1>1. ScrubIInv => ScrubbedMeansGone
  BY DEF ScrubIInv
<1> QED BY InitScrub, NextScrub, <1>1, PTL DEF ScrubSpec

\* An opening or a purge never succeeds over deleted content that is left.
LEMMA StepReturnsClean == ScrubIInv /\ [ScrubNext]_scrubVars => [ReturnsClean]_scrubVars
<1> SUFFICES ASSUME ScrubIInv, [ScrubNext]_scrubVars, NEW p \in Process,
                    stage[p] \notin {"closed", "open"}, stage'[p] = "open"
             PROVE  residue' = {} /\ rows' \cap Legacy = {}
  BY DEF ReturnsClean
<1>1. ScrubIInv'
  BY NextScrub
<1>2. rows' \cap Legacy = {} /\ pending' # 0
  BY <1>1 DEF ScrubIInv, StageInv
<1>3. completed' >= pending'
  <2>1. PICK q \in Process : Work(q) \/ StartPurge(q) \/ Put(q) \/ Exit(q) \/ Fail(q)
    BY DEF ScrubNext, scrubVars
  <2>2. q = p
    BY <2>1 DEF Work, StartPurge, Put, Exit, Fail, Open, Opened, Purge, Delete, Checkpoint,
                Vacuum, Truncate, Complete, Advance, ScrubIInv, ScrubTypeOK
  <2>3. CASE Complete(p)
    BY <2>3 DEF Complete, Advance, ScrubIInv, ScrubTypeOK, StageInv, Compacting
  <2>4. ASSUME NEW deleted, NEW owed, Delete(p, deleted, owed) PROVE completed' >= pending'
    <3> DEFINE next == IF deleted # {} \/ owed THEN Advanced ELSE pending
    <3>1. next <= completed
      BY <2>4 DEF Delete, ScrubIInv, ScrubTypeOK
    <3>2. pending' = next /\ completed' = completed /\ next \in Nat
      BY <2>4, AdvancedAbove DEF Delete, ScrubIInv, ScrubTypeOK
    <3> QED BY <3>1, <3>2 DEF ScrubIInv, ScrubTypeOK
  <2>5. Complete(p) \/ Opened(p) \/ Purge(p)
    BY <2>1, <2>2 DEF Work, StartPurge, Put, Exit, Fail, Open, Checkpoint, Vacuum, Truncate,
                      Advance, ScrubIInv, ScrubTypeOK
  <2> QED BY <2>3, <2>4, <2>5 DEF Opened, Purge
<1> QED BY <1>1, <1>2, <1>3 DEF ScrubIInv, ScrubbedMeansGone

\* Every success is clean, for any number of processes, crashes and entries.
THEOREM SuccessesClean == ScrubSpec => SuccessIsClean
<1>1. ScrubIInv /\ [ScrubNext]_scrubVars => [ReturnsClean]_scrubVars
  BY StepReturnsClean
<1> QED BY InitScrub, NextScrub, <1>1, PTL DEF ScrubSpec, SuccessIsClean
=============================================================================
