---------------------------- MODULE JobLedgerProofs ----------------------------
(***************************************************************************)
(* Proofs about JobLedger, for every set of runs, jobs and contents, every *)
(* batch size and every number of concurrent writers.                      *)
(***************************************************************************)
EXTENDS JobLedgerHistory, FiniteSetTheorems, WellFoundedInduction, TLAPS

(***************************************************************************)
(* What a batch is made of.                                                *)
(***************************************************************************)

\* A batch maps jobs that the snapshot lists to contents.
LEMMA BatchType ==
    ASSUME NEW s \in Seq(Listing), NEW offset \in Nat
    PROVE  /\ DOMAIN BatchOf(s, offset) \subseteq Job
           /\ DOMAIN BatchOf(s, offset) \subseteq SeenBy(s)
           /\ \A j \in DOMAIN BatchOf(s, offset) : BatchOf(s, offset)[j] \in Hash
<1> DEFINE at == {i \in Firsts(s) : Rank(s, i) \in offset .. (offset + BatchSize - 1)}
           ids == {s[i].id : i \in at}
<1>1. at \subseteq DOMAIN s
  BY DEF Firsts
<1>2. \A i \in at : s[i] \in Listing
  BY <1>1
<1>3. \A i \in at : s[i].id \in Job /\ s[i].hash \in Hash
  BY <1>2 DEF Listing
<1>4. ids \subseteq Job /\ ids \subseteq SeenBy(s)
  BY <1>1, <1>3 DEF SeenBy
<1>5. \A j \in ids : (CHOOSE i \in at : s[i].id = j) \in at
  OBVIOUS
<1>6. BatchOf(s, offset) = [j \in ids |-> s[CHOOSE i \in at : s[i].id = j].hash]
  BY DEF BatchOf
<1> HIDE DEF at, ids
<1>7. \A j \in ids : s[CHOOSE i \in at : s[i].id = j].hash \in Hash
  BY <1>3, <1>5
<1> QED
  BY <1>4, <1>6, <1>7

\* The lead of a batch is a job.
LEMMA LeadType ==
    ASSUME NEW s \in Seq(Listing), NEW offset \in Nat
    PROVE  LeadOf(s, offset) \subseteq Job
<1>1. \A i \in Firsts(s) : s[i] \in Listing
  BY DEF Firsts
<1> QED
  BY <1>1 DEF LeadOf, Listing

\* The row a session knows is a row.
LEMMA KnownType ==
    ASSUME TypeOK, NEW r \in Run, NEW j \in Job
    PROVE  Known(r, j) \in Row
<1>1. attempt[r].read \subseteq [id : Job, row : Row]
  BY DEF TypeOK, Attempt
<1>2. CASE j \in ReadIn(r)
  <2>1. PICK m \in attempt[r].read : m.id = j
    BY <1>2 DEF ReadIn
  <2>2. (CHOOSE n \in attempt[r].read : n.id = j) \in attempt[r].read
    BY <2>1
  <2> QED
    BY <1>1, <1>2, <2>2 DEF Known
<1>3. CASE j \notin ReadIn(r)
  BY <1>3 DEF Known, TypeOK
<1> QED
  BY <1>2, <1>3

\* The version of a content is a number, and the versions of a job stay contents.
LEMMA VersionType ==
    ASSUME TypeOK, NEW j \in Job, NEW h \in Hash
    PROVE  VersionOf(j, h) \in Nat /\ VersionsWith(j, h) \in Seq(Hash)
<1>1. versions[j] \in Seq(Hash)
  BY DEF TypeOK
<1>2. CASE h \in HashesOf(j)
  <2>1. \E n \in DOMAIN versions[j] : versions[j][n] = h
    BY <1>2 DEF HashesOf
  <2>2. (CHOOSE n \in DOMAIN versions[j] : versions[j][n] = h) \in DOMAIN versions[j]
    BY <2>1
  <2> QED
    BY <1>1, <1>2, <2>2 DEF VersionOf, VersionsWith
<1>3. CASE h \notin HashesOf(j)
  BY <1>1, <1>3 DEF VersionOf, VersionsWith
<1> QED
  BY <1>2, <1>3

\* What the next batch writes is of the right type.
LEMMA BatchWrites ==
    ASSUME TypeOK, NEW r \in Run
    PROVE  /\ DOMAIN Batch(r) \subseteq Job
           /\ IsFiniteSet(DOMAIN Batch(r))
           /\ DOMAIN KindIn(r) = DOMAIN Batch(r)
           /\ \A j \in DOMAIN Batch(r) :
                 /\ Batch(r)[j] \in Hash
                 /\ KindIn(r)[j] \in SeenKinds
                 /\ VersionIn(r)[j] \in Nat
<1>1. attempt[r].jobs \in Seq(Listing) /\ attempt[r].offset \in Nat
  BY DEF TypeOK, Attempt
<1>2. /\ DOMAIN Batch(r) \subseteq Job
      /\ \A j \in DOMAIN Batch(r) : Batch(r)[j] \in Hash
  BY <1>1, BatchType DEF Batch
<1>3. IsFiniteSet(DOMAIN Batch(r))
  BY <1>2, FS_Subset, ConstantsAssumption
<1>4. \A j \in DOMAIN Batch(r) : VersionIn(r)[j] \in Nat
  BY <1>2, VersionType DEF VersionIn
<1> QED
  BY <1>2, <1>3, <1>4 DEF KindIn, ObservationKind, SeenKinds

\* Counting a batch adds a number of jobs to every counter.
LEMMA CountedType ==
    ASSUME NEW count \in [Kinds -> Nat], NEW kind, IsFiniteSet(DOMAIN kind)
    PROVE  Counted(count, kind) \in [Kinds -> Nat]
<1>1. \A k \in Kinds : Cardinality({j \in DOMAIN kind : kind[j] = k}) \in Nat
  BY FS_Subset, FS_CardinalityType
<1> QED
  BY <1>1 DEF Counted

(***************************************************************************)
(* Type correctness.                                                       *)
(***************************************************************************)

\* An empty database is well typed.
LEMMA InitType == Init => TypeOK
BY DEF Init, TypeOK, NoRun, NoRow, AttemptAt, RunRow, Row, Attempt, Kinds, SeenKinds

\* Leaving keeps the attempts well typed.
LEMMA LeaveType ==
    ASSUME TypeOK, NEW r \in Run, NEW pc \in {"done", "lost"}, Leave(r, pc)
    PROVE  attempt' \in [Run -> Attempt]
<1>1. AttemptAt(pc, <<>>, FALSE) \in Attempt
  BY DEF AttemptAt, Attempt
<1> QED
  BY <1>1 DEF TypeOK, Leave

\* Updates of a run row, and of an attempt, field by field.
LEMMA RunRowUpdates ==
    ASSUME NEW q \in RunRow
    PROVE  /\ \A authoritative \in BOOLEAN,
                kind \in {"provider", "cancelled", "non_authoritative_snapshot", "persistence"} :
                [q EXCEPT !.status = "failed", !.authoritative = authoritative, !.error = kind]
                  \in RunRow
           /\ \A count \in [Kinds -> Nat], jobCount \in Nat, batches \in Nat :
                [q EXCEPT !.count = count, !.jobCount = jobCount, !.batches = batches]
                  \in RunRow
           /\ \A count \in [Kinds -> Nat] :
                [q EXCEPT !.count = count, !.status = "succeeded", !.authoritative = TRUE]
                  \in RunRow
BY DEF RunRow

\* What a committed batch changes of its attempt.
LEMMA AttemptUpdate ==
    ASSUME NEW q \in Attempt, NEW offset \in Nat
    PROVE  [q EXCEPT !.pc = "committing", !.read = {}, !.offset = offset] \in Attempt
BY DEF Attempt

\* A session that has read rows is at a known point.
LEMMA AttemptReads ==
    ASSUME NEW q \in Attempt, NEW pc \in {"batch", "closing"},
           NEW read \in SUBSET [id : Job, row : Row]
    PROVE  [q EXCEPT !.pc = pc, !.read = read] \in Attempt
BY DEF Attempt

\* A recorded failure writes a run row and nothing else (fail_job_sync_run).
LEMMA FailedType ==
    ASSUME TypeOK, NEW r \in Run, NEW authoritative \in BOOLEAN,
           NEW kind \in {"provider", "cancelled", "non_authoritative_snapshot", "persistence"},
           Failed(r, kind, authoritative)
    PROVE  /\ runs' \in [Run -> RunRow]
           /\ UNCHANGED <<rows, versions, observations>>
<1>1. runs[r] \in RunRow
  BY DEF TypeOK
<1>2. [runs[r] EXCEPT !.status = "failed", !.authoritative = authoritative, !.error = kind]
        \in RunRow
  BY <1>1, RunRowUpdates
<1>3. runs' = [runs EXCEPT ![r] = [runs[r] EXCEPT !.status = "failed",
                                                 !.authoritative = authoritative,
                                                 !.error = kind]]
  BY DEF Failed, TypeOK, RunRow
<1> QED
  BY <1>2, <1>3 DEF TypeOK, Failed

\* A batch transaction writes rows of their schemas.
LEMMA CommitBatchType ==
    ASSUME TypeOK, NEW r \in Run, CommitBatch(r)
    PROVE  TypeOK'
<1>0. \A j \in DOMAIN Batch(r) :
         j \in Job /\ Batch(r)[j] \in Hash /\ KindIn(r)[j] \in Kinds /\ VersionIn(r)[j] \in Nat
  BY BatchWrites DEF Kinds
<1>1. runs' \in [Run -> RunRow]
  <2>1. Counted(runs[r].count, KindIn(r)) \in [Kinds -> Nat]
    BY BatchWrites, CountedType DEF TypeOK, RunRow
  <2>2. Cardinality(DOMAIN Batch(r)) \in Nat
    BY BatchWrites, FS_CardinalityType
  <2>3. runs[r] \in RunRow
    BY DEF TypeOK
  <2> DEFINE jobCount == runs[r].jobCount + Cardinality(DOMAIN Batch(r))
             batches == runs[r].batches + 1
  <2>4. jobCount \in Nat /\ batches \in Nat
    BY <2>2, <2>3 DEF RunRow
  <2>5. [runs[r] EXCEPT !.count = Counted(runs[r].count, KindIn(r)),
                        !.jobCount = jobCount, !.batches = batches] \in RunRow
    BY <2>1, <2>3, <2>4, RunRowUpdates
  <2>6. runs' = [runs EXCEPT ![r] =
           [runs[r] EXCEPT !.count = Counted(runs[r].count, KindIn(r)),
                           !.jobCount = jobCount, !.batches = batches]]
    BY <2>3 DEF CommitBatch, TypeOK, RunRow
  <2> QED
    BY <2>5, <2>6 DEF TypeOK
<1>2. rows' \in [Job -> Row]
  <2>1. ASSUME NEW j \in DOMAIN Batch(r)
        PROVE  Flushed(Known(r, j), [status |-> "open", version |-> VersionIn(r)[j]], rows[j])
                 \in Row
    <3>1. Known(r, j) \in Row /\ rows[j] \in Row
      BY <1>0, KnownType DEF TypeOK
    <3>2. VersionIn(r)[j] \in Nat
      BY <1>0
    <3> QED
      BY <3>1, <3>2 DEF Flushed, Row
  <2> QED
    BY <2>1 DEF CommitBatch, TypeOK
<1>3. versions' \in [Job -> Seq(Hash)]
  BY <1>0, VersionType DEF CommitBatch, TypeOK
<1>4. observations' \in [Job -> Seq(Observation)]
  <2>1. \A j \in DOMAIN Batch(r) :
          [run |-> r, kind |-> KindIn(r)[j], version |-> VersionIn(r)[j]] \in Observation
    BY <1>0 DEF Observation
  <2> QED
    BY <2>1 DEF CommitBatch, TypeOK
<1>5. attempt' \in [Run -> Attempt]
  <2>1. attempt[r] \in Attempt
    BY DEF TypeOK
  <2>2. attempt[r].offset + BatchSize \in Nat
    BY <2>1, ConstantsAssumption DEF Attempt
  <2>3. [attempt[r] EXCEPT !.pc = "committing", !.read = {},
                           !.offset = attempt[r].offset + BatchSize] \in Attempt
    BY <2>1, <2>2, AttemptUpdate
  <2>4. attempt' = [attempt EXCEPT ![r] =
           [attempt[r] EXCEPT !.pc = "committing", !.read = {},
                              !.offset = attempt[r].offset + BatchSize]]
    BY <2>1 DEF CommitBatch, TypeOK, Attempt
  <2> QED
    BY <2>3, <2>4 DEF TypeOK
<1> QED
  BY <1>1, <1>2, <1>3, <1>4, <1>5 DEF TypeOK

LEMMA TypesTogether ==
    ASSUME runs' \in [Run -> RunRow], rows' \in [Job -> Row], versions' \in [Job -> Seq(Hash)],
           observations' \in [Job -> Seq(Observation)], attempt' \in [Run -> Attempt]
    PROVE  TypeOK'
BY DEF TypeOK

\* The last transaction writes rows of their schemas.
LEMMA SucceedType ==
    ASSUME TypeOK, NEW r \in Run, Succeed(r)
    PROVE  TypeOK'
<1>1. ReadIn(r) \subseteq Job
  BY DEF ReadIn, TypeOK, Attempt
<1>2. Cardinality(ReadIn(r)) \in Nat
  BY <1>1, FS_Subset, FS_CardinalityType, ConstantsAssumption
<1>3. runs' \in [Run -> RunRow]
  <2>1. runs[r].count \in [Kinds -> Nat] /\ "closed" \in Kinds
    BY DEF TypeOK, RunRow, Kinds
  <2>2. [runs[r].count EXCEPT !["closed"] = @ + Cardinality(ReadIn(r))] \in [Kinds -> Nat]
    <3>1. runs[r].count["closed"] + Cardinality(ReadIn(r)) \in Nat
      BY <1>2, <2>1
    <3> QED
      BY <2>1, <3>1
  <2>3. runs[r] \in RunRow
    BY DEF TypeOK
  <2> DEFINE count == [runs[r].count EXCEPT !["closed"] = @ + Cardinality(ReadIn(r))]
  <2>4. [runs[r] EXCEPT !.count = count, !.status = "succeeded", !.authoritative = TRUE]
          \in RunRow
    BY <2>2, <2>3, RunRowUpdates
  <2>5. runs' = [runs EXCEPT ![r] =
           [runs[r] EXCEPT !.count = count, !.status = "succeeded", !.authoritative = TRUE]]
    BY <2>3 DEF Succeed, TypeOK, RunRow
  <2> QED
    BY <2>4, <2>5 DEF TypeOK
<1>4. rows' \in [Job -> Row] /\ versions' \in [Job -> Seq(Hash)]
  BY DEF Succeed, Close, TypeOK, Row
<1>5. observations' \in [Job -> Seq(Observation)]
  <2>1. \A j \in Job : [run |-> r, kind |-> "closed", version |-> Known(r, j).version] \in Observation
    BY KnownType DEF Observation, Row, Kinds
  <2> QED
    BY <2>1 DEF Succeed, Close, TypeOK
<1>6. attempt' \in [Run -> Attempt]
  <2>1. CASE Leave(r, "done")
    BY <2>1, LeaveType
  <2>2. CASE Goto(r, "failing")
    BY <2>2 DEF Goto, TypeOK, Attempt
  <2> QED
    BY <2>1, <2>2 DEF Succeed
<1> QED
  BY <1>3, <1>4, <1>5, <1>6, TypesTogether

\* What a session reads of jobs is rows.
LEMMA ReadingType ==
    ASSUME TypeOK, NEW J \in SUBSET Job
    PROVE  Reading(J) \in SUBSET [id : Job, row : Row]
BY DEF Reading, TypeOK

\* The ledger is well typed in every reachable state: every table holds rows of
\* its schema whatever the writers, their failures and their races do.
THEOREM TypeCorrect == Spec => []TypeOK
<1>1. Init => TypeOK
  BY InitType
<1>2. TypeOK /\ [Next]_vars => TypeOK'
  <2> SUFFICES ASSUME TypeOK, [Next]_vars PROVE TypeOK'
    OBVIOUS
  <2>1. ASSUME NEW r \in Run, Begin(r) PROVE TypeOK'
    BY <2>1 DEF Begin, Goto, TypeOK, NoRun, RunRow, Attempt, Kinds, SeenKinds
  <2>2. ASSUME NEW r \in Run, FetchFails(r) PROVE TypeOK'
    BY <2>2, FailedType, LeaveType DEF FetchFails, TypeOK
  <2>3. ASSUME NEW r \in Run, NEW s \in Snapshots, NEW close \in BOOLEAN, Fetched(r, s, close)
        PROVE  TypeOK'
    BY <2>3, ConstantsAssumption DEF Fetched, durable, TypeOK, AttemptAt, Attempt
  <2>4. ASSUME NEW r \in Run, ReadBatch(r) PROVE TypeOK'
    <3>1. LeadOf(attempt[r].jobs, attempt[r].offset) \subseteq Job
      BY LeadType DEF TypeOK, Attempt
    <3> DEFINE read == Reading(LeadOf(attempt[r].jobs, attempt[r].offset))
    <3>2. read \in SUBSET [id : Job, row : Row]
      BY <3>1, ReadingType
    <3>3. attempt[r] \in Attempt
      BY DEF TypeOK
    <3>4. [attempt[r] EXCEPT !.pc = "batch", !.read = read] \in Attempt
      BY <3>2, <3>3, AttemptReads
    <3>5. attempt' = [attempt EXCEPT ![r] = [attempt[r] EXCEPT !.pc = "batch", !.read = read]]
      BY <2>4, <3>3 DEF ReadBatch, TypeOK, Attempt
    <3> HIDE DEF read
    <3>6. attempt' \in [Run -> Attempt]
      BY <3>4, <3>5 DEF TypeOK
    <3>7. UNCHANGED durable
      BY <2>4 DEF ReadBatch
    <3> QED
      BY <3>6, <3>7 DEF durable, TypeOK
  <2>5. ASSUME NEW r \in Run, CommitBatch(r) PROVE TypeOK'
    BY <2>5, CommitBatchType
  <2>6. ASSUME NEW r \in Run, ReadMissing(r) PROVE TypeOK'
    <3> DEFINE unseen == {j \in Job : rows[j].status = "open"} \ SeenBy(attempt[r].jobs)
               read == IF attempt[r].close THEN Reading(unseen) ELSE {}
    <3>1. Reading(unseen) \in SUBSET [id : Job, row : Row]
      BY ReadingType
    <3>2. read \in SUBSET [id : Job, row : Row]
      BY <3>1
    <3>3. attempt[r] \in Attempt
      BY DEF TypeOK
    <3>4. [attempt[r] EXCEPT !.pc = "closing", !.read = read] \in Attempt
      BY <3>2, <3>3, AttemptReads
    <3>5. attempt' = [attempt EXCEPT ![r] = [attempt[r] EXCEPT !.pc = "closing", !.read = read]]
      BY <2>6, <3>3 DEF ReadMissing, TypeOK, Attempt
    <3> HIDE DEF read
    <3>6. attempt' \in [Run -> Attempt]
      BY <3>4, <3>5 DEF TypeOK
    <3>7. UNCHANGED durable
      BY <2>6 DEF ReadMissing
    <3> QED
      BY <3>6, <3>7 DEF durable, TypeOK
  <2>7. ASSUME NEW r \in Run, Succeed(r) PROVE TypeOK'
    BY <2>7, SucceedType
  <2>8. ASSUME NEW r \in Run, PersistenceFails(r) PROVE TypeOK'
    BY <2>8 DEF PersistenceFails, Goto, durable, TypeOK, Attempt
  <2>9. ASSUME NEW r \in Run, RecordFailure(r) PROVE TypeOK'
    BY <2>9, FailedType, LeaveType DEF RecordFailure, durable, TypeOK
  <2>10. ASSUME NEW r \in Run, Lost(r) PROVE TypeOK'
    BY <2>10, LeaveType DEF Lost, durable, TypeOK
  <2>11. CASE UNCHANGED vars
    BY <2>11 DEF vars, TypeOK
  <2> QED
    BY <2>1, <2>2, <2>3, <2>4, <2>5, <2>6, <2>7, <2>8, <2>9, <2>10, <2>11 DEF Next, Work
<1> QED
  BY <1>1, <1>2, PTL DEF Spec

(***************************************************************************)
(* How a step changes what the runs have observed.                         *)
(***************************************************************************)

\* One more observation is one more mark, of its own run and kind.
LEMMA AppendedMarks ==
    ASSUME NEW h \in Seq(Observation), NEW o \in Observation, NEW q \in Run, NEW k \in Kinds
    PROVE  {n \in DOMAIN Append(h, o) : Append(h, o)[n].run = q /\ Append(h, o)[n].kind = k} =
           {n \in DOMAIN h : h[n].run = q /\ h[n].kind = k}
             \cup (IF o.run = q /\ o.kind = k THEN {Len(h) + 1} ELSE {})
<1>1. DOMAIN Append(h, o) = DOMAIN h \cup {Len(h) + 1} /\ Len(h) + 1 \notin DOMAIN h
  OBVIOUS
<1>2. \A n \in DOMAIN h : Append(h, o)[n] = h[n]
  OBVIOUS
<1>3. Append(h, o)[Len(h) + 1] = o
  OBVIOUS
<1> QED
  BY <1>1, <1>2, <1>3

\* The mark a batch leaves on each of its jobs.
LEMMA CommitBatchMark ==
    ASSUME TypeOK, NEW r \in Run, CommitBatch(r), NEW q \in Run, NEW j \in Job, NEW k \in Kinds
    PROVE  Marks(q, j, k)' =
             Marks(q, j, k) \cup (IF j \in DOMAIN Batch(r) /\ q = r /\ KindIn(r)[j] = k
                                  THEN {Len(observations[j]) + 1} ELSE {})
<1> DEFINE o == [run |-> r, kind |-> KindIn(r)[j], version |-> VersionIn(r)[j]]
<1>1. CASE j \in DOMAIN Batch(r)
  <2>1. KindIn(r)[j] \in SeenKinds /\ o \in Observation
    BY <1>1, BatchWrites DEF Observation, Kinds
  <2>2. observations[j] \in Seq(Observation) /\ observations'[j] = Append(observations[j], o)
    BY <1>1 DEF CommitBatch, TypeOK
  <2>3. o.run = r /\ o.kind = KindIn(r)[j]
    OBVIOUS
  <2> HIDE DEF o
  <2> QED
    BY <1>1, <2>1, <2>2, <2>3, AppendedMarks DEF Marks
<1>2. CASE j \notin DOMAIN Batch(r)
  BY <1>2 DEF CommitBatch, Marks
<1> QED
  BY <1>1, <1>2

\* A batch marks its own jobs, under its own run, as seen.
LEMMA CommitBatchMarks ==
    ASSUME TypeOK, NEW r \in Run, CommitBatch(r), NEW q \in Run
    PROVE  /\ \A j \in Job, k \in Kinds : q # r => Marks(q, j, k)' = Marks(q, j, k)
           /\ SeenIn(q)' = IF q = r THEN SeenIn(q) \cup DOMAIN Batch(r) ELSE SeenIn(q)
           /\ \A j \in Job : Observed(q, j, "closed")' <=> Observed(q, j, "closed")
<1>1. \A j \in DOMAIN Batch(r) : j \in Job /\ KindIn(r)[j] \in SeenKinds
  BY BatchWrites
<1>2. \A j \in Job, k \in Kinds :
        Marks(q, j, k)' =
          Marks(q, j, k) \cup (IF j \in DOMAIN Batch(r) /\ q = r /\ KindIn(r)[j] = k
                               THEN {Len(observations[j]) + 1} ELSE {})
  BY CommitBatchMark
<1>3. \A j \in Job, k \in Kinds :
        Observed(q, j, k)' <=>
          (Observed(q, j, k) \/ (j \in DOMAIN Batch(r) /\ q = r /\ KindIn(r)[j] = k))
  BY <1>2 DEF Observed
<1>4. SeenIn(q)' = IF q = r THEN SeenIn(q) \cup DOMAIN Batch(r) ELSE SeenIn(q)
  <2>1. \A j \in Job : (j \in SeenIn(q)') <=>
                         (j \in SeenIn(q) \/ (q = r /\ j \in DOMAIN Batch(r)))
    BY <1>1, <1>3 DEF SeenIn, Kinds
  <2>2. SeenIn(q)' \subseteq Job /\ SeenIn(q) \subseteq Job /\ DOMAIN Batch(r) \subseteq Job
    BY <1>1 DEF SeenIn
  <2> QED
    BY <2>1, <2>2
<1>5. \A j \in Job : Observed(q, j, "closed")' <=> Observed(q, j, "closed")
  BY <1>1, <1>3 DEF SeenKinds, Kinds
<1> QED
  BY <1>2, <1>4, <1>5

\* The mark the last transaction leaves on each row that was read.
LEMMA CloseMark ==
    ASSUME TypeOK, NEW r \in Run, Close(r), NEW q \in Run, NEW j \in Job, NEW k \in Kinds
    PROVE  Marks(q, j, k)' =
             Marks(q, j, k) \cup (IF j \in ReadIn(r) /\ q = r /\ k = "closed"
                                  THEN {Len(observations[j]) + 1} ELSE {})
<1> DEFINE o == [run |-> r, kind |-> "closed", version |-> Known(r, j).version]
<1>1. CASE j \in ReadIn(r)
  <2>1. o \in Observation
    BY KnownType DEF Observation, Row, Kinds
  <2>2. observations[j] \in Seq(Observation) /\ observations'[j] = Append(observations[j], o)
    BY <1>1 DEF Close, TypeOK
  <2>3. o.run = r /\ o.kind = "closed"
    OBVIOUS
  <2> HIDE DEF o
  <2> QED
    BY <1>1, <2>1, <2>2, <2>3, AppendedMarks DEF Marks
<1>2. CASE j \notin ReadIn(r)
  BY <1>2 DEF Close, Marks
<1> QED
  BY <1>1, <1>2

\* The last transaction marks the rows that were read, under its own run, closed.
LEMMA CloseMarks ==
    ASSUME TypeOK, NEW r \in Run, Close(r), NEW q \in Run
    PROVE  /\ \A j \in Job, k \in Kinds : q # r => Marks(q, j, k)' = Marks(q, j, k)
           /\ SeenIn(q)' = SeenIn(q)
           /\ \A j \in Job : Observed(q, j, "closed")' <=>
                 (Observed(q, j, "closed") \/ (q = r /\ j \in ReadIn(r)))
<1>1. \A j \in Job, k \in Kinds :
        Marks(q, j, k)' =
          Marks(q, j, k) \cup (IF j \in ReadIn(r) /\ q = r /\ k = "closed"
                               THEN {Len(observations[j]) + 1} ELSE {})
  BY CloseMark
<1>2. \A j \in Job, k \in Kinds :
        Observed(q, j, k)' <=>
          (Observed(q, j, k) \/ (j \in ReadIn(r) /\ q = r /\ k = "closed"))
  BY <1>1 DEF Observed
<1>3. SeenIn(q)' = SeenIn(q)
  BY <1>2 DEF SeenIn, Kinds, SeenKinds
<1> QED
  BY <1>1, <1>2, <1>3 DEF Kinds

\* Without new observations nothing is marked.
LEMMA SameMarks ==
    ASSUME UNCHANGED observations, NEW q \in Run
    PROVE  /\ \A j \in Job, k \in Kinds : Marks(q, j, k)' = Marks(q, j, k)
           /\ SeenIn(q)' = SeenIn(q)
           /\ \A j \in Job : Observed(q, j, "closed")' <=> Observed(q, j, "closed")
BY DEF Marks, SeenIn, Observed

(***************************************************************************)
(* Closures.  ClosedOnlyBySuccess is not inductive: that the jobs about to *)
(* be closed were not seen, and that a run is pending while its process    *)
(* works, is what AttemptAgrees adds.                                      *)
(***************************************************************************)

IInv == AttemptAgrees /\ ClosedOnlyBySuccess

\* An empty ledger has closed nothing and has no attempt.
LEMMA InitInv == Init => IInv
BY DEF Init, IInv, AttemptAgrees, ClosedOnlyBySuccess, AttemptAt, At, NoRun, SeenIn, Observed,
       Marks

\* Steps that mark nothing and move one run and its attempt.
LEMMA QuietStep ==
    ASSUME TypeOK, IInv, NEW r \in Run, UNCHANGED observations,
           \A q \in Run \ {r} : runs'[q] = runs[q] /\ attempt'[q] = attempt[q],
           runs[r].status # "succeeded" \/ runs'[r].status = "succeeded",
           At(r, "idle")' => runs'[r].status = "absent" /\ SeenIn(r) = {},
           attempt'[r].pc \in {"fetching", "committing", "batch", "closing"} =>
               runs'[r].status = "pending",
           At(r, "fetching")' => SeenIn(r) = {},
           attempt'[r].pc \in {"committing", "batch", "closing"} =>
               SeenIn(r) \subseteq SeenBy(attempt'[r].jobs),
           At(r, "closing")' => ReadIn(r)' \cap SeenBy(attempt'[r].jobs) = {}
    PROVE  IInv'
<1>1. \A q \in Run : /\ SeenIn(q)' = SeenIn(q)
                     /\ \A j \in Job : Observed(q, j, "closed")' <=> Observed(q, j, "closed")
  BY SameMarks
<1>2. AttemptAgrees'
  BY <1>1 DEF IInv, AttemptAgrees, At, ReadIn
<1>3. ClosedOnlyBySuccess'
  BY <1>1 DEF IInv, ClosedOnlyBySuccess
<1> QED
  BY <1>2, <1>3 DEF IInv

\* A batch observes only jobs its snapshot lists, under a pending run.
LEMMA CommitBatchInv ==
    ASSUME TypeOK, IInv, NEW r \in Run, CommitBatch(r)
    PROVE  IInv'
<1>1. \A q \in Run :
        /\ SeenIn(q)' = IF q = r THEN SeenIn(q) \cup DOMAIN Batch(r) ELSE SeenIn(q)
        /\ \A j \in Job : Observed(q, j, "closed")' <=> Observed(q, j, "closed")
  BY CommitBatchMarks
<1>2. \A q \in Run \ {r} : runs'[q] = runs[q] /\ attempt'[q] = attempt[q]
  BY DEF CommitBatch, TypeOK
<1>3. /\ runs[r].status = "pending" /\ runs'[r].status = "pending"
      /\ attempt'[r].pc = "committing" /\ attempt'[r].jobs = attempt[r].jobs
  BY DEF CommitBatch, TypeOK, RunRow, Attempt, IInv, AttemptAgrees, At
<1>4. DOMAIN Batch(r) \subseteq SeenBy(attempt[r].jobs)
  BY BatchType DEF Batch, TypeOK, Attempt
<1>5. SeenIn(r) \subseteq SeenBy(attempt[r].jobs)
  BY DEF CommitBatch, IInv, AttemptAgrees, At
<1>6. AttemptAgrees'
  <2> SUFFICES ASSUME NEW q \in Run
               PROVE  /\ At(q, "idle")' => runs'[q].status = "absent"
                      /\ attempt'[q].pc \in {"fetching", "committing", "batch", "closing"} =>
                            runs'[q].status = "pending"
                      /\ attempt'[q].pc \in {"idle", "fetching"} => SeenIn(q)' = {}
                      /\ attempt'[q].pc \in {"committing", "batch", "closing"} =>
                            SeenIn(q)' \subseteq SeenBy(attempt'[q].jobs)
                      /\ At(q, "closing")' => ReadIn(q)' \cap SeenBy(attempt'[q].jobs) = {}
    BY DEF AttemptAgrees, At
  <2>1. CASE q = r
    BY <1>1, <1>3, <1>4, <1>5, <2>1 DEF At
  <2>2. CASE q # r
    BY <1>1, <1>2, <2>2 DEF IInv, AttemptAgrees, At, ReadIn
  <2> QED
    BY <2>1, <2>2
<1>7. ClosedOnlyBySuccess'
  BY <1>1, <1>2, <1>3 DEF IInv, ClosedOnlyBySuccess
<1> QED
  BY <1>6, <1>7 DEF IInv

\* The last transaction closes jobs its run has not seen, and ends the run.
LEMMA SucceedInv ==
    ASSUME TypeOK, IInv, NEW r \in Run, Succeed(r)
    PROVE  IInv'
<1>1. \A q \in Run :
        /\ SeenIn(q)' = SeenIn(q)
        /\ \A j \in Job : Observed(q, j, "closed")' <=>
              (Observed(q, j, "closed") \/ (q = r /\ j \in ReadIn(r)))
  BY CloseMarks DEF Succeed
<1>2. \A q \in Run \ {r} : runs'[q] = runs[q] /\ attempt'[q] = attempt[q]
  BY DEF Succeed, Leave, Goto, TypeOK
<1>3. /\ runs'[r].status = "succeeded" /\ attempt'[r].pc \in {"done", "failing"}
  BY DEF Succeed, Leave, Goto, AttemptAt, TypeOK, RunRow, Attempt
<1>4. /\ SeenIn(r) \subseteq SeenBy(attempt[r].jobs)
      /\ ReadIn(r) \cap SeenBy(attempt[r].jobs) = {}
      /\ runs[r].status = "pending"
  BY DEF Succeed, IInv, AttemptAgrees, At
<1>5. AttemptAgrees'
  BY <1>1, <1>2, <1>3 DEF IInv, AttemptAgrees, At, ReadIn
<1>6. ClosedOnlyBySuccess'
  BY <1>1, <1>2, <1>3, <1>4 DEF IInv, ClosedOnlyBySuccess
<1> QED
  BY <1>5, <1>6 DEF IInv

\* Every step of every process keeps the invariant.
LEMMA NextInv == TypeOK /\ IInv /\ [Next]_vars => IInv'
<1> SUFFICES ASSUME TypeOK, IInv, [Next]_vars PROVE IInv'
  OBVIOUS
<1>1. ASSUME NEW r \in Run, Begin(r) PROVE IInv'
  <2>1. /\ runs'[r].status = "pending" /\ attempt'[r].pc = "fetching"
        /\ \A q \in Run \ {r} : runs'[q] = runs[q] /\ attempt'[q] = attempt[q]
        /\ observations' = observations
    BY <1>1 DEF Begin, Goto, NoRun, TypeOK, RunRow, Attempt
  <2>2. runs[r].status = "absent" /\ SeenIn(r) = {}
    BY <1>1 DEF Begin, IInv, AttemptAgrees, At
  <2> QED
    BY <2>1, <2>2, QuietStep DEF At
<1>2. ASSUME NEW r \in Run, FetchFails(r) PROVE IInv'
  BY <1>2, QuietStep DEF FetchFails, Failed, Leave, AttemptAt, TypeOK, RunRow, At
<1>3. ASSUME NEW r \in Run, NEW s \in Snapshots, NEW close \in BOOLEAN, Fetched(r, s, close)
      PROVE  IInv'
  BY <1>3, QuietStep DEF Fetched, durable, AttemptAt, TypeOK, IInv, AttemptAgrees, At
<1>4. ASSUME NEW r \in Run, ReadBatch(r) PROVE IInv'
  BY <1>4, QuietStep DEF ReadBatch, durable, TypeOK, Attempt, IInv, AttemptAgrees, At
<1>5. ASSUME NEW r \in Run, CommitBatch(r) PROVE IInv'
  BY <1>5, CommitBatchInv
<1>6. ASSUME NEW r \in Run, ReadMissing(r) PROVE IInv'
  <2>1. /\ attempt'[r].pc = "closing" /\ attempt'[r].jobs = attempt[r].jobs
        /\ \A q \in Run \ {r} : runs'[q] = runs[q] /\ attempt'[q] = attempt[q]
        /\ runs' = runs /\ observations' = observations /\ runs[r].status = "pending"
    BY <1>6 DEF ReadMissing, durable, TypeOK, Attempt
  <2>2. SeenIn(r) \subseteq SeenBy(attempt[r].jobs)
    BY <1>6 DEF ReadMissing, IInv, AttemptAgrees, At
  <2>3. \A m \in attempt'[r].read : m.id \notin SeenBy(attempt[r].jobs)
    BY <1>6 DEF ReadMissing, TypeOK, Attempt, Reading
  <2>4. ReadIn(r)' \cap SeenBy(attempt'[r].jobs) = {}
    BY <2>1, <2>3 DEF ReadIn
  <2> QED
    BY <2>1, <2>2, <2>4, QuietStep DEF At
<1>7. ASSUME NEW r \in Run, Succeed(r) PROVE IInv'
  BY <1>7, SucceedInv
<1>8. ASSUME NEW r \in Run, PersistenceFails(r) PROVE IInv'
  BY <1>8, QuietStep DEF PersistenceFails, Goto, durable, TypeOK, Attempt, At
<1>9. ASSUME NEW r \in Run, RecordFailure(r) PROVE IInv'
  BY <1>9, QuietStep DEF RecordFailure, Failed, Leave, AttemptAt, durable, TypeOK, RunRow, At
<1>10. ASSUME NEW r \in Run, Lost(r) PROVE IInv'
  BY <1>10, QuietStep DEF Lost, Leave, AttemptAt, durable, TypeOK, At
<1>11. CASE UNCHANGED vars
  BY <1>11 DEF vars, IInv, AttemptAgrees, ClosedOnlyBySuccess, At, ReadIn, SeenIn, Observed, Marks
<1> QED
  BY <1>1, <1>2, <1>3, <1>4, <1>5, <1>6, <1>7, <1>8, <1>9, <1>10, <1>11 DEF Next, Work

\* The inductive invariant holds in every reachable state.
LEMMA Invariance == Spec => [](TypeOK /\ IInv)
<1>1. Spec => []TypeOK
  BY TypeCorrect
<1> QED
  BY <1>1, InitInv, NextInv, PTL DEF Spec

\* Whatever the batches, the failures, the crashes and the racing processes, a
\* job is closed only by a run that succeeded and that has not seen it
\* (complete_job_sync_run, _close_missing_jobs).
THEOREM ClosuresAuthoritative == Spec => []ClosedOnlyBySuccess
BY Invariance, PTL DEF IInv

\* The process of an attempt and its durable run never disagree on where the
\* attempt stands.
THEOREM AttemptsAgree == Spec => []AttemptAgrees
BY Invariance, PTL DEF IInv

\* A terminal run is final: no later step of any process writes it or adds an
\* observation to it (_required_pending_job_sync_run).
THEOREM TerminalFinal == Spec => TerminalRunsFrozen
<1>1. TypeOK /\ IInv /\ [Next]_vars => [KeepsTerminalRuns]_vars
  <2> SUFFICES ASSUME TypeOK, IInv, Next,
                      NEW q \in Run, runs[q].status \in {"succeeded", "failed"}
               PROVE  /\ runs'[q] = runs[q]
                      /\ \A j \in Job, k \in Kinds : Marks(q, j, k)' = Marks(q, j, k)
    BY DEF KeepsTerminalRuns
  <2>1. attempt[q].pc \notin {"idle", "fetching", "committing", "batch", "closing"}
    BY DEF IInv, AttemptAgrees, At
  <2>2. PICK r \in Run : Begin(r) \/ Work(r) \/ Lost(r)
    BY DEF Next
  <2>3. CASE CommitBatch(r)
    <3>1. q # r
      BY <2>1, <2>3 DEF CommitBatch, At
    <3> QED
      BY <2>3, <3>1, CommitBatchMarks DEF CommitBatch, TypeOK
  <2>4. CASE Succeed(r)
    <3>1. q # r
      BY <2>1, <2>4 DEF Succeed, At
    <3>2. Close(r)
      BY <2>4 DEF Succeed
    <3> QED
      BY <2>4, <3>1, <3>2, CloseMarks DEF Succeed, TypeOK
  <2>5. CASE ~CommitBatch(r) /\ ~Succeed(r)
    <3>1. UNCHANGED observations
      BY <2>2, <2>5 DEF Begin, Work, FetchFails, Failed, Fetched, ReadBatch, ReadMissing,
                        PersistenceFails, RecordFailure, Lost, durable
    <3>2. runs'[q] = runs[q]
      BY <2>1, <2>2, <2>5 DEF Begin, Work, FetchFails, Failed, Fetched, ReadBatch, ReadMissing,
                        PersistenceFails, RecordFailure, Lost, durable, TypeOK, At
    <3> QED
      BY <3>1, <3>2, SameMarks
  <2> QED
    BY <2>3, <2>4, <2>5
<1> QED
  BY <1>1, Invariance, PTL DEF Spec, TerminalRunsFrozen

(***************************************************************************)
(* Histories.  That a row, an observation and a version never contradict   *)
(* each other rests on what a session may still believe of a row it read   *)
(* before another process committed: the row may have changed, but it has  *)
(* not gone, and the version it named is still stored.                     *)
(***************************************************************************)

\* The row, the versions and the observations of one job.
JobKept(j) ==
    /\ \A m, n \in DOMAIN versions[j] : versions[j][m] = versions[j][n] => m = n
    /\ rows[j].status = "absent" => rows[j].version = 0
    /\ rows[j].status # "absent" => rows[j].version \in DOMAIN versions[j]
    /\ (rows[j].status = "absent") <=> (observations[j] = <<>>)
    /\ \A n \in DOMAIN observations[j] :
          /\ observations[j][n].version \in DOMAIN versions[j]
          /\ (observations[j][n].kind = "new") <=> (n = 1)

\* What a session has read of a row still stands for as much as it needs.
ReadStands(m) ==
    /\ m.row.status = "absent" => m.row.version = 0
    /\ m.row.status # "absent" => /\ rows[m.id].status # "absent"
                                  /\ m.row.version \in DOMAIN versions[m.id]

HistoryInv ==
    /\ \A j \in Job : JobKept(j)
    /\ \A r \in Run : \A m \in attempt[r].read :
          ReadStands(m) /\ (At(r, "closing") => m.row.status = "open")

\* A content is found under the number it is given, no number is lost, and none
\* is given to two contents.
LEMMA VersionStored ==
    ASSUME TypeOK, NEW j \in Job, JobKept(j), NEW h \in Hash
    PROVE  /\ VersionOf(j, h) \in DOMAIN VersionsWith(j, h)
           /\ VersionOf(j, h) # 0
           /\ DOMAIN versions[j] \subseteq DOMAIN VersionsWith(j, h)
           /\ \A m, n \in DOMAIN VersionsWith(j, h) :
                 VersionsWith(j, h)[m] = VersionsWith(j, h)[n] => m = n
<1>1. versions[j] \in Seq(Hash)
  BY DEF TypeOK
<1>2. \A m, n \in DOMAIN versions[j] : versions[j][m] = versions[j][n] => m = n
  BY DEF JobKept
<1>3. CASE h \in HashesOf(j)
  <2>1. \E n \in DOMAIN versions[j] : versions[j][n] = h
    BY <1>3 DEF HashesOf
  <2>2. (CHOOSE n \in DOMAIN versions[j] : versions[j][n] = h) \in DOMAIN versions[j]
    BY <2>1
  <2>3. VersionOf(j, h) \in DOMAIN versions[j] /\ VersionsWith(j, h) = versions[j]
    BY <1>3, <2>2 DEF VersionOf, VersionsWith
  <2> QED
    BY <1>1, <1>2, <2>3
<1>4. CASE h \notin HashesOf(j)
  <2>1. VersionsWith(j, h) = Append(versions[j], h) /\ VersionOf(j, h) = Len(versions[j]) + 1
    BY <1>4 DEF VersionOf, VersionsWith
  <2>2. \A n \in DOMAIN versions[j] : versions[j][n] # h
    BY <1>4 DEF HashesOf
  <2>3. /\ Len(versions[j]) \in Nat
        /\ DOMAIN versions[j] = 1 .. Len(versions[j])
        /\ DOMAIN Append(versions[j], h) = 1 .. (Len(versions[j]) + 1)
        /\ \A n \in DOMAIN versions[j] : Append(versions[j], h)[n] = versions[j][n]
        /\ Append(versions[j], h)[Len(versions[j]) + 1] = h
    BY <1>1
  <2>4. \A n \in DOMAIN Append(versions[j], h) :
          n \in DOMAIN versions[j] \/ n = Len(versions[j]) + 1
    BY <2>3
  <2>5. \A m, n \in DOMAIN Append(versions[j], h) :
          Append(versions[j], h)[m] = Append(versions[j], h)[n] => m = n
    BY <1>2, <2>2, <2>3, <2>4
  <2> QED
    BY <2>1, <2>3, <2>5
<1> QED
  BY <1>3, <1>4

\* The row a session knows, read before or now, still stands.
LEMMA KnownStands ==
    ASSUME TypeOK, HistoryInv, NEW r \in Run, NEW j \in Job
    PROVE  /\ Known(r, j).status = "absent" => Known(r, j).version = 0
           /\ Known(r, j).status # "absent" => /\ rows[j].status # "absent"
                                               /\ Known(r, j).version \in DOMAIN versions[j]
<1>1. CASE j \in ReadIn(r)
  <2>1. \E m \in attempt[r].read : m.id = j
    BY <1>1 DEF ReadIn
  <2>2. PICK m \in attempt[r].read : m.id = j /\ Known(r, j) = m.row
    BY <1>1, <2>1 DEF Known
  <2> QED
    BY <2>2 DEF HistoryInv, ReadStands
<1>2. CASE j \notin ReadIn(r)
  BY <1>2 DEF Known, HistoryInv, JobKept
<1> QED
  BY <1>1, <1>2

\* One more observation, of a stored version, keeps a history well formed when it is
\* "new" exactly on an empty one.
LEMMA Observing ==
    ASSUME NEW h \in Seq(Observation), NEW o \in Observation, NEW D, NEW E, D \subseteq E,
           \A n \in DOMAIN h : h[n].version \in D /\ ((h[n].kind = "new") <=> (n = 1)),
           o.version \in E,
           (o.kind = "new") <=> (h = <<>>)
    PROVE  /\ Append(h, o) # <<>>
           /\ \A n \in DOMAIN Append(h, o) :
                 /\ Append(h, o)[n].version \in E
                 /\ (Append(h, o)[n].kind = "new") <=> (n = 1)
<1>1. /\ Len(h) \in Nat
      /\ DOMAIN h = 1 .. Len(h)
      /\ DOMAIN Append(h, o) = 1 .. (Len(h) + 1)
      /\ \A n \in DOMAIN h : Append(h, o)[n] = h[n]
      /\ Append(h, o)[Len(h) + 1] = o
  OBVIOUS
<1>2. h = <<>> <=> Len(h) = 0
  OBVIOUS
<1>3. \A n \in DOMAIN Append(h, o) : n \in DOMAIN h \/ n = Len(h) + 1
  BY <1>1
<1>4. Len(h) + 1 = 1 <=> h = <<>>
  BY <1>1, <1>2
<1>5. Append(h, o) # <<>>
  BY <1>1
<1> QED
  BY <1>1, <1>3, <1>4, <1>5

\* What a batch writes of one of its jobs (_upsert_job_snapshot).
LEMMA CommitKeepsJob ==
    ASSUME TypeOK, HistoryInv, NEW r \in Run, CommitBatch(r), NEW j \in Job
    PROVE  /\ JobKept(j)'
           /\ rows[j].status # "absent" => rows'[j].status # "absent"
           /\ DOMAIN versions[j] \subseteq DOMAIN versions'[j]
<1>1. JobKept(j)
  BY DEF HistoryInv
<1>2. CASE j \notin DOMAIN Batch(r)
  <2>1. rows'[j] = rows[j] /\ versions'[j] = versions[j] /\ observations'[j] = observations[j]
    BY <1>2 DEF CommitBatch
  <2> QED
    BY <1>1, <2>1 DEF JobKept
<1>3. CASE j \in DOMAIN Batch(r)
  <2> DEFINE h == Batch(r)[j]
             known == Known(r, j)
             v == VersionOf(j, h)
             o == [run |-> r, kind |-> KindIn(r)[j], version |-> VersionIn(r)[j]]
  <2>1. h \in Hash /\ KindIn(r)[j] \in SeenKinds /\ VersionIn(r)[j] \in Nat
    BY <1>3, BatchWrites
  <2>2. VersionIn(r)[j] = v /\ KindIn(r)[j] = ObservationKind(known, j, h)
    BY <1>3 DEF VersionIn, KindIn
  <2>3. /\ rows'[j] = Flushed(known, [status |-> "open", version |-> v], rows[j])
        /\ versions'[j] = VersionsWith(j, h)
        /\ observations'[j] = Append(observations[j], o)
        /\ known.status = "absent" => rows[j].status = "absent"
    BY <1>3, <2>2 DEF CommitBatch
  <2>4. /\ v \in DOMAIN versions'[j] /\ v # 0
        /\ DOMAIN versions[j] \subseteq DOMAIN versions'[j]
        /\ \A m, n \in DOMAIN versions'[j] : versions'[j][m] = versions'[j][n] => m = n
    BY <1>1, <2>1, <2>3, VersionStored
  <2>5. /\ known.status = "absent" => known.version = 0
        /\ known.status # "absent" => /\ rows[j].status # "absent"
                                      /\ known.version \in DOMAIN versions[j]
    BY KnownStands
  <2>6. rows'[j].status = (IF known.status = "open" THEN rows[j].status ELSE "open")
    BY <2>3 DEF Flushed
  <2>7. rows'[j].version = (IF known.version = v THEN rows[j].version ELSE v)
    BY <2>3 DEF Flushed
  <2>8. rows'[j].status # "absent"
    BY <2>5, <2>6
  <2>9. rows'[j].version \in DOMAIN versions'[j]
    <3>1. CASE known.status = "absent"
      BY <2>4, <2>5, <2>7, <3>1
    <3>2. CASE known.status # "absent"
      BY <1>1, <2>4, <2>5, <2>7, <3>2 DEF JobKept
    <3> QED
      BY <3>1, <3>2
  <2>10. (KindIn(r)[j] = "new") <=> (known.status = "absent")
    BY <2>2 DEF ObservationKind
  <2>11. (KindIn(r)[j] = "new") <=> (observations[j] = <<>>)
    BY <1>1, <2>3, <2>5, <2>10 DEF JobKept
  <2>12. o \in Observation /\ observations[j] \in Seq(Observation)
    BY <2>1 DEF Observation, Kinds, TypeOK
  <2>13. o.version = v /\ o.kind = KindIn(r)[j]
    BY <2>2
  <2> HIDE DEF o, v
  <2>14. /\ Append(observations[j], o) # <<>>
         /\ \A n \in DOMAIN Append(observations[j], o) :
               /\ Append(observations[j], o)[n].version \in DOMAIN versions'[j]
               /\ (Append(observations[j], o)[n].kind = "new") <=> (n = 1)
    <3> DEFINE past == observations[j]
               D == DOMAIN versions[j]
               E == DOMAIN versions'[j]
    <3>1. \A n \in DOMAIN past : past[n].version \in D /\ ((past[n].kind = "new") <=> (n = 1))
      BY <1>1 DEF JobKept
    <3>2. o.version \in E /\ ((o.kind = "new") <=> (past = <<>>)) /\ D \subseteq E
      BY <2>4, <2>11, <2>13
    <3>3. past \in Seq(Observation)
      BY <2>12
    <3> HIDE DEF past, D, E
    <3>4. /\ Append(past, o) # <<>>
          /\ \A n \in DOMAIN Append(past, o) :
                /\ Append(past, o)[n].version \in E
                /\ (Append(past, o)[n].kind = "new") <=> (n = 1)
      BY <2>12, <3>1, <3>2, <3>3, Observing
    <3> QED
      BY <3>4 DEF past, E
  <2> QED
    BY <2>3, <2>4, <2>8, <2>9, <2>14 DEF JobKept
<1> QED
  BY <1>2, <1>3

\* A batch keeps the histories, and what the other sessions have read stands.
LEMMA CommitKeepsHistories ==
    ASSUME TypeOK, HistoryInv, NEW r \in Run, CommitBatch(r)
    PROVE  HistoryInv'
<1>1. \A j \in Job : /\ JobKept(j)'
                     /\ rows[j].status # "absent" => rows'[j].status # "absent"
                     /\ DOMAIN versions[j] \subseteq DOMAIN versions'[j]
  BY CommitKeepsJob
<1>2. ASSUME NEW q \in Run, NEW m \in attempt'[q].read
      PROVE  ReadStands(m)' /\ (At(q, "closing")' => m.row.status = "open")
  <2>1. q # r /\ attempt'[q] = attempt[q]
    BY <1>2 DEF CommitBatch, TypeOK, Attempt
  <2>2. m.id \in Job /\ m \in attempt[q].read
    BY <1>2, <2>1 DEF TypeOK, Attempt
  <2>3. ReadStands(m) /\ (At(q, "closing") => m.row.status = "open")
    BY <2>2 DEF HistoryInv
  <2> QED
    BY <1>1, <2>1, <2>2, <2>3 DEF ReadStands, At
<1> QED
  BY <1>1, <1>2 DEF HistoryInv

\* What the last transaction writes of one job (_close_missing_jobs).
LEMMA CloseKeepsJob ==
    ASSUME TypeOK, HistoryInv, NEW r \in Run, Succeed(r), NEW j \in Job
    PROVE  JobKept(j)' /\ (rows[j].status # "absent" => rows'[j].status # "absent")
<1>1. JobKept(j)
  BY DEF HistoryInv
<1>2. CASE j \notin ReadIn(r)
  <2>1. rows'[j] = rows[j] /\ versions'[j] = versions[j] /\ observations'[j] = observations[j]
    BY <1>2 DEF Succeed, Close
  <2> QED
    BY <1>1, <2>1 DEF JobKept
<1>3. CASE j \in ReadIn(r)
  <2> DEFINE past == observations[j]
             D == DOMAIN versions[j]
             o == [run |-> r, kind |-> "closed", version |-> Known(r, j).version]
  <2>1. /\ rows'[j] = [rows[j] EXCEPT !.status = "closed"] /\ versions'[j] = versions[j]
        /\ observations'[j] = Append(past, o)
    BY <1>3 DEF Succeed, Close
  <2>2. \E m \in attempt[r].read : m.id = j
    BY <1>3 DEF ReadIn
  <2>3. PICK m \in attempt[r].read : m.id = j /\ Known(r, j) = m.row
    BY <1>3, <2>2 DEF Known
  <2>4. Known(r, j).status = "open"
    BY <2>3 DEF Succeed, HistoryInv
  <2>5. rows[j].status # "absent" /\ Known(r, j).version \in D
    BY <2>4, KnownStands
  <2>6. past # <<>> /\ rows[j].version \in D
    BY <1>1, <2>5 DEF JobKept
  <2>7. rows[j] \in Row
    BY DEF TypeOK
  <2>8. rows'[j].status = "closed" /\ rows'[j].version = rows[j].version
    BY <2>1, <2>7 DEF Row
  <2>9. o \in Observation /\ past \in Seq(Observation)
    BY KnownType DEF Observation, Row, Kinds, TypeOK
  <2>10. \A n \in DOMAIN past : past[n].version \in D /\ ((past[n].kind = "new") <=> (n = 1))
    BY <1>1 DEF JobKept
  <2>11. o.version \in D /\ ((o.kind = "new") <=> (past = <<>>)) /\ D \subseteq D
    BY <2>5, <2>6
  <2> HIDE DEF past, D, o
  <2>12. /\ Append(past, o) # <<>>
         /\ \A n \in DOMAIN Append(past, o) :
               /\ Append(past, o)[n].version \in D
               /\ (Append(past, o)[n].kind = "new") <=> (n = 1)
    BY <2>9, <2>10, <2>11, Observing
  <2> QED
    BY <1>1, <2>1, <2>6, <2>8, <2>12 DEF JobKept, D
<1> QED
  BY <1>2, <1>3

\* The last transaction keeps the histories, and what the other sessions have read
\* stands.
LEMMA SucceedKeepsHistories ==
    ASSUME TypeOK, HistoryInv, NEW r \in Run, Succeed(r)
    PROVE  HistoryInv'
<1>1. \A j \in Job : JobKept(j)' /\ (rows[j].status # "absent" => rows'[j].status # "absent")
  BY CloseKeepsJob
<1>2. ASSUME NEW q \in Run, NEW m \in attempt'[q].read
      PROVE  ReadStands(m)' /\ (At(q, "closing")' => m.row.status = "open")
  <2>1. attempt'[q].read \subseteq attempt[q].read /\ (At(q, "closing")' => At(q, "closing"))
    <3>1. CASE q # r
      BY <3>1 DEF Succeed, Leave, Goto, At, TypeOK
    <3>2. CASE q = r /\ Leave(r, "done")
      BY <3>2 DEF Leave, AttemptAt, At, TypeOK
    <3>3. CASE q = r /\ Goto(r, "failing")
      BY <3>3 DEF Goto, At, TypeOK, Attempt
    <3> QED
      BY <3>1, <3>2, <3>3 DEF Succeed
  <2>2. m.id \in Job /\ m \in attempt[q].read
    BY <1>2, <2>1 DEF TypeOK, Attempt
  <2>3. ReadStands(m) /\ (At(q, "closing") => m.row.status = "open")
    BY <2>2 DEF HistoryInv
  <2> QED
    BY <1>1, <2>1, <2>2, <2>3 DEF ReadStands, Succeed, Close
<1> QED
  BY <1>1, <1>2 DEF HistoryInv

\* Steps that write no table and read what the tables hold now.
LEMMA ReadingKeepsHistories ==
    ASSUME TypeOK, HistoryInv, UNCHANGED <<rows, versions, observations>>,
           \A q \in Run : \A m \in attempt'[q].read :
              \/ m \in attempt[q].read /\ (At(q, "closing")' => At(q, "closing"))
              \/ /\ m.id \in Job /\ m.row = rows[m.id]
                 /\ At(q, "closing")' => m.row.status = "open"
    PROVE  HistoryInv'
<1>1. \A j \in Job : JobKept(j)'
  BY DEF HistoryInv, JobKept
<1>2. ASSUME NEW q \in Run, NEW m \in attempt'[q].read
      PROVE  ReadStands(m)' /\ (At(q, "closing")' => m.row.status = "open")
  <2>1. CASE m \in attempt[q].read /\ (At(q, "closing")' => At(q, "closing"))
    BY <2>1 DEF HistoryInv, ReadStands
  <2>2. CASE /\ m.id \in Job /\ m.row = rows[m.id]
             /\ At(q, "closing")' => m.row.status = "open"
    BY <2>2 DEF HistoryInv, ReadStands, JobKept
  <2> QED
    BY <1>2, <2>1, <2>2
<1> QED
  BY <1>1, <1>2 DEF HistoryInv

\* An empty ledger has no history.
LEMMA InitHistories == Init => HistoryInv
BY DEF Init, HistoryInv, JobKept, AttemptAt, NoRow

\* Every step of every process keeps the histories.
LEMMA NextHistories == TypeOK /\ HistoryInv /\ [Next]_vars => HistoryInv'
<1> SUFFICES ASSUME TypeOK, HistoryInv, [Next]_vars PROVE HistoryInv'
  OBVIOUS
<1>1. ASSUME NEW r \in Run, Begin(r) PROVE HistoryInv'
  BY <1>1, ReadingKeepsHistories DEF Begin, Goto, At, TypeOK, Attempt
<1>2. ASSUME NEW r \in Run, FetchFails(r) PROVE HistoryInv'
  BY <1>2, ReadingKeepsHistories DEF FetchFails, Failed, Leave, AttemptAt, At, TypeOK, Attempt
<1>3. ASSUME NEW r \in Run, NEW s \in Snapshots, NEW close \in BOOLEAN, Fetched(r, s, close)
      PROVE  HistoryInv'
  BY <1>3, ReadingKeepsHistories DEF Fetched, durable, AttemptAt, At, TypeOK, Attempt
<1>4. ASSUME NEW r \in Run, ReadBatch(r) PROVE HistoryInv'
  <2>1. LeadOf(attempt[r].jobs, attempt[r].offset) \subseteq Job
    BY LeadType DEF TypeOK, Attempt
  <2>2. \A m \in attempt'[r].read : m.id \in Job /\ m.row = rows[m.id]
    BY <1>4, <2>1 DEF ReadBatch, Reading, TypeOK, Attempt
  <2>3. /\ attempt'[r].pc = "batch" /\ \A q \in Run \ {r} : attempt'[q] = attempt[q]
        /\ UNCHANGED <<rows, versions, observations>>
    BY <1>4 DEF ReadBatch, durable, TypeOK, Attempt
  <2> QED
    BY <2>2, <2>3, ReadingKeepsHistories DEF At
<1>5. ASSUME NEW r \in Run, CommitBatch(r) PROVE HistoryInv'
  BY <1>5, CommitKeepsHistories
<1>6. ASSUME NEW r \in Run, ReadMissing(r) PROVE HistoryInv'
  <2>1. \A m \in attempt'[r].read :
          m.id \in Job /\ m.row = rows[m.id] /\ m.row.status = "open"
    BY <1>6 DEF ReadMissing, Reading, TypeOK, Attempt
  <2>2. /\ \A q \in Run \ {r} : attempt'[q] = attempt[q]
        /\ UNCHANGED <<rows, versions, observations>>
    BY <1>6 DEF ReadMissing, durable, TypeOK, Attempt
  <2> QED
    BY <2>1, <2>2, ReadingKeepsHistories DEF At
<1>7. ASSUME NEW r \in Run, Succeed(r) PROVE HistoryInv'
  BY <1>7, SucceedKeepsHistories
<1>8. ASSUME NEW r \in Run, PersistenceFails(r) PROVE HistoryInv'
  BY <1>8, ReadingKeepsHistories DEF PersistenceFails, Goto, durable, At, TypeOK, Attempt
<1>9. ASSUME NEW r \in Run, RecordFailure(r) PROVE HistoryInv'
  BY <1>9, ReadingKeepsHistories
     DEF RecordFailure, Failed, Leave, AttemptAt, durable, At, TypeOK, Attempt
<1>10. ASSUME NEW r \in Run, Lost(r) PROVE HistoryInv'
  BY <1>10, ReadingKeepsHistories DEF Lost, Leave, AttemptAt, durable, At, TypeOK, Attempt
<1>11. CASE UNCHANGED vars
  BY <1>11, ReadingKeepsHistories DEF vars, At
<1> QED
  BY <1>1, <1>2, <1>3, <1>4, <1>5, <1>6, <1>7, <1>8, <1>9, <1>10, <1>11 DEF Next, Work

(***************************************************************************)
(* Counters.  They agree with the observations because no batch lists a    *)
(* job that an earlier batch of its attempt has committed: what a run has  *)
(* seen has a rank below the offset of its next batch.                     *)
(***************************************************************************)

\* The jobs of the batches before an offset.
Before(s, offset) == {s[i].id : i \in {k \in Firsts(s) : Rank(s, k) < offset}}

Progressed ==
    \A r \in Run :
        attempt[r].pc \in {"committing", "batch"} =>
            SeenIn(r) \subseteq Before(attempt[r].jobs, attempt[r].offset)

\* The batches of a snapshot are disjoint, and follow each other.
LEMMA BatchIsNew ==
    ASSUME NEW s \in Seq(Listing), NEW offset \in Nat
    PROVE  /\ DOMAIN BatchOf(s, offset) \cap Before(s, offset) = {}
           /\ DOMAIN BatchOf(s, offset) \cup Before(s, offset)
                 \subseteq Before(s, offset + BatchSize)
<1> DEFINE at == {i \in Firsts(s) : Rank(s, i) \in offset .. (offset + BatchSize - 1)}
<1>1. DOMAIN BatchOf(s, offset) = {s[i].id : i \in at}
  BY DEF BatchOf
<1>2. \A i, k \in Firsts(s) : s[i].id = s[k].id => i = k
  <2>1. Firsts(s) \subseteq 1 .. Len(s) /\ Len(s) \in Nat
    BY DEF Firsts
  <2>2. \A i, k \in Firsts(s) : i < k => s[i].id # s[k].id
    BY <2>1 DEF Firsts
  <2> QED
    BY <2>1, <2>2
<1>3. \A i \in Firsts(s) : Rank(s, i) \in Nat
  <2> TAKE i \in Firsts(s)
  <2>1. Len(s) \in Int
    OBVIOUS
  <2>2. IsFiniteSet(1 .. Len(s))
    BY <2>1, FS_Interval
  <2>3. {k \in Firsts(s) : k < i} \subseteq 1 .. Len(s)
    BY DEF Firsts
  <2> QED
    BY <2>2, <2>3, FS_Subset, FS_CardinalityType DEF Rank
<1>4. BatchSize \in Nat
  BY ConstantsAssumption
<1>5. \A i \in Firsts(s) : /\ i \in at => Rank(s, i) >= offset
                           /\ i \in at => Rank(s, i) < offset + BatchSize
                           /\ Rank(s, i) < offset => Rank(s, i) < offset + BatchSize
  BY <1>3, <1>4
<1>6. \A i \in Firsts(s) : i \in at => ~(Rank(s, i) < offset)
  BY <1>3, <1>5
<1>7. at \subseteq Firsts(s)
  OBVIOUS
<1> HIDE DEF at
<1> QED
  BY <1>1, <1>2, <1>5, <1>6, <1>7 DEF Before

\* Every attempt commits its batches in order.
LEMMA NextProgressed == TypeOK /\ IInv /\ Progressed /\ [Next]_vars => Progressed'
<1> SUFFICES ASSUME TypeOK, IInv, Progressed, [Next]_vars,
                    NEW q \in Run, attempt'[q].pc \in {"committing", "batch"}
             PROVE  SeenIn(q)' \subseteq Before(attempt'[q].jobs, attempt'[q].offset)
  BY DEF Progressed
<1>1. CASE UNCHANGED vars
  BY <1>1, SameMarks DEF vars, Progressed
<1>2. ASSUME NEW r \in Run, CommitBatch(r)
      PROVE  SeenIn(q)' \subseteq Before(attempt'[q].jobs, attempt'[q].offset)
  <2>1. CASE q = r
    <3>1. SeenIn(r)' = SeenIn(r) \cup DOMAIN Batch(r)
      BY <1>2, CommitBatchMarks
    <3>2. SeenIn(r) \subseteq Before(attempt[r].jobs, attempt[r].offset)
      BY <1>2 DEF CommitBatch, Progressed, At
    <3>3. attempt'[r].jobs = attempt[r].jobs /\ attempt'[r].offset = attempt[r].offset + BatchSize
      BY <1>2 DEF CommitBatch, TypeOK, Attempt
    <3>4. attempt[r].jobs \in Seq(Listing) /\ attempt[r].offset \in Nat
      BY DEF TypeOK, Attempt
    <3> QED
      BY <2>1, <3>1, <3>2, <3>3, <3>4, BatchIsNew DEF Batch
  <2>2. CASE q # r
    <3>1. SeenIn(q)' = SeenIn(q)
      BY <1>2, <2>2, CommitBatchMarks
    <3>2. attempt'[q] = attempt[q]
      BY <1>2, <2>2 DEF CommitBatch, TypeOK
    <3> QED
      BY <3>1, <3>2 DEF Progressed
  <2> QED
    BY <2>1, <2>2
<1>3. ASSUME NEW r \in Run, Succeed(r)
      PROVE  SeenIn(q)' \subseteq Before(attempt'[q].jobs, attempt'[q].offset)
  <2>1. SeenIn(q)' = SeenIn(q)
    BY <1>3, CloseMarks DEF Succeed
  <2>2. attempt'[q] = attempt[q]
    BY <1>3 DEF Succeed, Leave, Goto, AttemptAt, TypeOK, Attempt
  <2> QED
    BY <2>1, <2>2 DEF Progressed
<1>4. ASSUME NEW r \in Run, NEW s \in Snapshots, NEW close \in BOOLEAN, Fetched(r, s, close)
      PROVE  SeenIn(q)' \subseteq Before(attempt'[q].jobs, attempt'[q].offset)
  <2>1. SeenIn(q)' = SeenIn(q)
    BY <1>4, SameMarks DEF Fetched, durable
  <2>2. CASE q = r
    <3>1. SeenIn(q) = {}
      BY <1>4, <2>2 DEF Fetched, IInv, AttemptAgrees, At
    <3> QED
      BY <2>1, <3>1
  <2>3. CASE q # r
    BY <1>4, <2>1, <2>3 DEF Fetched, TypeOK, Progressed
  <2> QED
    BY <2>2, <2>3
<1>5. ASSUME NEW r \in Run,
             Begin(r) \/ FetchFails(r) \/ ReadBatch(r) \/ ReadMissing(r)
               \/ PersistenceFails(r) \/ RecordFailure(r) \/ Lost(r)
      PROVE  SeenIn(q)' \subseteq Before(attempt'[q].jobs, attempt'[q].offset)
  <2>1. SeenIn(q)' = SeenIn(q)
    BY <1>5, SameMarks DEF Begin, FetchFails, Failed, ReadBatch, ReadMissing, PersistenceFails,
                           RecordFailure, Lost, durable
  <2>2. /\ attempt'[q].jobs = attempt[q].jobs /\ attempt'[q].offset = attempt[q].offset
        /\ attempt[q].pc \in {"committing", "batch"}
    <3>1. CASE q # r
      BY <1>5, <3>1 DEF Begin, FetchFails, ReadBatch, ReadMissing, PersistenceFails,
                        RecordFailure, Lost, Goto, Leave, TypeOK
    <3>2. CASE q = r /\ ReadBatch(r)
      BY <3>2 DEF ReadBatch, At, TypeOK, Attempt
    <3>3. ASSUME q = r, ~ReadBatch(r) PROVE FALSE
      <4>1. ~Begin(r) /\ ~PersistenceFails(r)
        BY <3>3 DEF Begin, PersistenceFails, Goto, TypeOK, Attempt
      <4>2. ~Leave(r, "done") /\ ~Leave(r, "lost")
        BY <3>3 DEF Leave, AttemptAt, TypeOK
      <4>3. ~ReadMissing(r)
        BY <3>3 DEF ReadMissing, TypeOK, Attempt
      <4> QED
        BY <1>5, <3>3, <4>1, <4>2, <4>3 DEF FetchFails, RecordFailure, Lost
    <3> QED
      BY <1>5, <3>1, <3>2, <3>3
  <2> QED
    BY <2>1, <2>2 DEF Progressed
<1> QED
  BY <1>1, <1>2, <1>3, <1>4, <1>5 DEF Next, Work

\* The next batch of an attempt lists no job its run has seen.
LEMMA BatchUnseen ==
    ASSUME TypeOK, Progressed, NEW r \in Run, CommitBatch(r)
    PROVE  DOMAIN Batch(r) \cap SeenIn(r) = {}
<1>1. SeenIn(r) \subseteq Before(attempt[r].jobs, attempt[r].offset)
  BY DEF CommitBatch, Progressed, At
<1>2. attempt[r].jobs \in Seq(Listing) /\ attempt[r].offset \in Nat
  BY DEF TypeOK, Attempt
<1> QED
  BY <1>1, <1>2, BatchIsNew DEF Batch

\* Disjoint sets of jobs are counted together.
LEMMA CountDisjoint ==
    ASSUME NEW S \in SUBSET Job, NEW T \in SUBSET Job, S \cap T = {}
    PROVE  Cardinality(S \cup T) = Cardinality(S) + Cardinality(T)
<1>1. IsFiniteSet(S) /\ IsFiniteSet(T)
  BY FS_Subset, ConstantsAssumption
<1>2. /\ Cardinality(S \cup T) = Cardinality(S) + Cardinality(T) - Cardinality(S \cap T)
      /\ Cardinality(S) \in Nat /\ Cardinality(T) \in Nat
  BY <1>1, FS_Union, FS_CardinalityType
<1>3. Cardinality(S \cap T) = 0
  BY FS_EmptySet
<1> QED
  BY <1>2, <1>3

\* None and one are at most one.
LEMMA AtMostOne == Cardinality({}) <= 1 /\ \A S, n : S = {n} => Cardinality(S) <= 1
<1>1. Cardinality({}) = 0
  BY FS_EmptySet
<1>2. \A n : Cardinality({n}) = 1
  BY FS_Singleton
<1>3. Cardinality({}) <= 1
  BY <1>1
<1>4. ASSUME NEW S, NEW n, S = {n} PROVE Cardinality(S) <= 1
  <2>1. Cardinality({n}) = 1
    BY <1>2
  <2> QED
    BY <1>4, <2>1
<1> QED
  BY <1>3, <1>4

\* A run is counted as it has observed.
RunCounted(r) ==
    /\ \A k \in Kinds :
          /\ runs[r].count[k] = Cardinality({j \in Job : Observed(r, j, k)})
          /\ \A j \in Job : Cardinality(Marks(r, j, k)) <= 1
    /\ runs[r].jobCount = Cardinality(SeenIn(r))

\* A run whose counters and marks did not change is still counted.
LEMMA SameCounted ==
    ASSUME NEW q \in Run, RunCounted(q),
           runs'[q].count = runs[q].count, runs'[q].jobCount = runs[q].jobCount,
           \A j \in Job, k \in Kinds : Marks(q, j, k)' = Marks(q, j, k)
    PROVE  RunCounted(q)'
<1>1. \A j \in Job, k \in Kinds : Observed(q, j, k)' <=> Observed(q, j, k)
  BY DEF Observed
<1>2. SeenIn(q)' = SeenIn(q)
  BY <1>1 DEF SeenIn, Kinds
<1>3. \A k \in Kinds : {j \in Job : Observed(q, j, k)}' = {j \in Job : Observed(q, j, k)}
  BY <1>1
<1>4. \A k \in Kinds : /\ runs'[q].count[k] = Cardinality({j \in Job : Observed(q, j, k)}')
                       /\ \A j \in Job : Cardinality(Marks(q, j, k)') <= 1
  BY <1>3 DEF RunCounted
<1>5. runs'[q].jobCount = Cardinality(SeenIn(q)')
  BY <1>2 DEF RunCounted
<1> QED
  BY <1>4, <1>5 DEF RunCounted

\* A batch counts the jobs it marks (_increment_sync_count).
LEMMA CommitCounted ==
    ASSUME TypeOK, IInv, Progressed, NEW r \in Run, CommitBatch(r), RunCounted(r)
    PROVE  RunCounted(r)'
<1> DEFINE fresh(k) == {j \in DOMAIN Batch(r) : KindIn(r)[j] = k}
           marked(k) == {j \in Job : Observed(r, j, k)}
<1>1. DOMAIN Batch(r) \subseteq Job /\ DOMAIN KindIn(r) = DOMAIN Batch(r)
      /\ \A j \in DOMAIN Batch(r) : KindIn(r)[j] \in SeenKinds
  BY BatchWrites
<1>2. DOMAIN Batch(r) \cap SeenIn(r) = {}
  BY BatchUnseen
<1>3. /\ runs'[r].jobCount = runs[r].jobCount + Cardinality(DOMAIN Batch(r))
      /\ runs'[r].count = Counted(runs[r].count, KindIn(r))
  BY DEF CommitBatch, TypeOK, RunRow
<1>4. \A k \in Kinds : runs'[r].count[k] = runs[r].count[k] + Cardinality(fresh(k))
  BY <1>1, <1>3 DEF Counted
<1>5. \A j \in Job, k \in Kinds :
        Marks(r, j, k)' =
          Marks(r, j, k) \cup (IF j \in DOMAIN Batch(r) /\ KindIn(r)[j] = k
                               THEN {Len(observations[j]) + 1} ELSE {})
  BY CommitBatchMark
<1>6. \A j \in Job, k \in SeenKinds : Observed(r, j, k) => j \in SeenIn(r)
  BY DEF SeenIn
<1>7. \A k \in Kinds : fresh(k) \cap marked(k) = {} /\ (k \notin SeenKinds => fresh(k) = {})
  BY <1>1, <1>2, <1>6
<1>8. ASSUME NEW k \in Kinds
      PROVE  runs'[r].count[k] = Cardinality(marked(k)')
  <2>1. \A j \in Job : Observed(r, j, k)' <=> (Observed(r, j, k) \/ j \in fresh(k))
    BY <1>5 DEF Observed
  <2>2. marked(k)' = marked(k) \cup fresh(k)
    BY <1>1, <2>1
  <2>3. Cardinality(marked(k) \cup fresh(k)) = Cardinality(marked(k)) + Cardinality(fresh(k))
    <3>1. marked(k) \in SUBSET Job /\ fresh(k) \in SUBSET Job /\ marked(k) \cap fresh(k) = {}
      BY <1>1, <1>7
    <3> HIDE DEF marked, fresh
    <3> QED
      BY <3>1, CountDisjoint
  <2>4. runs[r].count[k] = Cardinality(marked(k))
    BY DEF RunCounted
  <2> HIDE DEF marked, fresh
  <2> QED
    BY <1>4, <2>2, <2>3, <2>4
<1>9. ASSUME NEW k \in Kinds, NEW j \in Job
      PROVE  Cardinality(Marks(r, j, k)') <= 1
  <2>1. CASE j \in fresh(k)
    <3>1. Marks(r, j, k) = {}
      BY <1>7, <2>1 DEF Observed
    <3>2. Marks(r, j, k)' = {Len(observations[j]) + 1}
      BY <1>5, <2>1, <3>1
    <3> QED
      BY <3>2, AtMostOne
  <2>2. CASE j \notin fresh(k)
    <3>1. Marks(r, j, k)' = Marks(r, j, k)
      BY <1>5, <2>2
    <3>2. Cardinality(Marks(r, j, k)) <= 1
      BY DEF RunCounted
    <3> QED
      BY <3>1, <3>2
  <2> QED
    BY <2>1, <2>2
<1>10. runs'[r].jobCount = Cardinality(SeenIn(r)')
  <2>1. SeenIn(r)' = SeenIn(r) \cup DOMAIN Batch(r)
    BY CommitBatchMarks
  <2>2. SeenIn(r) \in SUBSET Job /\ DOMAIN Batch(r) \in SUBSET Job
    BY <1>1 DEF SeenIn
  <2>3. Cardinality(SeenIn(r) \cup DOMAIN Batch(r)) =
          Cardinality(SeenIn(r)) + Cardinality(DOMAIN Batch(r))
    BY <1>2, <2>2, CountDisjoint
  <2> QED
    BY <1>3, <2>1, <2>3 DEF RunCounted
<1> QED
  BY <1>8, <1>9, <1>10 DEF RunCounted

\* The last transaction counts the jobs it closes.
LEMMA SucceedCounted ==
    ASSUME TypeOK, IInv, NEW r \in Run, Succeed(r), RunCounted(r)
    PROVE  RunCounted(r)'
<1> DEFINE marked(k) == {j \in Job : Observed(r, j, k)}
<1>1. ReadIn(r) \subseteq Job
  BY DEF ReadIn, TypeOK, Attempt
<1>2. /\ runs'[r].jobCount = runs[r].jobCount
      /\ runs'[r].count = [runs[r].count EXCEPT !["closed"] = @ + Cardinality(ReadIn(r))]
  BY DEF Succeed, TypeOK, RunRow
<1>3. runs[r].count \in [Kinds -> Nat]
  BY DEF TypeOK, RunRow
<1>4. runs[r].status = "pending"
  BY DEF Succeed, IInv, AttemptAgrees, At
<1>5. \A j \in Job : ~Observed(r, j, "closed")
  BY <1>4 DEF IInv, ClosedOnlyBySuccess
<1>6. \A j \in Job, k \in Kinds :
        Marks(r, j, k)' =
          Marks(r, j, k) \cup (IF j \in ReadIn(r) /\ k = "closed"
                               THEN {Len(observations[j]) + 1} ELSE {})
  BY CloseMark DEF Succeed
<1>7. ASSUME NEW k \in Kinds
      PROVE  runs'[r].count[k] = Cardinality(marked(k)')
  <2>1. CASE k = "closed"
    <3>1. marked(k) = {} /\ marked(k)' = ReadIn(r)
      BY <1>1, <1>5, <1>6, <2>1 DEF Observed
    <3>2. runs[r].count[k] = 0
      BY <3>1, FS_EmptySet DEF RunCounted
    <3>3. Cardinality(ReadIn(r)) \in Nat
      BY <1>1, FS_Subset, FS_CardinalityType, ConstantsAssumption
    <3>4. runs'[r].count[k] = 0 + Cardinality(ReadIn(r))
      BY <1>2, <1>3, <2>1, <3>2
    <3> HIDE DEF marked
    <3> QED
      BY <3>1, <3>3, <3>4
  <2>2. CASE k # "closed"
    <3>1. marked(k)' = marked(k)
      BY <1>6, <2>2 DEF Observed
    <3>2. runs'[r].count[k] = runs[r].count[k]
      BY <1>2, <1>3, <2>2
    <3> QED
      BY <3>1, <3>2 DEF RunCounted
  <2> QED
    BY <2>1, <2>2
<1>8. ASSUME NEW k \in Kinds, NEW j \in Job
      PROVE  Cardinality(Marks(r, j, k)') <= 1
  <2>1. CASE j \in ReadIn(r) /\ k = "closed"
    <3>1. Marks(r, j, k)' = {Len(observations[j]) + 1}
      BY <1>5, <1>6, <2>1 DEF Observed
    <3> QED
      BY <3>1, AtMostOne
  <2>2. CASE ~(j \in ReadIn(r) /\ k = "closed")
    <3>1. Marks(r, j, k)' = Marks(r, j, k)
      BY <1>6, <2>2
    <3>2. Cardinality(Marks(r, j, k)) <= 1
      BY DEF RunCounted
    <3> QED
      BY <3>1, <3>2
  <2> QED
    BY <2>1, <2>2
<1>9. runs'[r].jobCount = Cardinality(SeenIn(r)')
  BY <1>2, CloseMarks DEF Succeed, RunCounted
<1> QED
  BY <1>7, <1>8, <1>9 DEF RunCounted

\* A run that is begun has observed nothing, and starts from zero.
LEMMA BeginCounted ==
    ASSUME TypeOK, IInv, NEW r \in Run, Begin(r), RunCounted(r)
    PROVE  RunCounted(r)'
<1>1. SeenIn(r) = {} /\ runs[r].status # "succeeded"
  BY DEF Begin, IInv, AttemptAgrees, At
<1>2. \A j \in Job, k \in Kinds : ~Observed(r, j, k)
  BY <1>1 DEF SeenIn, IInv, ClosedOnlyBySuccess, Kinds
<1>3. /\ SeenIn(r)' = {}
      /\ \A k \in Kinds : {j \in Job : Observed(r, j, k)}' = {}
      /\ \A j \in Job, k \in Kinds : Marks(r, j, k)' = {}
  BY <1>1, <1>2, SameMarks DEF Begin, Observed
<1>4. runs'[r].jobCount = 0 /\ \A k \in Kinds : runs'[r].count[k] = 0
  BY DEF Begin, NoRun, TypeOK
<1> QED
  BY <1>3, <1>4, FS_EmptySet, AtMostOne DEF RunCounted

\* Every step of every process keeps the counters.
LEMMA NextCounted ==
    ASSUME TypeOK, IInv, Progressed, CountersAgree, [Next]_vars
    PROVE  CountersAgree'
<1> SUFFICES ASSUME NEW q \in Run PROVE RunCounted(q)'
  BY DEF CountersAgree, RunCounted
<1>1. RunCounted(q)
  BY DEF CountersAgree, RunCounted
<1>2. CASE UNCHANGED vars
  BY <1>1, <1>2, SameMarks, SameCounted DEF vars
<1>3. ASSUME NEW r \in Run, CommitBatch(r) PROVE RunCounted(q)'
  <2>1. CASE q = r
    BY <1>1, <1>3, <2>1, CommitCounted
  <2>2. CASE q # r
    <3>1. runs'[q] = runs[q] /\ \A j \in Job, k \in Kinds : Marks(q, j, k)' = Marks(q, j, k)
      BY <1>3, <2>2, CommitBatchMarks DEF CommitBatch, TypeOK
    <3> QED
      BY <1>1, <3>1, SameCounted
  <2> QED
    BY <2>1, <2>2
<1>4. ASSUME NEW r \in Run, Succeed(r) PROVE RunCounted(q)'
  <2>1. CASE q = r
    BY <1>1, <1>4, <2>1, SucceedCounted
  <2>2. CASE q # r
    <3>1. runs'[q] = runs[q] /\ \A j \in Job, k \in Kinds : Marks(q, j, k)' = Marks(q, j, k)
      BY <1>4, <2>2, CloseMarks DEF Succeed, TypeOK
    <3> QED
      BY <1>1, <3>1, SameCounted
  <2> QED
    BY <2>1, <2>2
<1>5. ASSUME NEW r \in Run, Begin(r) PROVE RunCounted(q)'
  <2>1. CASE q = r
    BY <1>1, <1>5, <2>1, BeginCounted
  <2>2. CASE q # r
    <3>1. runs'[q] = runs[q] /\ \A j \in Job, k \in Kinds : Marks(q, j, k)' = Marks(q, j, k)
      BY <1>5, <2>2, SameMarks DEF Begin, TypeOK
    <3> QED
      BY <1>1, <3>1, SameCounted
  <2> QED
    BY <2>1, <2>2
<1>6. ASSUME NEW r \in Run,
             FetchFails(r) \/ (\E s \in Snapshots, close \in BOOLEAN : Fetched(r, s, close))
               \/ ReadBatch(r) \/ ReadMissing(r)
               \/ PersistenceFails(r) \/ RecordFailure(r) \/ Lost(r)
      PROVE  RunCounted(q)'
  <2>1. UNCHANGED observations
    BY <1>6 DEF FetchFails, Failed, Fetched, ReadBatch, ReadMissing, PersistenceFails,
                RecordFailure, Lost, durable
  <2>2. runs'[q].count = runs[q].count /\ runs'[q].jobCount = runs[q].jobCount
    <3>1. CASE runs' = runs
      BY <3>1
    <3>2. ASSUME NEW kind, NEW authoritative, Failed(r, kind, authoritative)
          PROVE  runs'[q].count = runs[q].count /\ runs'[q].jobCount = runs[q].jobCount
      BY <3>2 DEF Failed, TypeOK, RunRow
    <3> QED
      BY <1>6, <3>1, <3>2 DEF FetchFails, Fetched, ReadBatch, ReadMissing, PersistenceFails,
                RecordFailure, Lost, durable
  <2>3. \A j \in Job, k \in Kinds : Marks(q, j, k)' = Marks(q, j, k)
    BY <2>1, SameMarks
  <2> QED
    BY <1>1, <2>2, <2>3, SameCounted
<1> QED
  BY <1>2, <1>3, <1>4, <1>5, <1>6 DEF Next, Work

\* An empty ledger has counted nothing.
LEMMA InitCounted == Init => Progressed /\ CountersAgree
<1> SUFFICES ASSUME Init PROVE Progressed /\ CountersAgree
  OBVIOUS
<1>1. \A r \in Run, j \in Job, k \in Kinds : Marks(r, j, k) = {}
  BY DEF Init, Marks
<1>2. \A r \in Run : /\ SeenIn(r) = {}
                     /\ \A k \in Kinds : {j \in Job : Observed(r, j, k)} = {}
  BY <1>1 DEF SeenIn, Observed, Kinds
<1>3. \A r \in Run : runs[r].jobCount = 0 /\ \A k \in Kinds : runs[r].count[k] = 0
  BY DEF Init, NoRun
<1>4. Progressed
  BY DEF Init, Progressed, AttemptAt
<1> QED
  BY <1>1, <1>2, <1>3, <1>4, FS_EmptySet, AtMostOne DEF CountersAgree

\* At every commit, whoever else writes, the counters of every run are what it has
\* observed, and no row, observation or version contradicts another
\* (_commit_job_batch, _upsert_job_snapshot, _close_missing_jobs).
THEOREM LedgersConsistent == Spec => []LedgerConsistent
<1>1. Init => HistoryInv /\ Progressed /\ CountersAgree
  BY InitHistories, InitCounted
<1>2. TypeOK /\ IInv /\ HistoryInv /\ Progressed /\ CountersAgree /\ [Next]_vars
        => HistoryInv' /\ Progressed' /\ CountersAgree'
  BY NextHistories, NextProgressed, NextCounted
<1>3. HistoryInv /\ CountersAgree => LedgerConsistent
  BY DEF HistoryInv, JobKept, LedgerConsistent, HistoriesWellFormed
<1> QED
  BY <1>1, <1>2, <1>3, Invariance, PTL DEF Spec

(***************************************************************************)
(* The ledger implements the catalogue its readers see.                    *)
(***************************************************************************)

Open == {j \in Job : rows[j].status = "open"}

\* A step that changes no run's status, no open job and no sighting is none of the
\* catalogue's.
LEMMA Stutters ==
    ASSUME \A q \in Run : runs'[q].status = runs[q].status, UNCHANGED <<rows, observations>>
    PROVE  UNCHANGED Catalogue!vars
<1>1. [q \in Run |-> runs'[q].status] = [q \in Run |-> runs[q].status]
  OBVIOUS
<1>2. \A q \in Run : SeenIn(q)' = SeenIn(q)
  BY SameMarks
<1>3. [q \in Run |-> SeenIn(q)'] = [q \in Run |-> SeenIn(q)]
  BY <1>2
<1> QED
  BY <1>1, <1>3 DEF Catalogue!vars

\* A batch is one Commit of the catalogue: jobs the run had not seen, some of which
\* it opens.
LEMMA CommitImplements ==
    ASSUME TypeOK, IInv, Progressed, NEW r \in Run, CommitBatch(r)
    PROVE  Catalogue!Commit(r, DOMAIN Batch(r))
<1> DEFINE status == [q \in Run |-> runs[q].status]
           seen == [q \in Run |-> SeenIn(q)]
<1>1. runs[r].status = "pending" /\ \A q \in Run : runs'[q].status = runs[q].status
  BY DEF CommitBatch, IInv, AttemptAgrees, At, TypeOK, RunRow
<1>2. DOMAIN Batch(r) \cap SeenIn(r) = {}
  BY BatchUnseen
<1>3. \A q \in Run : SeenIn(q)' = IF q = r THEN SeenIn(q) \cup DOMAIN Batch(r) ELSE SeenIn(q)
  BY CommitBatchMarks
<1>4. [q \in Run |-> SeenIn(q)'] = [seen EXCEPT ![r] = @ \cup DOMAIN Batch(r)]
  BY <1>3
<1>5. [q \in Run |-> runs'[q].status] = [q \in Run |-> runs[q].status]
  BY <1>1
<1>6. DOMAIN Batch(r) \subseteq Job
  BY BatchWrites
<1> DEFINE opened == {j \in DOMAIN Batch(r) : rows'[j].status = "open"}
<1>7. \A j \in Job : rows'[j].status = "open" <=> (rows[j].status = "open" \/ j \in opened)
  <2> TAKE j \in Job
  <2>1. CASE j \notin DOMAIN Batch(r)
    BY <2>1 DEF CommitBatch
  <2>2. CASE j \in DOMAIN Batch(r)
    <3>1. rows'[j].status = (IF Known(r, j).status = "open" THEN rows[j].status ELSE "open")
      BY <2>2 DEF CommitBatch, Flushed
    <3> QED
      BY <2>2, <3>1
  <2> QED
    BY <2>1, <2>2
<1>8. Open' = Open \cup opened
  BY <1>6, <1>7 DEF Open
<1>9. opened \in SUBSET (DOMAIN Batch(r))
  OBVIOUS
<1> QED
  BY <1>1, <1>2, <1>4, <1>5, <1>8, <1>9 DEF Catalogue!Commit, Open

\* The last transaction is one Succeed of the catalogue.
LEMMA SucceedImplements ==
    ASSUME TypeOK, IInv, NEW r \in Run, Succeed(r)
    PROVE  ReadIn(r) \subseteq Job /\ Catalogue!Succeed(r, ReadIn(r))
<1> DEFINE status == [q \in Run |-> runs[q].status]
<1>1. /\ runs[r].status = "pending"
      /\ \A q \in Run : runs'[q].status = IF q = r THEN "succeeded" ELSE runs[q].status
  BY DEF Succeed, IInv, AttemptAgrees, At, TypeOK, RunRow
<1>2. SeenIn(r) \cap ReadIn(r) = {}
  BY DEF Succeed, IInv, AttemptAgrees, At
<1>3. \A q \in Run : SeenIn(q)' = SeenIn(q)
  BY CloseMarks DEF Succeed
<1>4. [q \in Run |-> SeenIn(q)'] = [q \in Run |-> SeenIn(q)]
  BY <1>3
<1>5. [q \in Run |-> runs'[q].status] = [status EXCEPT ![r] = "succeeded"]
  BY <1>1
<1>6. ReadIn(r) \subseteq Job
  BY DEF ReadIn, TypeOK, Attempt
<1>7. \A j \in Job : rows'[j].status = "open" <=> (rows[j].status = "open" /\ j \notin ReadIn(r))
  BY DEF Succeed, Close, TypeOK, Row
<1>8. Open' = Open \ ReadIn(r)
  BY <1>7 DEF Open
<1> QED
  BY <1>1, <1>2, <1>4, <1>5, <1>6, <1>8 DEF Catalogue!Succeed, Open

\* Beginning a run, and recording its failure, are the catalogue's.
LEMMA StatusImplements ==
    ASSUME TypeOK, NEW r \in Run, UNCHANGED <<rows, observations>>
    PROVE  /\ runs[r].status = "absent" /\ Begin(r) => Catalogue!Begin(r)
           /\ \A kind, authoritative : Failed(r, kind, authoritative) => Catalogue!Fail(r)
<1> DEFINE status == [q \in Run |-> runs[q].status]
<1>1. [q \in Run |-> SeenIn(q)'] = [q \in Run |-> SeenIn(q)]
  BY SameMarks
<1>2. Open' = Open
  BY DEF Open
<1>3. ASSUME runs[r].status = "absent", Begin(r) PROVE Catalogue!Begin(r)
  <2>1. \A q \in Run : runs'[q].status = IF q = r THEN "pending" ELSE runs[q].status
    BY <1>3 DEF Begin, NoRun, TypeOK
  <2>2. [q \in Run |-> runs'[q].status] = [status EXCEPT ![r] = "pending"]
    BY <2>1
  <2> QED
    BY <1>1, <1>2, <1>3, <2>2 DEF Catalogue!Begin, Open
<1>4. ASSUME NEW kind, NEW authoritative, Failed(r, kind, authoritative)
      PROVE  Catalogue!Fail(r)
  <2>1. \A q \in Run : runs'[q].status = IF q = r THEN "failed" ELSE runs[q].status
    BY <1>4 DEF Failed, TypeOK, RunRow
  <2>2. [q \in Run |-> runs'[q].status] = [status EXCEPT ![r] = "failed"]
    BY <2>1
  <2> QED
    BY <1>1, <1>2, <1>4, <2>2 DEF Catalogue!Fail, Failed, Open
<1> QED
  BY <1>3, <1>4

\* The ledger implements the catalogue: batches, races, failures and crashes are seen
\* by the readers as runs that begin, add jobs, and end once, and only the end
\* of a run that succeeded takes jobs away (complete_job_sync_run).
THEOREM CatalogueImplemented == Spec => ImplementsCatalogue
<1>1. Init => Catalogue!Init
  BY DEF Init, Catalogue!Init, NoRun, NoRow, SeenIn, Observed, Marks
<1>2. TypeOK /\ IInv /\ Progressed /\ [Next]_vars => [Catalogue!Next]_(Catalogue!vars)
  <2> SUFFICES ASSUME TypeOK, IInv, Progressed, [Next]_vars
               PROVE  Catalogue!Next \/ UNCHANGED Catalogue!vars
    OBVIOUS
  <2>1. ASSUME NEW r \in Run, Begin(r) PROVE Catalogue!Next
    <3>1. runs[r].status = "absent"
      BY <2>1 DEF Begin, IInv, AttemptAgrees, At
    <3> QED
      BY <2>1, <3>1, StatusImplements DEF Begin, Catalogue!Next
  <2>2. ASSUME NEW r \in Run, NEW kind, NEW authoritative, Failed(r, kind, authoritative)
        PROVE  Catalogue!Next
    BY <2>2, StatusImplements DEF Failed, Catalogue!Next
  <2>3. ASSUME NEW r \in Run, CommitBatch(r) PROVE Catalogue!Next
    <3>1. DOMAIN Batch(r) \in SUBSET Job
      BY BatchWrites
    <3>2. Catalogue!Commit(r, DOMAIN Batch(r))
      BY <2>3, CommitImplements
    <3>3. \E S \in SUBSET Job : Catalogue!Commit(r, S) \/ Catalogue!Succeed(r, S)
      BY <3>1, <3>2 DEF Catalogue!Commit
    <3> QED
      BY <3>3 DEF Catalogue!Next
  <2>4. ASSUME NEW r \in Run, Succeed(r) PROVE Catalogue!Next
    <3>1. ReadIn(r) \in SUBSET Job /\ Catalogue!Succeed(r, ReadIn(r))
      BY <2>4, SucceedImplements
    <3>2. \E S \in SUBSET Job : Catalogue!Commit(r, S) \/ Catalogue!Succeed(r, S)
      BY <3>1 DEF Catalogue!Succeed
    <3> QED
      BY <3>2 DEF Catalogue!Next
  <2>5. ASSUME NEW r \in Run, UNCHANGED durable PROVE UNCHANGED Catalogue!vars
    BY <2>5, Stutters DEF durable
  <2>6. CASE UNCHANGED vars
    BY <2>6, Stutters DEF vars
  <2>7. ASSUME NEW r \in Run, Begin(r) \/ Work(r) \/ Lost(r)
        PROVE  Catalogue!Next \/ UNCHANGED Catalogue!vars
    BY <2>1, <2>2, <2>3, <2>4, <2>5, <2>7
       DEF Work, FetchFails, Fetched, ReadBatch, ReadMissing, PersistenceFails, RecordFailure,
           Lost
  <2> QED
    BY <2>6, <2>7 DEF Next
<1>3. Spec => []Progressed
  <2>1. Init => Progressed
    BY InitCounted
  <2> QED
    BY <2>1, NextProgressed, Invariance, PTL DEF Spec
<1> QED
  BY <1>1, <1>2, <1>3, Invariance, PTL DEF Spec, ImplementsCatalogue, Catalogue!Spec

(***************************************************************************)
(* One attempt at a time.  As long as no two attempts were alive at once,  *)
(* what a session has read of a row is what the row is, so each row is     *)
(* what its last observation says, and a run that closes what it did not   *)
(* list leaves open what it listed.                                        *)
(***************************************************************************)

\* The row that a history makes.
RowOf(h) ==
    IF h = <<>> THEN NoRow
    ELSE [status |-> IF h[Len(h)].kind = "closed" THEN "closed" ELSE "open",
          version |-> h[Len(h)].version]

\* What an observation says of the one before it.
Linked(a, b) ==
    /\ (b.kind = "reopened") <=> (a.kind = "closed")
    /\ b.kind = "changed" => b.version # a.version
    /\ b.kind \in {"unchanged", "closed"} => b.version = a.version

Chained(h) == \A n \in 2 .. Len(h) : Linked(h[n - 1], h[n])

Told(j) == rows[j] = RowOf(observations[j]) /\ Chained(observations[j])

\* What the session of an attempt has read is what the rows are.
Current(r) ==
    attempt[r].pc \in {"batch", "closing"} =>
        \A m \in attempt[r].read : m.id \in Job /\ m.row = rows[m.id]

\* What an attempt has committed is open, and what it is about to close is the rest.
Covered(r) ==
    /\ attempt[r].pc \in {"committing", "batch", "closing"} =>
          Before(attempt[r].jobs, attempt[r].offset) \subseteq Open
    /\ At(r, "closing") =>
          /\ SeenBy(attempt[r].jobs) \subseteq Open
          /\ attempt[r].close => ReadIn(r) = Open \ SeenBy(attempt[r].jobs)

Alone ==
    /\ ~Overlap
    /\ \A j \in Job : Told(j)
    /\ \A r \in Run : Current(r) /\ Covered(r)

\* One more observation keeps a history chained.
LEMMA ChainedMore ==
    ASSUME NEW h \in Seq(Observation), NEW o \in Observation, Chained(h),
           h # <<>> => Linked(h[Len(h)], o)
    PROVE  Chained(Append(h, o)) /\ Append(h, o) # <<>>
           /\ Append(h, o)[Len(Append(h, o))] = o
<1> DEFINE g == Append(h, o)
<1>1. /\ Len(h) \in Nat /\ Len(g) = Len(h) + 1 /\ g # <<>>
      /\ \A n \in 1 .. Len(h) : g[n] = h[n]
      /\ g[Len(h) + 1] = o
      /\ h # <<>> <=> Len(h) # 0
  <2>1. Len(h) \in Nat /\ Len(g) = Len(h) + 1
    OBVIOUS
  <2>2. Len(<<>>) = 0
    OBVIOUS
  <2>3. g # <<>>
    <3> HIDE DEF g
    <3> QED
      BY <2>1, <2>2
  <2>4. \A n \in 1 .. Len(h) : g[n] = h[n]
    OBVIOUS
  <2>5. g[Len(h) + 1] = o
    OBVIOUS
  <2>6. h # <<>> <=> Len(h) # 0
    OBVIOUS
  <2> QED
    BY <2>1, <2>3, <2>4, <2>5, <2>6
<1> HIDE DEF g
<1>2. ASSUME NEW n \in 2 .. Len(g) PROVE Linked(g[n - 1], g[n])
  <2>1. CASE n \in 2 .. Len(h)
    <3>1. g[n - 1] = h[n - 1] /\ g[n] = h[n]
      BY <1>1, <2>1
    <3> QED
      BY <2>1, <3>1 DEF Chained
  <2>2. CASE n = Len(h) + 1
    <3>1. Len(h) \in 1 .. Len(h) /\ h # <<>> /\ n - 1 = Len(h)
      BY <1>1, <1>2, <2>2
    <3>2. g[n - 1] = h[Len(h)] /\ g[n] = o
      BY <1>1, <2>2, <3>1
    <3> QED
      BY <3>1, <3>2
  <2> QED
    BY <1>1, <1>2, <2>1, <2>2
<1>3. g[Len(g)] = o
  BY <1>1
<1> QED
  BY <1>1, <1>2, <1>3 DEF Chained, g

\* With its reads current, a session knows every row as it is.
LEMMA KnownCurrent ==
    ASSUME TypeOK, NEW r \in Run, Current(r), attempt[r].pc \in {"batch", "closing"},
           NEW j \in Job
    PROVE  Known(r, j) = rows[j]
<1>1. CASE j \in ReadIn(r)
  <2>1. \E m \in attempt[r].read : m.id = j
    BY <1>1 DEF ReadIn
  <2>2. PICK m \in attempt[r].read : m.id = j /\ Known(r, j) = m.row
    BY <1>1, <2>1 DEF Known
  <2> QED
    BY <2>2 DEF Current
<1>2. CASE j \notin ReadIn(r)
  BY <1>2 DEF Known
<1> QED
  BY <1>1, <1>2

\* A stored content is the current one exactly when its number is.
LEMMA VersionAgain ==
    ASSUME TypeOK, NEW j \in Job, JobKept(j), NEW h \in Hash, NEW n \in DOMAIN versions[j]
    PROVE  (versions[j][n] = h) <=> (VersionOf(j, h) = n)
<1>1. versions[j] \in Seq(Hash) /\ n \in Nat /\ n <= Len(versions[j]) /\ Len(versions[j]) \in Nat
  BY DEF TypeOK
<1>2. CASE h \in HashesOf(j)
  <2>1. \E m \in DOMAIN versions[j] : versions[j][m] = h
    BY <1>2 DEF HashesOf
  <2>2. PICK m \in DOMAIN versions[j] : versions[j][m] = h /\ VersionOf(j, h) = m
    BY <1>2, <2>1 DEF VersionOf
  <2> QED
    BY <2>2 DEF JobKept
<1>3. CASE h \notin HashesOf(j)
  <2>1. versions[j][n] # h /\ VersionOf(j, h) = Len(versions[j]) + 1
    BY <1>3 DEF HashesOf, VersionOf
  <2> QED
    BY <1>1, <2>1
<1> QED
  BY <1>2, <1>3

\* A batch tells of each of its jobs what it does to the row.
LEMMA CommitTells ==
    ASSUME TypeOK, HistoryInv, NEW r \in Run, CommitBatch(r), Current(r), NEW j \in Job, Told(j)
    PROVE  Told(j)' /\ (j \in DOMAIN Batch(r) => rows'[j].status = "open")
           /\ (j \notin DOMAIN Batch(r) => rows'[j] = rows[j])
<1>1. CASE j \notin DOMAIN Batch(r)
  BY <1>1 DEF CommitBatch, Told
<1>2. CASE j \in DOMAIN Batch(r)
  <2> DEFINE h == Batch(r)[j]
             v == VersionOf(j, h)
             kind == ObservationKind(rows[j], j, h)
             past == observations[j]
             o == [run |-> r, kind |-> kind, version |-> v]
             wanted == [status |-> "open", version |-> v]
  <2>1. h \in Hash /\ KindIn(r)[j] \in SeenKinds /\ VersionIn(r)[j] \in Nat
    BY <1>2, BatchWrites
  <2>2. Known(r, j) = rows[j]
    BY KnownCurrent DEF CommitBatch, At
  <2>3. VersionIn(r)[j] = v /\ KindIn(r)[j] = kind
    BY <1>2, <2>2 DEF VersionIn, KindIn
  <2>4. rows'[j] = Flushed(rows[j], wanted, rows[j]) /\ observations'[j] = Append(past, o)
    BY <1>2, <2>2, <2>3 DEF CommitBatch
  <2>5. rows'[j] = wanted
    BY <2>4 DEF Flushed
  <2>6. o \in Observation /\ past \in Seq(Observation) /\ kind # "closed"
    BY <2>1, <2>3 DEF Observation, Kinds, SeenKinds, TypeOK
  <2>7. o.kind = kind /\ o.version = v
    OBVIOUS
  <2>8. ASSUME past # <<>> PROVE Linked(past[Len(past)], o)
    <3> DEFINE last == past[Len(past)]
    <3>1. /\ rows[j].status = (IF last.kind = "closed" THEN "closed" ELSE "open")
          /\ rows[j].version = last.version
      BY <2>8 DEF Told, RowOf
    <3>2. CASE last.kind = "closed"
      <4>1. kind = "reopened"
        BY <3>1, <3>2 DEF ObservationKind
      <4> QED
        BY <2>7, <3>2, <4>1 DEF Linked
    <3>3. CASE last.kind # "closed"
      <4>1. JobKept(j) /\ rows[j].status = "open"
        BY <3>1, <3>3 DEF HistoryInv
      <4>2. rows[j].version \in DOMAIN versions[j]
        BY <4>1 DEF JobKept
      <4>3. (versions[j][rows[j].version] = h) <=> (v = rows[j].version)
        BY <2>1, <4>1, <4>2, VersionAgain
      <4>4. kind = (IF versions[j][rows[j].version] = h THEN "unchanged" ELSE "changed")
        BY <4>1 DEF ObservationKind
      <4> QED
        BY <2>7, <3>1, <3>3, <4>3, <4>4 DEF Linked
    <3> QED
      BY <3>2, <3>3
  <2>9. Chained(past)
    BY DEF Told
  <2>10. wanted.status = "open" /\ wanted = [status |-> "open", version |-> o.version]
    OBVIOUS
  <2> HIDE DEF o, past, wanted, kind
  <2>11. /\ Chained(Append(past, o)) /\ Append(past, o) # <<>>
         /\ Append(past, o)[Len(Append(past, o))] = o
    BY <2>6, <2>8, <2>9, ChainedMore
  <2>12. RowOf(Append(past, o)) = [status |-> "open", version |-> o.version]
    BY <2>6, <2>7, <2>11 DEF RowOf
  <2> QED
    BY <1>2, <2>4, <2>5, <2>10, <2>11, <2>12 DEF Told
<1> QED
  BY <1>1, <1>2

\* The last transaction tells of each job what it does to the row.
LEMMA CloseTells ==
    ASSUME TypeOK, HistoryInv, NEW r \in Run, Succeed(r), Current(r), NEW j \in Job, Told(j)
    PROVE  Told(j)'
<1>1. CASE j \notin ReadIn(r)
  BY <1>1 DEF Succeed, Close, Told
<1>2. CASE j \in ReadIn(r)
  <2> DEFINE past == observations[j]
             o == [run |-> r, kind |-> "closed", version |-> rows[j].version]
  <2>1. Known(r, j) = rows[j]
    BY KnownCurrent DEF Succeed, At
  <2>2. /\ rows'[j] = [rows[j] EXCEPT !.status = "closed"]
        /\ observations'[j] = Append(past, o)
    BY <1>2, <2>1 DEF Succeed, Close
  <2>3. rows[j] \in Row /\ past \in Seq(Observation)
    BY DEF TypeOK
  <2>4. o \in Observation
    BY <2>3 DEF Observation, Kinds, Row
  <2>5. rows'[j] = [status |-> "closed", version |-> o.version]
    BY <2>2, <2>3 DEF Row
  <2>6. PICK m \in attempt[r].read : m.id = j
    BY <1>2 DEF ReadIn
  <2>7. rows[j].status = "open"
    BY <2>6 DEF Current, Succeed, At, HistoryInv
  <2>8. o.kind = "closed" /\ o.version = rows[j].version
    OBVIOUS
  <2>9. past # <<>> => Linked(past[Len(past)], o)
    BY <2>7, <2>8 DEF Told, RowOf, Linked
  <2>10. Chained(past)
    BY DEF Told
  <2> HIDE DEF o, past
  <2>11. /\ Chained(Append(past, o)) /\ Append(past, o) # <<>>
         /\ Append(past, o)[Len(Append(past, o))] = o
    BY <2>3, <2>4, <2>9, <2>10, ChainedMore
  <2>12. RowOf(Append(past, o)) = [status |-> "closed", version |-> o.version]
    BY <2>8, <2>11 DEF RowOf
  <2> QED
    BY <2>2, <2>5, <2>11, <2>12 DEF Told
<1> QED
  BY <1>1, <1>2

\* The place where a job is first listed.
LEMMA FirstPlace ==
    ASSUME NEW s \in Seq(Listing), NEW i \in DOMAIN s
    PROVE  \E k \in Firsts(s) : s[k].id = s[i].id
<1> DEFINE places == {n \in DOMAIN s : s[n].id = s[i].id}
<1>1. places \subseteq Nat /\ places # {} /\ DOMAIN s = 1 .. Len(s) /\ Len(s) \in Nat
  OBVIOUS
<1>2. PICK k \in places : \A n \in places : ~(<<n, k>> \in OpToRel(<, Nat))
  <2> HIDE DEF places
  <2> QED
    BY <1>1, WFMin, NatLessThanWellFounded
<1>3. \A n \in places : ~(n < k)
  BY <1>1, <1>2 DEF OpToRel
<1>4. \A n \in 1 .. (k - 1) : n \in DOMAIN s /\ n < k
  BY <1>1
<1>5. \A n \in 1 .. (k - 1) : s[n].id # s[k].id
  BY <1>3, <1>4
<1> QED
  BY <1>5 DEF Firsts

\* Once the offset has passed every first listing, every listed job is before it; what is
\* before the next offset is before this one, or in the batch between them.
LEMMA AllBefore ==
    ASSUME NEW s \in Seq(Listing), NEW offset \in Nat
    PROVE  /\ offset >= Cardinality(Firsts(s)) => SeenBy(s) \subseteq Before(s, offset)
           /\ Before(s, offset + BatchSize) \subseteq Before(s, offset) \cup DOMAIN BatchOf(s, offset)
           /\ Before(s, 0) = {}
<1>1. IsFiniteSet(Firsts(s)) /\ Firsts(s) \subseteq Nat
  <2>1. Len(s) \in Int /\ Firsts(s) \subseteq 1 .. Len(s)
    BY DEF Firsts
  <2>2. IsFiniteSet(1 .. Len(s))
    BY <2>1, FS_Interval
  <2> QED
    BY <2>1, <2>2, FS_Subset
<1>2. Cardinality(Firsts(s)) \in Nat
  BY <1>1, FS_CardinalityType
<1>3. ASSUME NEW i \in Firsts(s)
      PROVE  Rank(s, i) \in Nat /\ Rank(s, i) < Cardinality(Firsts(s))
  <2> DEFINE earlier == {k \in Firsts(s) : k < i}
  <2>1. earlier \subseteq Firsts(s) /\ i \notin earlier
    BY <1>1
  <2>2. earlier # Firsts(s)
    BY <2>1
  <2>3. IsFiniteSet(earlier)
    BY <1>1, <2>1, FS_Subset
  <2>4. Cardinality(earlier) \in Nat /\ Cardinality(earlier) <= Cardinality(Firsts(s))
        /\ (Cardinality(earlier) = Cardinality(Firsts(s)) => earlier = Firsts(s))
    <3> HIDE DEF earlier
    <3> QED
      BY <1>1, <2>1, <2>3, FS_Subset, FS_CardinalityType
  <2>5. Rank(s, i) = Cardinality(earlier)
    BY DEF Rank
  <2> HIDE DEF earlier
  <2> QED
    BY <1>2, <2>2, <2>4, <2>5
<1>4. ASSUME offset >= Cardinality(Firsts(s)) PROVE SeenBy(s) \subseteq Before(s, offset)
  <2>1. \A k \in Firsts(s) : Rank(s, k) < offset
    BY <1>2, <1>3, <1>4
  <2> QED
    BY <2>1, FirstPlace DEF SeenBy, Before
<1>5. Before(s, offset + BatchSize) \subseteq Before(s, offset) \cup DOMAIN BatchOf(s, offset)
  <2> DEFINE at == {i \in Firsts(s) : Rank(s, i) \in offset .. (offset + BatchSize - 1)}
  <2>1. DOMAIN BatchOf(s, offset) = {s[i].id : i \in at}
    BY DEF BatchOf
  <2>2. BatchSize \in Nat
    BY ConstantsAssumption
  <2>3. \A i \in Firsts(s) : Rank(s, i) < offset + BatchSize => Rank(s, i) < offset \/ i \in at
    BY <1>3, <2>2
  <2> HIDE DEF at
  <2> QED
    BY <2>1, <2>3 DEF Before
<1>6. Before(s, 0) = {}
  <2>1. \A i \in Firsts(s) : ~(Rank(s, i) < 0)
    BY <1>3
  <2> QED
    BY <2>1 DEF Before
<1> QED
  BY <1>4, <1>5, <1>6

\* An attempt that is not between its fetch and its last commit has nothing to know.
LEMMA NothingToKnow ==
    ASSUME NEW r \in Run, attempt[r].pc \notin {"committing", "batch", "closing"}
    PROVE  Current(r) /\ Covered(r)
BY DEF Current, Covered, At

\* As long as they do not overlap, attempts tell the whole truth of the rows.
LEMMA NextAlone ==
    ASSUME TypeOK, HistoryInv, Alone, [Next]_vars, ~Overlap'
    PROVE  Alone'
<1>1. ASSUME NEW r \in Run, NEW q \in Run \ {r}, Alive(r)
      PROVE  attempt[q].pc \notin {"committing", "batch", "closing"}
  BY <1>1 DEF Alone, Overlap, Alive
<1>2. ASSUME NEW r \in Run, CommitBatch(r) PROVE Alone'
  <2>1. Current(r) /\ Covered(r)
    BY DEF Alone
  <2>2. \A j \in Job : /\ Told(j)'
                       /\ j \in DOMAIN Batch(r) => rows'[j].status = "open"
                       /\ j \notin DOMAIN Batch(r) => rows'[j] = rows[j]
    BY <1>2, <2>1, CommitTells DEF Alone
  <2>3. Open \cup DOMAIN Batch(r) \subseteq Open'
    BY <2>2, BatchWrites DEF Open
  <2>4. ASSUME NEW q \in Run PROVE Current(q)' /\ Covered(q)'
    <3>1. CASE q # r
      <4>1. attempt'[q] = attempt[q]
        BY <1>2, <3>1 DEF CommitBatch, TypeOK
      <4>2. Alive(r)
        BY <1>2 DEF CommitBatch, At, Alive
      <4>3. attempt'[q].pc \notin {"committing", "batch", "closing"}
        BY <1>1, <3>1, <4>1, <4>2
      <4> QED
        BY <4>3 DEF Current, Covered, At
    <3>2. CASE q = r
      <4>1. /\ attempt'[r].pc = "committing" /\ attempt'[r].jobs = attempt[r].jobs
            /\ attempt'[r].offset = attempt[r].offset + BatchSize
        BY <1>2 DEF CommitBatch, TypeOK, Attempt
      <4>2. attempt[r].jobs \in Seq(Listing) /\ attempt[r].offset \in Nat
        BY DEF TypeOK, Attempt
      <4>3. Before(attempt[r].jobs, attempt[r].offset) \subseteq Open
        BY <1>2, <2>1 DEF CommitBatch, Covered, At
      <4>4. Before(attempt[r].jobs, attempt[r].offset + BatchSize) \subseteq Open'
        BY <2>3, <4>2, <4>3, AllBefore DEF Batch
      <4> QED
        BY <3>2, <4>1, <4>4 DEF Current, Covered, At
    <3> QED
      BY <3>1, <3>2
  <2> QED
    BY <2>2, <2>4 DEF Alone
<1>3. ASSUME NEW r \in Run, Succeed(r) PROVE Alone'
  <2>1. \A j \in Job : Told(j)'
    BY <1>3, CloseTells DEF Alone
  <2>2. ASSUME NEW q \in Run PROVE Current(q)' /\ Covered(q)'
    <3>1. CASE q # r
      <4>1. attempt'[q] = attempt[q]
        BY <1>3, <3>1 DEF Succeed, Leave, Goto, TypeOK
      <4>2. Alive(r)
        BY <1>3 DEF Succeed, At, Alive
      <4>3. attempt'[q].pc \notin {"committing", "batch", "closing"}
        BY <1>1, <3>1, <4>1, <4>2
      <4> QED
        BY <4>3 DEF Current, Covered, At
    <3>2. CASE q = r
      <4>1. attempt'[r].pc \in {"done", "failing"}
        BY <1>3 DEF Succeed, Leave, Goto, AttemptAt, TypeOK, Attempt
      <4> QED
        BY <3>2, <4>1 DEF Current, Covered, At
    <3> QED
      BY <3>1, <3>2
  <2> QED
    BY <2>1, <2>2 DEF Alone
<1>4. ASSUME NEW r \in Run, UNCHANGED <<rows, observations>>,
             \A q \in Run \ {r} : attempt'[q] = attempt[q],
             Current(r)' /\ Covered(r)'
      PROVE  Alone'
  <2>1. \A j \in Job : Told(j)'
    BY <1>4 DEF Alone, Told
  <2>2. ASSUME NEW q \in Run \ {r} PROVE Current(q)' /\ Covered(q)'
    <3>1. Current(q) /\ Covered(q)
      BY DEF Alone
    <3>2. attempt'[q] = attempt[q] /\ rows' = rows
      BY <1>4
    <3> QED
      BY <3>1, <3>2 DEF Current, Covered, At, Open, ReadIn
  <2> QED
    BY <1>4, <2>1, <2>2 DEF Alone
<1>5. ASSUME NEW r \in Run,
             Begin(r) \/ FetchFails(r) \/ PersistenceFails(r) \/ RecordFailure(r) \/ Lost(r)
      PROVE  Alone'
  <2>1. UNCHANGED <<rows, observations>>
    BY <1>5 DEF Begin, FetchFails, Failed, PersistenceFails, RecordFailure, Lost, durable
  <2>2. Goto(r, "fetching") \/ Goto(r, "failing") \/ Leave(r, "done") \/ Leave(r, "lost")
    BY <1>5 DEF Begin, FetchFails, PersistenceFails, RecordFailure, Lost
  <2>3. /\ \A q \in Run \ {r} : attempt'[q] = attempt[q]
        /\ attempt'[r].pc \in {"fetching", "failing", "done", "lost"}
    BY <2>2 DEF Goto, Leave, AttemptAt, TypeOK, Attempt
  <2>4. Current(r)' /\ Covered(r)'
    BY <2>3 DEF Current, Covered, At
  <2> QED
    BY <1>4, <2>1, <2>3, <2>4
<1>6. ASSUME NEW r \in Run, NEW s \in Snapshots, NEW close \in BOOLEAN, Fetched(r, s, close)
      PROVE  Alone'
  <2>1. /\ UNCHANGED <<rows, observations>> /\ \A q \in Run \ {r} : attempt'[q] = attempt[q]
        /\ attempt'[r].pc = "committing" /\ attempt'[r].jobs = s /\ attempt'[r].offset = 0
    BY <1>6 DEF Fetched, durable, AttemptAt, TypeOK
  <2>2. Before(s, 0) = {}
    BY AllBefore, ConstantsAssumption
  <2>3. Current(r)' /\ Covered(r)'
    BY <2>1, <2>2 DEF Current, Covered, At
  <2> QED
    BY <1>4, <2>1, <2>3
<1>7. ASSUME NEW r \in Run, ReadBatch(r) PROVE Alone'
  <2>1. /\ UNCHANGED <<rows, observations>> /\ \A q \in Run \ {r} : attempt'[q] = attempt[q]
        /\ attempt'[r].pc = "batch" /\ attempt'[r].jobs = attempt[r].jobs
        /\ attempt'[r].offset = attempt[r].offset
        /\ attempt'[r].read = Reading(LeadOf(attempt[r].jobs, attempt[r].offset))
    BY <1>7 DEF ReadBatch, durable, TypeOK, Attempt
  <2>2. LeadOf(attempt[r].jobs, attempt[r].offset) \subseteq Job
    BY LeadType DEF TypeOK, Attempt
  <2>3. Current(r)'
    BY <2>1, <2>2 DEF Current, Reading
  <2>4. Before(attempt[r].jobs, attempt[r].offset) \subseteq Open
    BY <1>7 DEF ReadBatch, Alone, Covered, At
  <2>5. Covered(r)'
    BY <2>1, <2>4 DEF Covered, At, Open
  <2> QED
    BY <1>4, <2>1, <2>3, <2>5
<1>8. ASSUME NEW r \in Run, ReadMissing(r) PROVE Alone'
  <2> DEFINE missing == Open \ SeenBy(attempt[r].jobs)
  <2>1. /\ UNCHANGED <<rows, observations>> /\ \A q \in Run \ {r} : attempt'[q] = attempt[q]
        /\ attempt'[r].pc = "closing" /\ attempt'[r].jobs = attempt[r].jobs
        /\ attempt'[r].offset = attempt[r].offset /\ attempt'[r].close = attempt[r].close
        /\ attempt'[r].read = (IF attempt[r].close THEN Reading(missing) ELSE {})
    BY <1>8 DEF ReadMissing, durable, TypeOK, Attempt, Open
  <2>2. missing \subseteq Job
    BY DEF Open
  <2>3. Current(r)'
    BY <2>1, <2>2 DEF Current, Reading
  <2>4. Before(attempt[r].jobs, attempt[r].offset) \subseteq Open
    BY <1>8 DEF ReadMissing, Alone, Covered, At
  <2>5. SeenBy(attempt[r].jobs) \subseteq Before(attempt[r].jobs, attempt[r].offset)
    BY <1>8, AllBefore DEF ReadMissing, TypeOK, Attempt
  <2>6. attempt[r].close => ReadIn(r)' = missing
    <3>1. \A J : {n.id : n \in Reading(J)} = J
      <4> SUFFICES ASSUME NEW J PROVE {n.id : n \in Reading(J)} = J
        OBVIOUS
      <4>1. \A j \in J : [id |-> j, row |-> rows[j]].id = j
        OBVIOUS
      <4>2. \A n \in Reading(J) : n.id \in J
        BY DEF Reading
      <4>3. \A j \in J : \E n \in Reading(J) : n.id = j
        BY <4>1 DEF Reading
      <4> QED
        BY <4>2, <4>3
    <3> HIDE DEF missing
    <3>2. attempt[r].close => attempt'[r].read = Reading(missing)
      BY <2>1
    <3> QED
      BY <3>1, <3>2 DEF ReadIn
  <2>7. Open' = Open
    BY <2>1 DEF Open
  <2>8. Covered(r)'
    BY <2>1, <2>4, <2>5, <2>6, <2>7 DEF Covered, At
  <2> QED
    BY <1>4, <2>1, <2>3, <2>8
<1>9. CASE UNCHANGED vars
  <2>1. \A j \in Job : Told(j)'
    BY <1>9 DEF Alone, Told, vars
  <2>2. ASSUME NEW q \in Run PROVE Current(q)' /\ Covered(q)'
    BY <1>9 DEF Alone, Current, Covered, At, Open, ReadIn, vars
  <2> QED
    BY <2>1, <2>2 DEF Alone
<1> QED
  BY <1>2, <1>3, <1>5, <1>6, <1>7, <1>8, <1>9 DEF Next, Work

\* At first nobody overlaps and there is nothing to tell.
LEMMA InitAlone == Init => Alone
<1> SUFFICES ASSUME Init PROVE Alone
  OBVIOUS
<1>1. ~Overlap
  BY DEF Init, AttemptAt, Overlap, Alive
<1>2. \A j \in Job : Told(j)
  <2>1. Len(<<>>) = 0 /\ 2 .. 0 = {}
    OBVIOUS
  <2> QED
    BY <2>1 DEF Init, Told, RowOf, Chained
<1>3. \A r \in Run : Current(r) /\ Covered(r)
  BY NothingToKnow DEF Init, AttemptAt
<1> QED
  BY <1>1, <1>2, <1>3 DEF Alone

\* A run that becomes authoritative with close_missing leaves open what it listed.
LEMMA SucceedLeaves ==
    ASSUME TypeOK, IInv, HistoryInv, Alone, [Next]_vars
    PROVE  LeavesSnapshot
<1> SUFFICES ASSUME NEW r \in Run, runs[r].status = "pending", runs'[r].status = "succeeded",
                    attempt[r].close
             PROVE  {j \in Job : rows'[j].status = "open"} = SeenBy(attempt[r].jobs)
  BY DEF LeavesSnapshot, SeenBy
<1>1. Succeed(r)
  <2>1. runs' # runs
    OBVIOUS
  <2>2. PICK q \in Run : \/ Begin(q) \/ CommitBatch(q) \/ Succeed(q)
                        \/ \E kind, authoritative : Failed(q, kind, authoritative)
    BY <2>1 DEF Next, Work, FetchFails, Fetched, ReadBatch, ReadMissing, PersistenceFails,
                RecordFailure, Lost, vars, durable
  <2>3. ~Begin(q)
    <3> SUFFICES ASSUME Begin(q) PROVE FALSE
      OBVIOUS
    <3> DEFINE begun == [NoRun EXCEPT !.status = "pending"]
    <3>1. begun.status = "pending"
      BY DEF NoRun
    <3> HIDE DEF begun
    <3>2. runs' = [runs EXCEPT ![q] = begun]
      BY DEF Begin, begun
    <3> QED
      BY <3>1, <3>2 DEF TypeOK
  <2>7. ~CommitBatch(q)
    <3> SUFFICES ASSUME CommitBatch(q) PROVE FALSE
      OBVIOUS
    <3>1. \A p \in Run : runs'[p].status = runs[p].status
      BY DEF CommitBatch, TypeOK, RunRow
    <3> QED
      BY <3>1
  <2>4. ASSUME NEW kind, NEW authoritative, Failed(q, kind, authoritative) PROVE FALSE
    BY <2>4 DEF Failed, TypeOK, RunRow
  <2>5. Succeed(q)
    BY <2>2, <2>3, <2>4, <2>7
  <2>6. q = r
    BY <2>5 DEF Succeed, TypeOK
  <2> QED
    BY <2>5, <2>6
<1>2. SeenBy(attempt[r].jobs) \subseteq Open /\ ReadIn(r) = Open \ SeenBy(attempt[r].jobs)
  BY <1>1 DEF Succeed, Alone, Covered, At
<1>3. \A j \in Job : rows'[j].status = "open" <=> (rows[j].status = "open" /\ j \notin ReadIn(r))
  BY <1>1 DEF Succeed, Close, TypeOK, Row
<1> QED
  BY <1>2, <1>3 DEF Open

\* As long as no two attempts have overlapped, what Alone says holds.
LEMMA AloneAlways == HistorySpec => [](~overlapped => Alone)
<1>1. HistoryInit => (~overlapped => Alone)
  BY InitAlone DEF HistoryInit
<1>2. /\ TypeOK /\ HistoryInv /\ (~overlapped => Alone)
      /\ [HistoryNext]_<<vars, overlapped>>
      => (~overlapped => Alone)'
  <2> SUFFICES ASSUME TypeOK, HistoryInv, ~overlapped => Alone,
                      [HistoryNext]_<<vars, overlapped>>, ~overlapped'
               PROVE  Alone'
    OBVIOUS
  <2>1. [Next]_vars
    BY DEF HistoryNext
  <2>4. ~overlapped
    <3>1. CASE HistoryNext
      BY <3>1, Zenon DEF HistoryNext
    <3>2. CASE UNCHANGED <<vars, overlapped>>
      <4>1. overlapped' = overlapped
        BY <3>2
      <4> QED
        BY <4>1, Zenon
    <3> QED
      BY <3>1, <3>2
  <2>2. CASE Overlap'
    BY <2>2, <2>4 DEF HistoryNext, Alone, Overlap, Alive, vars
  <2>3. CASE ~Overlap'
    BY <2>1, <2>3, <2>4, NextAlone
  <2> QED
    BY <2>2, <2>3
<1>3. HistorySpec => Spec
  <2>1. HistoryInit => Init
    BY DEF HistoryInit
  <2>2. [HistoryNext]_<<vars, overlapped>> => [Next]_vars
    BY DEF HistoryNext
  <2> QED
    BY <2>1, <2>2, PTL DEF HistorySpec, Spec
<1>4. Spec => []HistoryInv
  BY InitHistories, NextHistories, TypeCorrect, PTL DEF Spec
<1> QED
  BY <1>1, <1>2, <1>3, <1>4, TypeCorrect, PTL DEF HistorySpec

\* As long as no two attempts overlap the ledger is its own history: each row is what its
\* last observation says, a job closed is next observed as reopened, and a
\* version changes exactly when an observation says so (complete_job_sync_run).
THEOREM RowsAreTheirHistory == HistorySpec => []RowsFollowHistory
<1>1. Alone => RowIsItsHistory
  BY DEF Alone, Told, RowOf, Chained, Linked, RowIsItsHistory
<1>2. (~overlapped => Alone) => RowsFollowHistory
  BY <1>1 DEF RowsFollowHistory
<1> QED
  BY <1>2, AloneAlways, PTL

\* As long as no two attempts overlap, the commit that makes a run with close_missing
\* succeed leaves open exactly the jobs of its snapshot (_close_missing_jobs).
THEOREM SnapshotsAreLeft == HistorySpec => SuccessLeavesOwnSnapshot
<1>1. /\ TypeOK /\ IInv /\ HistoryInv /\ (~overlapped => Alone)
      /\ [HistoryNext]_<<vars, overlapped>>
      => [~overlapped' => LeavesSnapshot]_vars
  <2> SUFFICES ASSUME TypeOK, IInv, HistoryInv, ~overlapped => Alone,
                      [HistoryNext]_<<vars, overlapped>>, ~overlapped'
               PROVE  LeavesSnapshot
    OBVIOUS
  <2>1. [Next]_vars
    BY DEF HistoryNext
  <2>4. ~overlapped
    <3>1. CASE HistoryNext
      BY <3>1, Zenon DEF HistoryNext
    <3>2. CASE UNCHANGED <<vars, overlapped>>
      <4>1. overlapped' = overlapped
        BY <3>2
      <4> QED
        BY <4>1, Zenon
    <3> QED
      BY <3>1, <3>2
  <2> QED
    BY <2>1, <2>4, SucceedLeaves
<1>2. HistorySpec => Spec
  <2>1. HistoryInit => Init
    BY DEF HistoryInit
  <2>2. [HistoryNext]_<<vars, overlapped>> => [Next]_vars
    BY DEF HistoryNext
  <2> QED
    BY <2>1, <2>2, PTL DEF HistorySpec, Spec
<1>3. Spec => []HistoryInv
  BY InitHistories, NextHistories, TypeCorrect, PTL DEF Spec
<1> QED
  BY <1>1, <1>2, <1>3, AloneAlways, Invariance, PTL DEF HistorySpec, SuccessLeavesOwnSnapshot
=============================================================================
