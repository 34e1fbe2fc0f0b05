-------------------------- MODULE KagglePublishProofs --------------------------
(***************************************************************************)
(* Proofs about KagglePublish, for any publishers and bundles, any limit   *)
(* of the ledger and any number of commands, whatever call fails, lies or  *)
(* is cut off.                                                             *)
(***************************************************************************)
EXTENDS KagglePublish, SequenceTheorems, TLAPS

\* A ledger, or what a command read of it, says nothing of a plan twice, and calls a
\* plan verified only when its bundle is there.
Distinct(entries) ==
    \A i, k \in DOMAIN entries : entries[i].plan = entries[k].plan => i = k
Truthful(entries) ==
    \A i \in DOMAIN entries : entries[i].phase = "readback-verified" => Matches(entries[i].plan)

Sound ==
    /\ Distinct(ledger) /\ Truthful(ledger)
    /\ \A p \in Publishers :
          /\ Distinct(job[p].seen) /\ Truthful(job[p].seen)
          /\ job[p].phase = "readback-verified" => Matches(job[p].plan)

\* While no commands have overlapped, one is at work at most, and what it found before it
\* changes the dataset is still so when it does.
Planned ==
    ~overlapped =>
        /\ \A v \in DOMAIN remote : Published(remote[v].plan) = v /\ remote[v].recorded
        /\ \A p, q \in Publishers : job[p].pc # "idle" /\ job[q].pc # "idle" => p = q
        /\ \A p \in Publishers :
              /\ job[p].phase = "preflight-verified" /\ job[p].pc \in {"load", "save", "mutate"} =>
                    Len(remote) = job[p].plan.expected
              /\ job[p].pc = "mutate" =>
                    /\ job[p].phase = "preflight-verified" \/ job[p].plan.expected = 0
                    /\ \E i \in DOMAIN ledger : ledger[i].plan = job[p].plan

IInv == TypeOK /\ Sound /\ Planned

-----------------------------------------------------------------------------
(* The ledger.                                                             *)

\* The entry of a plan is taken out.
LEMMA WithoutPlan ==
    ASSUME NEW s \in Seq(Entries), Distinct(s), NEW plan
    PROVE  /\ Without(s, plan) \in Seq(Entries)
           /\ Distinct(Without(s, plan))
           /\ \A i \in DOMAIN Without(s, plan) :
                 /\ Without(s, plan)[i].plan # plan
                 /\ \E k \in DOMAIN s : Without(s, plan)[i] = s[k]
<1> DEFINE places == {i \in 1 .. Len(s) : s[i].plan = plan}
           w == Without(s, plan)
<1>0. Len(s) \in Nat /\ DOMAIN s = 1 .. Len(s)
  OBVIOUS
<1>1. CASE places = {}
  <2>1. w = s
    BY <1>1 DEF Without
  <2> QED
    BY <1>0, <1>1, <2>1
<1>2. CASE places # {}
  <2> DEFINE gone == CHOOSE i \in places : TRUE
  <2>1. gone \in places /\ w = RemoveAt(s, gone)
    BY <1>2 DEF Without
  <2>2. gone \in 1 .. Len(s) /\ s[gone].plan = plan
    BY <2>1
  <2> HIDE DEF gone, places
  <2> DEFINE a == SubSeq(s, 1, gone - 1)
             b == SubSeq(s, gone + 1, Len(s))
  <2>3. w = a \o b
    BY <2>1 DEF RemoveAt
  <2>4. /\ a \in Seq(Entries) /\ Len(a) = gone - 1
        /\ \A i \in 1 .. gone - 1 : a[i] = s[i]
    BY <1>0, <2>2, SubSeqProperties
  <2>5. /\ b \in Seq(Entries) /\ Len(b) = Len(s) - gone
        /\ \A i \in 1 .. Len(s) - gone : b[i] = s[gone + i]
    <3>1. b \in Seq(Entries)
      BY <1>0, <2>2, SubSeqProperties
    <3>2. Len(b) = Len(s) - gone
      <4>1. Len(b) = IF gone + 1 <= Len(s) THEN Len(s) - (gone + 1) + 1 ELSE 0
        BY <1>0, <2>2, SubSeqProperties
      <4>2. gone \in Nat /\ Len(s) \in Nat /\ gone <= Len(s)
        BY <1>0, <2>2
      <4> HIDE DEF b
      <4>3. CASE gone = Len(s)
        BY <4>1, <4>2, <4>3
      <4>4. CASE gone < Len(s)
        BY <4>1, <4>2, <4>4
      <4> QED
        BY <4>2, <4>3, <4>4
    <3>3. ASSUME NEW i \in 1 .. Len(s) - gone PROVE b[i] = s[gone + i]
      <4>1. i \in 1 .. Len(s) - (gone + 1) + 1 /\ gone + 1 \in 1 .. Len(s)
        BY <1>0, <2>2
      <4>2. b[i] = s[(gone + 1) + i - 1]
        BY <1>0, <4>1, SubSeqProperties
      <4> QED
        BY <1>0, <2>2, <4>2
    <3> QED
      BY <3>1, <3>2, <3>3
  <2> HIDE DEF w, a, b
  <2>6. /\ w \in Seq(Entries) /\ Len(w) = Len(s) - 1 /\ DOMAIN w = 1 .. Len(s) - 1
        /\ \A i \in 1 .. Len(s) - 1 : w[i] = IF i <= gone - 1 THEN a[i] ELSE b[i - (gone - 1)]
    <3>1. /\ w \in Seq(Entries) /\ Len(w) = Len(a) + Len(b)
          /\ \A i \in 1 .. Len(a) + Len(b) : w[i] = IF i <= Len(a) THEN a[i] ELSE b[i - Len(a)]
      BY <2>3, <2>4, <2>5, ConcatProperties
    <3>2. Len(a) + Len(b) = Len(s) - 1
      BY <1>0, <2>2, <2>4, <2>5
    <3> QED
      BY <2>4, <3>1, <3>2
  <2>7. ASSUME NEW i \in 1 .. Len(s) - 1
        PROVE  w[i] = s[IF i < gone THEN i ELSE i + 1]
    <3>1. CASE i < gone
      BY <1>0, <2>2, <2>4, <2>6, <3>1
    <3>2. CASE ~(i < gone)
      <4>1. i - (gone - 1) \in 1 .. Len(s) - gone /\ gone + (i - (gone - 1)) = i + 1
        BY <1>0, <2>2, <3>2
      <4>2. w[i] = b[i - (gone - 1)]
        BY <1>0, <2>2, <2>6, <3>2
      <4> QED
        BY <2>5, <3>2, <4>1, <4>2
    <3> QED
      BY <3>1, <3>2
  <2>8. \A i \in 1 .. Len(s) - 1 :
          /\ (IF i < gone THEN i ELSE i + 1) \in 1 .. Len(s)
          /\ (IF i < gone THEN i ELSE i + 1) # gone
    BY <1>0, <2>2
  <2>9. Distinct(w)
    <3>1. ASSUME NEW i \in 1 .. Len(s) - 1, NEW k \in 1 .. Len(s) - 1, w[i].plan = w[k].plan
          PROVE  i = k
      <4>1. (IF i < gone THEN i ELSE i + 1) = (IF k < gone THEN k ELSE k + 1)
        BY <1>0, <2>7, <2>8, <3>1 DEF Distinct
      <4> QED
        BY <1>0, <2>2, <4>1
    <3> QED
      BY <2>6, <3>1 DEF Distinct
  <2>10. ASSUME NEW i \in DOMAIN w
         PROVE  w[i].plan # plan /\ \E k \in DOMAIN s : w[i] = s[k]
    <3> DEFINE k == IF i < gone THEN i ELSE i + 1
    <3>1. k \in DOMAIN s /\ k # gone /\ w[i] = s[k]
      BY <1>0, <2>6, <2>7, <2>8
    <3> HIDE DEF k
    <3>2. s[k].plan # s[gone].plan
      BY <1>0, <2>2, <3>1 DEF Distinct
    <3> QED
      BY <2>2, <3>1, <3>2
  <2> QED
    BY <2>6, <2>9, <2>10 DEF w
<1> QED
  BY <1>1, <1>2

\* A ledger that is written is one that can be read again: it has the new entry, and
\* otherwise only what it had.
LEMMA UpsertedLedger ==
    ASSUME NEW s \in Seq(Entries), Distinct(s), NEW e \in Entries
    PROVE  /\ Upserted(s, e) \in Seq(Entries) /\ Len(Upserted(s, e)) <= MaxEntries
           /\ Distinct(Upserted(s, e))
           /\ \E i \in DOMAIN Upserted(s, e) : Upserted(s, e)[i] = e
           /\ \A i \in DOMAIN Upserted(s, e) :
                 Upserted(s, e)[i] = e \/ \E k \in DOMAIN s : Upserted(s, e)[i] = s[k]
<1> DEFINE w == Without(s, e.plan)
           all == Append(w, e)
           cut == IF Len(all) > MaxEntries THEN Len(all) - MaxEntries ELSE 0
           u == SubSeq(all, cut + 1, Len(all))
<1>1. /\ w \in Seq(Entries) /\ Distinct(w)
      /\ \A i \in DOMAIN w : w[i].plan # e.plan /\ \E k \in DOMAIN s : w[i] = s[k]
  BY WithoutPlan
<1>2. Upserted(s, e) = u
  BY DEF Upserted
<1> HIDE DEF w
<1>3. /\ all \in Seq(Entries) /\ Len(all) = Len(w) + 1 /\ Len(w) \in Nat
      /\ DOMAIN w = 1 .. Len(w) /\ DOMAIN all = 1 .. Len(all)
      /\ all[Len(w) + 1] = e /\ \A i \in 1 .. Len(w) : all[i] = w[i]
  BY <1>1
<1>4. Distinct(all)
  BY <1>1, <1>3 DEF Distinct
<1> HIDE DEF all
<1>5. cut \in Nat /\ cut < Len(all) /\ Len(all) - cut <= MaxEntries /\ Len(all) \in Nat
  BY <1>3, KaggleAssumption
<1> HIDE DEF cut
<1>6. /\ u \in Seq(Entries) /\ Len(u) = Len(all) - cut /\ DOMAIN u = 1 .. Len(all) - cut
      /\ \A i \in 1 .. Len(all) - cut : u[i] = all[cut + i]
  BY <1>3, <1>5
<1> HIDE DEF u
<1>7. \A i \in DOMAIN u : cut + i \in 1 .. Len(all)
  BY <1>5, <1>6
<1>8. Distinct(u)
  <2>1. ASSUME NEW i \in DOMAIN u, NEW k \in DOMAIN u, u[i].plan = u[k].plan PROVE i = k
    <3>1. cut + i = cut + k
      BY <1>3, <1>4, <1>6, <1>7, <2>1 DEF Distinct
    <3> QED
      BY <1>5, <1>6, <3>1
  <2> QED
    BY <2>1 DEF Distinct
<1>9. u[Len(all) - cut] = e /\ Len(all) - cut \in DOMAIN u
  BY <1>3, <1>5, <1>6
<1>10. \A i \in DOMAIN u : u[i] = e \/ \E k \in DOMAIN s : u[i] = s[k]
  <2>1. ASSUME NEW n \in 1 .. Len(all) PROVE all[n] = e \/ \E k \in DOMAIN s : all[n] = s[k]
    <3>1. n = Len(w) + 1 \/ n \in 1 .. Len(w)
      BY <1>3
    <3> QED
      BY <1>1, <1>3, <3>1
  <2> QED
    BY <1>6, <1>7, <2>1
<1> QED
  BY <1>2, <1>5, <1>6, <1>8, <1>9, <1>10

-----------------------------------------------------------------------------
(* The steps.                                                              *)

\* What an absent command knows is in order.
LEMMA NoJobIsJob ==
    /\ NoJob \in Jobs /\ NoJob.pc = "idle" /\ NoJob.phase = "staged" /\ NoJob.seen = <<>>
<1>1. (CHOOSE b \in Bundles : TRUE) \in Bundles
  BY KaggleAssumption
<1>2. [bundle |-> CHOOSE b \in Bundles : TRUE, expected |-> 0] \in Plans
  BY <1>1, KaggleAssumption DEF Plans
<1>3. "idle" \in Points /\ "staged" \in Phases /\ <<>> \in Seq(Entries)
  BY DEF Points, Phases
<1> QED
  BY <1>2, <1>3 DEF NoJob, Jobs

\* One field of a command changes.
LEMMA NewPoint ==
    ASSUME NEW j \in Jobs, NEW pc \in Points
    PROVE  /\ [j EXCEPT !.pc = pc] \in Jobs /\ [j EXCEPT !.pc = pc].pc = pc
           /\ [j EXCEPT !.pc = pc].phase = j.phase /\ [j EXCEPT !.pc = pc].plan = j.plan
           /\ [j EXCEPT !.pc = pc].seen = j.seen
BY DEF Jobs

LEMMA NewPhase ==
    ASSUME NEW j \in Jobs, NEW phase \in Phases
    PROVE  /\ [j EXCEPT !.phase = phase] \in Jobs /\ [j EXCEPT !.phase = phase].pc = j.pc
           /\ [j EXCEPT !.phase = phase].phase = phase /\ [j EXCEPT !.phase = phase].plan = j.plan
           /\ [j EXCEPT !.phase = phase].seen = j.seen
BY DEF Jobs

LEMMA NewSight ==
    ASSUME NEW j \in Jobs, NEW seen \in Seq(Entries)
    PROVE  /\ [j EXCEPT !.seen = seen] \in Jobs /\ [j EXCEPT !.seen = seen].pc = j.pc
           /\ [j EXCEPT !.seen = seen].phase = j.phase /\ [j EXCEPT !.seen = seen].plan = j.plan
           /\ [j EXCEPT !.seen = seen].seen = seen
BY DEF Jobs

\* A bundle that matched does so for ever: the versions of a dataset do not change.
LEMMA MatchesStays ==
    ASSUME TypeOK, NEW plan \in Plans, Matches(plan),
           remote' = remote \/ \E v \in Versions : remote' = Append(remote, v)
    PROVE  Matches(plan)'
<1>1. /\ remote \in Seq(Versions) /\ Len(remote) \in Nat /\ Published(plan) \in Nat
      /\ Published(plan) >= 1
  BY DEF TypeOK, Plans, Published
<1>2. CASE remote' = remote
  BY <1>2 DEF Matches
<1>3. ASSUME NEW v \in Versions, remote' = Append(remote, v) PROVE Matches(plan)'
  <2>1. Len(remote') = Len(remote) + 1 /\ \A n \in 1 .. Len(remote) : remote'[n] = remote[n]
    BY <1>1, <1>3
  <2>2. Published(plan) \in 1 .. Len(remote)
    BY <1>1 DEF Matches
  <2> QED
    BY <1>1, <2>1, <2>2 DEF Matches, Published
<1> QED
  BY <1>2, <1>3

\* What a command becomes.
Becomes(p, pc, phase, seen) ==
    /\ job' \in [Publishers -> Jobs]
    /\ \A q \in Publishers \ {p} : job'[q] = job[q]
    /\ job'[p].pc = pc /\ job'[p].phase = phase
    /\ job'[p].plan = job[p].plan /\ job'[p].seen = seen

LEMMA Advancing ==
    ASSUME TypeOK, NEW p \in Publishers, NEW phase \in Phases, Advance(p, phase)
    PROVE  Becomes(p, "load", phase, job[p].seen)
<1> DEFINE j == [job[p] EXCEPT !.pc = "load"]
           k == [j EXCEPT !.phase = phase]
<1>1. job[p] \in Jobs /\ "load" \in Points /\ job \in [Publishers -> Jobs]
  BY DEF TypeOK, Points
<1>2. /\ j \in Jobs /\ j.pc = "load" /\ j.phase = job[p].phase /\ j.plan = job[p].plan
      /\ j.seen = job[p].seen
  BY <1>1, NewPoint
<1>3. job' = [job EXCEPT ![p] = k]
  BY DEF Advance
<1> HIDE DEF j
<1>4. /\ k \in Jobs /\ k.pc = "load" /\ k.phase = phase /\ k.plan = job[p].plan
      /\ k.seen = job[p].seen
  BY <1>2, NewPhase
<1> HIDE DEF k
<1> QED
  BY <1>1, <1>3, <1>4 DEF Becomes

LEMMA Loading ==
    ASSUME TypeOK, NEW p \in Publishers, LoadLedger(p)
    PROVE  Becomes(p, "save", job[p].phase, ledger)
<1> DEFINE j == [job[p] EXCEPT !.seen = ledger]
           k == [j EXCEPT !.pc = "save"]
<1>1. job[p] \in Jobs /\ "save" \in Points /\ job \in [Publishers -> Jobs] /\ ledger \in Seq(Entries)
  BY DEF TypeOK, Points
<1>2. /\ j \in Jobs /\ j.phase = job[p].phase /\ j.plan = job[p].plan
      /\ j.seen = ledger
  BY <1>1, NewSight
<1>3. job' = [job EXCEPT ![p] = k]
  BY DEF LoadLedger
<1> HIDE DEF j
<1>4. /\ k \in Jobs /\ k.pc = "save" /\ k.phase = job[p].phase /\ k.plan = job[p].plan
      /\ k.seen = ledger
  BY <1>1, <1>2, NewPoint
<1> HIDE DEF k
<1> QED
  BY <1>1, <1>3, <1>4 DEF Becomes

LEMMA Saving ==
    ASSUME TypeOK, NEW p \in Publishers, SaveLedger(p)
    PROVE  Becomes(p, Continues(job[p]), job[p].phase, <<>>)
<1> DEFINE j == [job[p] EXCEPT !.pc = Continues(job[p])]
           k == [j EXCEPT !.seen = <<>>]
<1>1. job[p] \in Jobs /\ job \in [Publishers -> Jobs] /\ <<>> \in Seq(Entries)
  BY DEF TypeOK
<1>2. Continues(job[p]) \in Points
  BY DEF Continues, Points
<1>3. /\ j \in Jobs /\ j.pc = Continues(job[p]) /\ j.phase = job[p].phase /\ j.plan = job[p].plan
  BY <1>1, <1>2, NewPoint
<1>4. job' = [job EXCEPT ![p] = k]
  BY DEF SaveLedger
<1> HIDE DEF j
<1>5. /\ k \in Jobs /\ k.pc = Continues(job[p]) /\ k.phase = job[p].phase /\ k.plan = job[p].plan
      /\ k.seen = <<>>
  BY <1>1, <1>3, NewSight
<1> HIDE DEF k
<1> QED
  BY <1>1, <1>4, <1>5 DEF Becomes

LEMMA Reading ==
    ASSUME TypeOK, NEW p \in Publishers, job' = [job EXCEPT ![p].pc = "readback"]
    PROVE  Becomes(p, "readback", job[p].phase, job[p].seen)
<1> DEFINE j == [job[p] EXCEPT !.pc = "readback"]
<1>1. job[p] \in Jobs /\ "readback" \in Points /\ job \in [Publishers -> Jobs]
  BY DEF TypeOK, Points
<1>2. /\ j \in Jobs /\ j.pc = "readback" /\ j.phase = job[p].phase /\ j.plan = job[p].plan
      /\ j.seen = job[p].seen
  BY <1>1, NewPoint
<1>3. job' = [job EXCEPT ![p] = j]
  OBVIOUS
<1> HIDE DEF j
<1> QED
  BY <1>1, <1>2, <1>3 DEF Becomes

\* A command that ends, and one that fails.
Stopped(p) ==
    /\ job' \in [Publishers -> Jobs]
    /\ \A q \in Publishers \ {p} : job'[q] = job[q]
    /\ job'[p] = NoJob

LEMMA Stopping ==
    ASSUME TypeOK, NEW p \in Publishers, job' = [job EXCEPT ![p] = NoJob]
    PROVE  Stopped(p)
BY NoJobIsJob DEF TypeOK, Stopped

LEMMA Failing ==
    ASSUME TypeOK, NEW p \in Publishers, Fails(p)
    PROVE  Stopped(p) \/ \E phase \in Failures : Becomes(p, "load", phase, job[p].seen)
<1>1. CASE job[p].phase = "readback-verified"
  <2>1. job' = [job EXCEPT ![p] = NoJob]
    BY <1>1 DEF Fails, Failed
  <2> QED
    BY <2>1, Stopping
<1>2. CASE job[p].phase # "readback-verified"
  <2> DEFINE phase == IF job[p].phase = "mutated" THEN "readback-failed" ELSE "preflight-failed"
  <2>1. Advance(p, phase)
    BY <1>2 DEF Fails, Failed, Advance
  <2>2. phase \in Failures /\ phase \in Phases
    BY DEF Failures, Phases
  <2> HIDE DEF phase
  <2> QED
    BY <2>1, <2>2, Advancing
<1> QED
  BY <1>1, <1>2

-----------------------------------------------------------------------------
(* What the ledger says.                                                   *)

Grows == remote' = remote \/ \E v \in Versions : remote' = Append(remote, v)

\* A command changes, and at most what was published grows.
LEMMA JobSound ==
    ASSUME TypeOK, Sound, NEW p \in Publishers, Grows, UNCHANGED ledger,
           job' \in [Publishers -> Jobs],
           \A q \in Publishers \ {p} : job'[q] = job[q],
           job'[p].seen \in {job[p].seen, ledger, <<>>},
           job'[p].phase = "readback-verified" => Matches(job'[p].plan)
    PROVE  Sound'
<1>1. \A plan \in Plans : Matches(plan) => Matches(plan)'
  BY MatchesStays DEF Grows
<1>2. ASSUME NEW entries \in Seq(Entries), Truthful(entries)
      PROVE  Truthful(entries)'
  <2>1. \A i \in DOMAIN entries : entries[i].plan \in Plans
    <3>1. \A i \in DOMAIN entries : entries[i] \in Entries
      OBVIOUS
    <3> QED
      BY <3>1 DEF Entries
  <2> QED
    BY <1>1, <1>2, <2>1 DEF Truthful
<1>3. \A q \in Publishers : job[q].seen \in Seq(Entries) /\ job[q].plan \in Plans /\ job'[q].plan \in Plans
  BY DEF TypeOK, Jobs
<1>4. Distinct(ledger)' /\ Truthful(ledger)'
  BY <1>2 DEF Sound, Distinct, TypeOK
<1>5. ASSUME NEW q \in Publishers
      PROVE  /\ Distinct(job[q].seen)' /\ Truthful(job[q].seen)'
             /\ job'[q].phase = "readback-verified" => Matches(job[q].plan)'
  <2>1. Distinct(<<>>) /\ Truthful(<<>>)
    BY DEF Distinct, Truthful
  <2>2. PICK seen \in Seq(Entries) : job'[q].seen = seen /\ Distinct(seen) /\ Truthful(seen)
    <3>1. /\ Distinct(ledger) /\ Truthful(ledger) /\ ledger \in Seq(Entries)
          /\ Distinct(job[q].seen) /\ Truthful(job[q].seen) /\ <<>> \in Seq(Entries)
      BY DEF Sound, TypeOK
    <3>2. job'[q].seen \in {job[q].seen, ledger, <<>>}
      OBVIOUS
    <3> QED
      BY <1>3, <2>1, <3>1, <3>2
  <2>3. Distinct(seen)' /\ Truthful(seen)'
    BY <1>2, <2>2 DEF Distinct
  <2>4. job'[q].phase = "readback-verified" => Matches(job[q].plan)'
    BY <1>1, <1>3 DEF Sound, Matches
  <2> QED
    BY <2>2, <2>3, <2>4 DEF Distinct, Truthful
<1> QED
  BY <1>4, <1>5 DEF Sound

\* Types, and what the ledger says, when only a command changes.
LEMMA JobKeeps ==
    ASSUME TypeOK, Sound, NEW p \in Publishers, Grows, UNCHANGED <<ledger, commands, overlapped>>,
           ready' \in BOOLEAN,
           \/ Stopped(p)
           \/ \E pc \in Points, phase \in Phases, seen \in {job[p].seen, ledger, <<>>} :
                 /\ Becomes(p, pc, phase, seen)
                 /\ phase = "readback-verified" => Matches(job[p].plan)
    PROVE  TypeOK' /\ Sound'
<1>1. /\ job' \in [Publishers -> Jobs] /\ \A q \in Publishers \ {p} : job'[q] = job[q]
      /\ job'[p].seen \in {job[p].seen, ledger, <<>>}
      /\ job'[p].phase = "readback-verified" => Matches(job'[p].plan)
  <2>1. CASE Stopped(p)
    BY <2>1, NoJobIsJob DEF Stopped
  <2>2. ASSUME NEW pc \in Points, NEW phase \in Phases, NEW seen \in {job[p].seen, ledger, <<>>},
               Becomes(p, pc, phase, seen),
               phase = "readback-verified" => Matches(job[p].plan)
        PROVE  /\ job' \in [Publishers -> Jobs] /\ \A q \in Publishers \ {p} : job'[q] = job[q]
               /\ job'[p].seen \in {job[p].seen, ledger, <<>>}
               /\ job'[p].phase = "readback-verified" => Matches(job'[p].plan)
    BY <2>2 DEF Becomes
  <2> QED
    BY <2>1, <2>2
<1>2. Sound'
  BY <1>1, JobSound
<1>3. remote' \in Seq(Versions)
  BY DEF Grows, TypeOK
<1> QED
  BY <1>1, <1>2, <1>3 DEF TypeOK

\* No step makes the ledger say what is not so.
LEMMA NextSound ==
    ASSUME TypeOK, Sound, Next
    PROVE  TypeOK' /\ Sound'
<1>0. /\ job \in [Publishers -> Jobs] /\ ledger \in Seq(Entries) /\ ready \in BOOLEAN
      /\ remote \in Seq(Versions) /\ commands \in 0 .. MaxCommands /\ overlapped \in BOOLEAN
      /\ Len(ledger) <= MaxEntries
      /\ \A p \in Publishers :
            /\ job[p] \in Jobs /\ job[p].plan \in Plans /\ job[p].phase \in Phases
            /\ job[p].seen \in Seq(Entries)
  BY DEF TypeOK, Jobs
<1>a. \A pc \in {"idle", "load", "save", "preflight", "mutate", "wait", "readback"} : pc \in Points
  BY DEF Points
<1>b. /\ {"preflight-verified", "mutated", "readback-verified"} \subseteq Phases
      /\ Failures \subseteq Phases \ {"readback-verified"}
  BY DEF Phases, Failures
<1>c. ASSUME NEW p \in Publishers, Fails(p), Grows, UNCHANGED <<ledger, commands, overlapped>>,
             ready' \in BOOLEAN
      PROVE  TypeOK' /\ Sound'
  <2>1. \/ Stopped(p)
        \/ \E pc \in Points, phase \in Phases, seen \in {job[p].seen, ledger, <<>>} :
              /\ Becomes(p, pc, phase, seen)
              /\ phase = "readback-verified" => Matches(job[p].plan)
    BY <1>a, <1>b, <1>c, Failing
  <2> QED
    BY <1>c, <2>1, JobKeeps
<1>d. ASSUME NEW p \in Publishers, NEW phase \in Phases, Advance(p, phase), Grows,
             UNCHANGED <<ledger, commands, overlapped>>, ready' \in BOOLEAN,
             phase = "readback-verified" => Matches(job[p].plan)
      PROVE  TypeOK' /\ Sound'
  <2>1. Becomes(p, "load", phase, job[p].seen)
    BY <1>d, Advancing
  <2>2. "load" \in Points
    BY <1>a
  <2> QED
    BY <1>d, <2>1, <2>2, JobKeeps
<1>e. ASSUME NEW p \in Publishers, job' = [job EXCEPT ![p] = NoJob],
             UNCHANGED <<remote, ready, ledger, commands, overlapped>>
      PROVE  TypeOK' /\ Sound'
  BY <1>0, <1>e, Stopping, JobKeeps DEF Grows
<1>1. ASSUME NEW p \in Publishers, NEW plan \in Plans, NEW execute \in BOOLEAN,
             Begin(p, plan, execute)
      PROVE  TypeOK' /\ Sound'
  <2> DEFINE j == [NoJob EXCEPT !.pc = "load", !.plan = plan, !.execute = execute]
  <2>1. NoJob \in Jobs /\ NoJob.phase = "staged" /\ NoJob.seen = <<>>
    BY NoJobIsJob
  <2>2. j \in Jobs /\ j.phase = "staged" /\ j.seen = <<>>
    <3>1. "load" \in Points
      BY <1>a
    <3> QED
      BY <2>1, <3>1 DEF Jobs
  <2>3. job' = [job EXCEPT ![p] = j] /\ UNCHANGED <<remote, ready, ledger>>
    BY <1>1 DEF Begin
  <2> HIDE DEF j
  <2>4. /\ job' \in [Publishers -> Jobs] /\ \A q \in Publishers \ {p} : job'[q] = job[q]
        /\ job'[p] = j
    BY <1>0, <2>2, <2>3
  <2>5. Sound'
    BY <2>2, <2>3, <2>4, JobSound DEF Grows
  <2>6. commands' \in 0 .. MaxCommands
    BY <1>0, <1>1, KaggleAssumption DEF Begin
  <2>7. overlapped' \in BOOLEAN
    <3>1. overlapped' = (overlapped \/ \E q \in Publishers \ {p} : job[q].pc # "idle")
      BY <1>1 DEF Begin
    <3>2. (overlapped \/ \E q \in Publishers \ {p} : job[q].pc # "idle") \in BOOLEAN
      OBVIOUS
    <3> QED
      BY <3>1, <3>2
  <2> QED
    BY <1>0, <2>3, <2>4, <2>5, <2>6, <2>7 DEF TypeOK
<1>2. ASSUME NEW p \in Publishers, LoadLedger(p) PROVE TypeOK' /\ Sound'
  <2>1. Becomes(p, "save", job[p].phase, ledger) /\ "save" \in Points /\ job[p].phase \in Phases
    BY <1>0, <1>2, <1>a, Loading
  <2>2. job[p].phase = "readback-verified" => Matches(job[p].plan)
    BY DEF Sound
  <2>3. Grows /\ UNCHANGED <<ready, ledger, commands, overlapped>>
    BY <1>2 DEF LoadLedger, Grows
  <2> QED
    BY <1>0, <2>1, <2>2, <2>3, JobKeeps
<1>3. ASSUME NEW p \in Publishers, SaveLedger(p) PROVE TypeOK' /\ Sound'
  <2> DEFINE e == [plan |-> job[p].plan, phase |-> job[p].phase]
             s == job[p].seen
             u == Upserted(s, e)
  <2>1. e \in Entries /\ e.plan = job[p].plan /\ e.phase = job[p].phase
    BY <1>0 DEF Entries
  <2>2. /\ ledger' = u /\ UNCHANGED <<remote, ready, commands, overlapped>>
        /\ Becomes(p, Continues(job[p]), job[p].phase, <<>>)
    BY <1>3, Saving DEF SaveLedger
  <2>3. /\ s \in Seq(Entries) /\ Distinct(s) /\ Truthful(s)
        /\ job[p].phase = "readback-verified" => Matches(job[p].plan)
    BY <1>0 DEF Sound
  <2> HIDE DEF e, s
  <2>4. /\ u \in Seq(Entries) /\ Len(u) <= MaxEntries /\ Distinct(u)
        /\ \A i \in DOMAIN u : u[i] = e \/ \E k \in DOMAIN s : u[i] = s[k]
    BY <2>1, <2>3, UpsertedLedger
  <2> HIDE DEF u
  <2>5. Truthful(u)
    BY <2>1, <2>3, <2>4 DEF Truthful
  <2>6. Distinct(ledger)' /\ Truthful(ledger)'
    BY <2>2, <2>4, <2>5 DEF Distinct, Truthful, Matches
  <2>7. ASSUME NEW q \in Publishers
        PROVE  /\ Distinct(job'[q].seen) /\ Truthful(job'[q].seen)
               /\ job'[q].phase = "readback-verified" => Matches(job'[q].plan)
    <3>1. Distinct(<<>>) /\ Truthful(<<>>)
      BY DEF Distinct, Truthful
    <3> QED
      BY <2>2, <2>3, <3>1 DEF Becomes, Sound
  <2>8. Sound'
    BY <2>2, <2>6, <2>7 DEF Sound, Distinct, Truthful, Matches
  <2>9. job' \in [Publishers -> Jobs]
    BY <2>2 DEF Becomes
  <2> QED
    BY <1>0, <2>2, <2>4, <2>8, <2>9 DEF TypeOK
<1>4. ASSUME NEW p \in Publishers, LedgerFails(p) PROVE TypeOK' /\ Sound'
  BY <1>0, <1>4, <1>c, <1>e DEF LedgerFails, Grows
<1>5. ASSUME NEW p \in Publishers, Preflight(p) PROVE TypeOK' /\ Sound'
  BY <1>0, <1>5, <1>b, <1>c, <1>d DEF Preflight, Grows
<1>6. ASSUME NEW p \in Publishers, Mutate(p) PROVE TypeOK' /\ Sound'
  <2>1. Grows /\ ready' \in BOOLEAN
    <3>1. CASE Accepts(job[p].plan)
      <4> DEFINE recorded == \E i \in 1 .. Len(ledger) : ledger[i].plan = job[p].plan
                 v == [bundle |-> job[p].plan.bundle, plan |-> job[p].plan, recorded |-> recorded]
      <4>1. v \in Versions
        <5>1. recorded \in BOOLEAN
          OBVIOUS
        <5>2. job[p].plan \in Plans /\ job[p].plan.bundle \in Bundles
          BY <1>0 DEF Plans
        <5> HIDE DEF recorded
        <5> QED
          BY <5>1, <5>2 DEF Versions
      <4>2. remote' = Append(remote, v) /\ ready' = FALSE
        BY <3>1 DEF Accepts
      <4> QED
        BY <4>1, <4>2 DEF Grows
    <3>2. CASE UNCHANGED <<remote, ready>>
      BY <1>0, <3>2 DEF Grows
    <3> QED
      BY <1>6, <3>1, <3>2 DEF Mutate
  <2>2. CASE Advance(p, "mutated")
    BY <1>6, <1>b, <1>d, <2>1, <2>2 DEF Mutate
  <2>3. CASE Fails(p)
    BY <1>6, <1>c, <2>1, <2>3 DEF Mutate
  <2> QED
    BY <1>6, <2>2, <2>3 DEF Mutate
<1>7. ASSUME NEW p \in Publishers, Arrived(p) PROVE TypeOK' /\ Sound'
  <2>1. /\ Becomes(p, "readback", job[p].phase, job[p].seen) /\ "readback" \in Points
        /\ job[p].phase \in Phases
    BY <1>0, <1>7, <1>a, Reading DEF Arrived
  <2>2. job[p].phase = "readback-verified" => Matches(job[p].plan)
    BY DEF Sound
  <2>3. Grows /\ UNCHANGED <<ready, ledger, commands, overlapped>>
    BY <1>7 DEF Arrived, Grows
  <2> QED
    BY <1>0, <2>1, <2>2, <2>3, JobKeeps
<1>8. ASSUME NEW p \in Publishers, Overtaken(p) \/ WaitTimesOut(p) \/ CallFails(p)
      PROVE  TypeOK' /\ Sound'
  BY <1>0, <1>8, <1>c DEF Overtaken, WaitTimesOut, CallFails, Grows
<1>9. ASSUME NEW p \in Publishers, Readback(p) PROVE TypeOK' /\ Sound'
  BY <1>0, <1>9, <1>b, <1>c, <1>d DEF Readback, Grows
<1>10. ASSUME NEW p \in Publishers, Stops(p) PROVE TypeOK' /\ Sound'
  BY <1>10, <1>e DEF Stops
<1>11. CASE Processed
  <2>1. UNCHANGED <<remote, ledger, job, commands, overlapped>> /\ ready' = TRUE
    BY <1>11 DEF Processed
  <2>2. Sound'
    BY <2>1 DEF Sound, Distinct, Truthful, Matches
  <2> QED
    BY <1>0, <2>1, <2>2 DEF TypeOK
<1> QED
  BY <1>1, <1>2, <1>3, <1>4, <1>5, <1>6, <1>7, <1>8, <1>9, <1>10, <1>11 DEF Next, Step

-----------------------------------------------------------------------------
(* What is published.                                                      *)

\* A command that is at work goes on without having changed anything yet.
LEMMA JobPlanned ==
    ASSUME TypeOK, Planned, NEW p \in Publishers, job[p].pc # "idle",
           UNCHANGED <<remote, ledger, overlapped>>,
           \/ Stopped(p)
           \/ \E pc, phase, seen :
                 /\ Becomes(p, pc, phase, seen) /\ pc # "mutate"
                 /\ phase = "preflight-verified" =>
                       Len(remote) = job[p].plan.expected \/ pc \notin {"load", "save"}
    PROVE  Planned'
<1>1. \A q \in Publishers \ {p} : job'[q] = job[q]
  BY DEF Stopped, Becomes
<1>2. /\ job'[p].pc # "mutate"
      /\ job'[p].phase = "preflight-verified" /\ job'[p].pc \in {"load", "save", "mutate"} =>
            Len(remote) = job'[p].plan.expected
  BY NoJobIsJob DEF Stopped, Becomes
<1> QED
  BY <1>1, <1>2 DEF Planned

\* A step does not publish twice, nor what has not been recorded.
LEMMA NextPlanned ==
    ASSUME TypeOK, Sound, Planned, Next
    PROVE  Planned'
<1>0. /\ job \in [Publishers -> Jobs] /\ remote \in Seq(Versions) /\ Len(remote) \in Nat
      /\ DOMAIN remote = 1 .. Len(remote) /\ DOMAIN ledger = 1 .. Len(ledger)
      /\ \A p \in Publishers :
            job[p] \in Jobs /\ job[p].plan \in Plans /\ job[p].plan.expected \in Nat
  BY DEF TypeOK, Jobs, Plans
<1>c. ASSUME NEW p \in Publishers, Fails(p), job[p].pc # "idle",
             UNCHANGED <<remote, ledger, overlapped>>
      PROVE  Planned'
  <2>1. Stopped(p) \/ \E phase \in Failures : Becomes(p, "load", phase, job[p].seen)
    BY <1>c, Failing
  <2> QED
    BY <1>c, <2>1, JobPlanned DEF Failures
<1>e. ASSUME NEW p \in Publishers, job' = [job EXCEPT ![p] = NoJob], job[p].pc # "idle",
             UNCHANGED <<remote, ledger, overlapped>>
      PROVE  Planned'
  BY <1>e, Stopping, JobPlanned
<1>1. ASSUME NEW p \in Publishers, NEW plan \in Plans, NEW execute \in BOOLEAN,
             Begin(p, plan, execute)
      PROVE  Planned'
  <2>1. /\ \A q \in Publishers \ {p} : job'[q] = job[q]
        /\ job'[p].pc = "load" /\ job'[p].phase = "staged" /\ UNCHANGED <<remote, ledger>>
    BY <1>0, <1>1, NoJobIsJob DEF Begin, Jobs
  <2>2. ~overlapped' => ~overlapped /\ \A q \in Publishers \ {p} : job[q].pc = "idle"
    BY <1>1 DEF Begin
  <2>3. ASSUME ~overlapped'
        PROVE  \A q, r \in Publishers : job'[q].pc # "idle" /\ job'[r].pc # "idle" => q = r
    BY <2>1, <2>2, <2>3
  <2> QED
    BY <2>1, <2>2, <2>3 DEF Planned
<1>2. ASSUME NEW p \in Publishers, LoadLedger(p) PROVE Planned'
  <2>1. Becomes(p, "save", job[p].phase, ledger) /\ UNCHANGED <<remote, ledger, overlapped>>
    BY <1>2, Loading DEF LoadLedger
  <2>2. job[p].pc = "load"
    BY <1>2 DEF LoadLedger
  <2>3. CASE overlapped
    BY <2>1, <2>3 DEF Planned
  <2>4. CASE ~overlapped
    <3>1. job[p].phase = "preflight-verified" => Len(remote) = job[p].plan.expected
      BY <2>2, <2>4 DEF Planned
    <3> QED
      BY <2>1, <2>2, <3>1, JobPlanned
  <2> QED
    BY <2>3, <2>4
<1>3. ASSUME NEW p \in Publishers, SaveLedger(p) PROVE Planned'
  <2> DEFINE e == [plan |-> job[p].plan, phase |-> job[p].phase]
  <2>1. /\ Becomes(p, Continues(job[p]), job[p].phase, <<>>) /\ job[p].pc = "save"
        /\ ledger' = Upserted(job[p].seen, e) /\ UNCHANGED <<remote, overlapped>>
    BY <1>3, Saving DEF SaveLedger
  <2>2. e \in Entries /\ job[p].seen \in Seq(Entries) /\ Distinct(job[p].seen)
    BY <1>0, <1>3 DEF Entries, Jobs, Sound
  <2>3. \E i \in DOMAIN ledger' : ledger'[i] = e
    BY <2>1, <2>2, UpsertedLedger
  <2>4. \E i \in DOMAIN ledger' : ledger'[i].plan = job[p].plan
    BY <2>3
  <2> HIDE DEF e
  <2>5. ASSUME ~overlapped
        PROVE  /\ \A q \in Publishers \ {p} : job'[q] = job[q] /\ job[q].pc = "idle"
               /\ job[p].phase = "preflight-verified" => Len(remote) = job[p].plan.expected
               /\ \A v \in DOMAIN remote : Published(remote[v].plan) = v /\ remote[v].recorded
    BY <2>1, <2>5 DEF Planned, Becomes
  <2>6. Continues(job[p]) = "mutate" =>
            job[p].phase = "preflight-verified" \/ job[p].plan.expected = 0
    BY DEF Continues
  <2>7. CASE overlapped
    BY <2>1, <2>7 DEF Planned
  <2>8. CASE ~overlapped
    BY <2>1, <2>4, <2>5, <2>6, <2>8 DEF Planned, Becomes
  <2> QED
    BY <2>7, <2>8
<1>4. ASSUME NEW p \in Publishers, LedgerFails(p) PROVE Planned'
  BY <1>4, <1>c, <1>e DEF LedgerFails
<1>5. ASSUME NEW p \in Publishers, Preflight(p) PROVE Planned'
  <2>1. job[p].pc = "preflight" /\ UNCHANGED <<remote, ledger, overlapped>>
    BY <1>5 DEF Preflight
  <2>2. CASE StatusIs(job[p].plan.expected) /\ Advance(p, "preflight-verified")
    <3>1. Becomes(p, "load", "preflight-verified", job[p].seen)
      BY <2>2, Advancing DEF Phases
    <3> QED
      BY <2>1, <2>2, <3>1, JobPlanned DEF StatusIs
  <2>3. CASE Fails(p)
    BY <1>c, <2>1, <2>3
  <2> QED
    BY <1>5, <2>2, <2>3 DEF Preflight
<1>6. ASSUME NEW p \in Publishers, Mutate(p) PROVE Planned'
  <2>1. job[p].pc = "mutate" /\ UNCHANGED <<ledger, overlapped>>
    BY <1>6 DEF Mutate
  <2>2. /\ \A q \in Publishers \ {p} : job'[q] = job[q]
        /\ job'[p].phase # "preflight-verified" /\ job'[p].pc # "mutate"
    <3>1. CASE Advance(p, "mutated")
      <4>1. Becomes(p, "load", "mutated", job[p].seen)
        BY <3>1, Advancing DEF Phases
      <4> QED
        BY <4>1 DEF Becomes
    <3>2. CASE Fails(p)
      <4>1. Stopped(p) \/ \E phase \in Failures : Becomes(p, "load", phase, job[p].seen)
        BY <3>2, Failing
      <4> QED
        BY <4>1, NoJobIsJob DEF Stopped, Becomes, Failures
    <3> QED
      BY <1>6, <3>1, <3>2 DEF Mutate
  <2>3. ASSUME ~overlapped
        PROVE  /\ \A q \in Publishers \ {p} : job[q].pc = "idle"
               /\ Len(remote) = job[p].plan.expected \/ job[p].plan.expected = 0
               /\ \E i \in DOMAIN ledger : ledger[i].plan = job[p].plan
               /\ \A v \in DOMAIN remote : Published(remote[v].plan) = v /\ remote[v].recorded
    BY <2>1, <2>3 DEF Planned
  <2>4. ASSUME ~overlapped
        PROVE  \A v \in DOMAIN remote' : Published(remote'[v].plan) = v /\ remote'[v].recorded
    <3>1. CASE UNCHANGED remote
      BY <2>3, <2>4, <3>1
    <3>2. CASE Accepts(job[p].plan)
      <4> DEFINE recorded == \E i \in 1 .. Len(ledger) : ledger[i].plan = job[p].plan
                 new == [bundle |-> job[p].plan.bundle, plan |-> job[p].plan, recorded |-> recorded]
      <4>1. remote' = Append(remote, new)
        BY <3>2 DEF Accepts
      <4>2. recorded
        BY <1>0, <2>3, <2>4
      <4>3. Len(remote) = job[p].plan.expected
        <5>1. job[p].plan.expected = 0 => remote = <<>>
          BY <3>2 DEF Accepts
        <5>2. Len(<<>>) = 0
          OBVIOUS
        <5> QED
          BY <2>3, <2>4, <5>1, <5>2
      <4>4. new.plan = job[p].plan /\ new.recorded
        BY <4>2
      <4> HIDE DEF new, recorded
      <4>5. /\ DOMAIN remote' = 1 .. Len(remote) + 1 /\ remote'[Len(remote) + 1] = new
            /\ \A v \in 1 .. Len(remote) : remote'[v] = remote[v]
        BY <1>0, <4>1
      <4>6. ASSUME NEW v \in 1 .. Len(remote) + 1
            PROVE  Published(remote'[v].plan) = v /\ remote'[v].recorded
        <5>1. CASE v \in 1 .. Len(remote)
          BY <1>0, <2>3, <2>4, <4>5, <5>1
        <5>2. CASE v = Len(remote) + 1
          BY <1>0, <4>3, <4>4, <4>5, <5>2 DEF Published
        <5> QED
          BY <1>0, <5>1, <5>2
      <4> QED
        BY <4>5, <4>6
    <3> QED
      BY <1>6, <3>1, <3>2 DEF Mutate
  <2>5. CASE overlapped
    BY <2>1, <2>5 DEF Planned
  <2>6. CASE ~overlapped
    <3>1. /\ \A q, r \in Publishers : job'[q].pc # "idle" /\ job'[r].pc # "idle" => q = r
          /\ \A q \in Publishers :
                /\ job'[q].phase = "preflight-verified" =>
                      job'[q].pc \notin {"load", "save", "mutate"}
                /\ job'[q].pc # "mutate"
      BY <2>2, <2>3, <2>6
    <3> QED
      BY <2>4, <2>6, <3>1 DEF Planned
  <2> QED
    BY <2>5, <2>6
<1>7. ASSUME NEW p \in Publishers, Arrived(p) PROVE Planned'
  <2>1. Becomes(p, "readback", job[p].phase, job[p].seen)
    BY <1>7, Reading DEF Arrived
  <2>2. job[p].pc = "wait" /\ UNCHANGED <<remote, ledger, overlapped>>
    BY <1>7 DEF Arrived
  <2> QED
    BY <2>1, <2>2, JobPlanned
<1>8. ASSUME NEW p \in Publishers, Overtaken(p) \/ WaitTimesOut(p) \/ CallFails(p)
      PROVE  Planned'
  BY <1>8, <1>c DEF Overtaken, WaitTimesOut, CallFails
<1>9. ASSUME NEW p \in Publishers, Readback(p) PROVE Planned'
  <2>1. job[p].pc = "readback" /\ UNCHANGED <<remote, ledger, overlapped>>
    BY <1>9 DEF Readback
  <2>2. CASE Advance(p, "readback-verified")
    <3>1. Becomes(p, "load", "readback-verified", job[p].seen)
      BY <2>2, Advancing DEF Phases
    <3> QED
      BY <2>1, <3>1, JobPlanned
  <2>3. CASE Fails(p)
    BY <1>c, <2>1, <2>3
  <2> QED
    BY <1>9, <2>2, <2>3 DEF Readback
<1>10. ASSUME NEW p \in Publishers, Stops(p) PROVE Planned'
  BY <1>10, <1>e DEF Stops
<1>11. CASE Processed
  BY <1>11 DEF Processed, Planned
<1> QED
  BY <1>1, <1>2, <1>3, <1>4, <1>5, <1>6, <1>7, <1>8, <1>9, <1>10, <1>11 DEF Next, Step

-----------------------------------------------------------------------------
(* The theorems.                                                           *)

\* A dataset that was never published, or created once and verified, is in order.
LEMMA InitInv == Init => IInv
<1> SUFFICES ASSUME Init PROVE IInv
  OBVIOUS
<1>1. job = [p \in Publishers |-> NoJob] /\ NoJob \in Jobs
  BY NoJobIsJob DEF Init
<1>2. \A p \in Publishers : job[p] = NoJob
  BY <1>1
<1>3. ready \in BOOLEAN /\ commands \in 0 .. MaxCommands /\ overlapped = FALSE
  BY KaggleAssumption DEF Init
<1>4. \A p \in Publishers :
         /\ Distinct(job[p].seen) /\ Truthful(job[p].seen) /\ job[p].phase = "staged"
         /\ job[p].pc = "idle"
  BY <1>2, NoJobIsJob DEF Distinct, Truthful
<1>5. CASE remote = <<>> /\ ledger = <<>>
  <2>1. TypeOK
    <3>1. /\ remote \in Seq(Versions) /\ ledger \in Seq(Entries) /\ Len(ledger) <= MaxEntries
          /\ job \in [Publishers -> Jobs]
      BY <1>1, <1>5, KaggleAssumption
    <3> QED
      BY <1>3, <3>1 DEF TypeOK
  <2>2. Sound
    BY <1>4, <1>5 DEF Sound, Distinct, Truthful
  <2>3. Planned
    BY <1>4, <1>5 DEF Planned
  <2> QED
    BY <2>1, <2>2, <2>3 DEF IInv
<1>6. ASSUME NEW plan \in Plans, plan.expected = 0,
             remote = <<[bundle |-> plan.bundle, plan |-> plan, recorded |-> TRUE]>>,
             ledger = <<[plan |-> plan, phase |-> "readback-verified"]>>
      PROVE  IInv
  <2> DEFINE v == [bundle |-> plan.bundle, plan |-> plan, recorded |-> TRUE]
             e == [plan |-> plan, phase |-> "readback-verified"]
  <2>1. /\ v \in Versions /\ v.plan = plan /\ v.recorded /\ v.bundle = plan.bundle
        /\ e \in Entries /\ e.plan = plan
    BY DEF Versions, Entries, Phases, Plans
  <2> HIDE DEF v, e
  <2>2. remote = <<v>> /\ ledger = <<e>>
    BY <1>6 DEF v, e
  <2>3. TypeOK
    <3>1. /\ remote \in Seq(Versions) /\ ledger \in Seq(Entries) /\ Len(ledger) <= MaxEntries
          /\ job \in [Publishers -> Jobs]
      BY <1>1, <2>1, <2>2, KaggleAssumption
    <3> QED
      BY <1>3, <3>1 DEF TypeOK
  <2>4. Matches(plan)
    BY <1>6, <2>1, <2>2 DEF Matches, Published
  <2>5. Sound
    BY <1>4, <2>1, <2>2, <2>4 DEF Sound, Distinct, Truthful
  <2>6. Planned
    BY <1>4, <1>6, <2>1, <2>2 DEF Planned, Published
  <2> QED
    BY <2>3, <2>5, <2>6 DEF IInv
<1> QED
  BY <1>5, <1>6 DEF Init

\* The invariant holds.
LEMMA InvAlways == Spec => []IInv
<1>1. Init => IInv
  BY InitInv
<1>2. IInv /\ [Next]_vars => IInv'
  <2> SUFFICES ASSUME IInv, [Next]_vars PROVE IInv'
    OBVIOUS
  <2>1. CASE Next
    BY <2>1, NextSound, NextPlanned DEF IInv
  <2>2. CASE UNCHANGED vars
    BY <2>2 DEF vars, IInv, TypeOK, Sound, Planned, Distinct, Truthful, Matches
  <2> QED
    BY <2>1, <2>2
<1> QED
  BY <1>1, <1>2, PTL DEF Spec

\* The readback (prepare_publication, verify_remote_readback): a plan that the ledger calls
\* verified is published, whoever else publishes and whatever was cut off in between; and a
\* ledger that was written can be loaded again (_load_ledger refuses a repeated plan).
THEOREM VerifiedAlways == Spec => []VerifiedIsPublished
<1>1. IInv => VerifiedIsPublished
  <2> SUFFICES ASSUME IInv PROVE VerifiedIsPublished
    OBVIOUS
  <2>1. TypeOK /\ DOMAIN ledger = 1 .. Len(ledger) /\ Len(remote) \in Nat
    BY DEF IInv, TypeOK
  <2>2. ASSUME NEW plan \in Plans, Matches(plan)
        PROVE  /\ plan.expected < Len(remote)
               /\ Listed[remote[plan.expected + 1].bundle] = Listed[plan.bundle]
    <3>1. plan.expected \in Nat
      BY DEF Plans
    <3> QED
      BY <2>1, <2>2, <3>1 DEF Matches, Published
  <2>3. \A plan \in Plans : Occurs(ledger, plan, {"readback-verified"}) => Matches(plan)
    BY <2>1 DEF IInv, Sound, Truthful, Occurs
  <2> QED
    BY <2>1, <2>2, <2>3 DEF VerifiedIsPublished, IInv, Sound, Distinct
<1> QED
  BY <1>1, InvAlways, PTL

\* The preflight (_require_status) and the entries before the mutation: commands that do not
\* overlap publish nothing twice, and nothing that the ledger did not have before.
THEOREM PlannedAlways == Spec => []PublishedAsPlanned
<1>1. IInv => PublishedAsPlanned
  BY DEF IInv, TypeOK, Planned, PublishedAsPlanned
<1> QED
  BY <1>1, InvAlways, PTL
=============================================================================
