---------------------------- MODULE UrlPullProofs -----------------------------
(***************************************************************************)
(* Proofs about UrlPull, for every set of postings, contents and pulls.    *)
(*                                                                         *)
(* The properties speak of the tables alone; that they agree rests on what *)
(* no table says: that a result never changes once it is applied, that the *)
(* applied pulls are ordered by the moments of their commits, and that an  *)
(* observation is of an applied list that did or did not find the job.     *)
(***************************************************************************)
EXTENDS UrlPull, TLAPS

\* The applied pulls that found a job.
Finders(j) == {p \in Applied : j \in DOMAIN result[p].jobs}

\* Where a pull stands, what it fetched and what its audit says.
Lifecycle ==
    \A p \in Pull :
        /\ pc[p] \in {"fetched", "begun"} => result[p] \in Results
        /\ p \in Applied => /\ pc[p] = "over"
                            /\ result[p] \in Results
                            /\ audit[p].at \in 1 .. clock
        /\ told[p] = "saved" => p \in Applied

\* A list in the listed scope holds listed postings.
ScopeKept ==
    \A p \in Pull : \A j \in DOMAIN result[p].jobs :
        result[p].scope = "listed" => result[p].jobs[j].kind = "listed"

\* No two pulls are applied at once.
Ordered == \A p, q \in Applied : audit[p].at = audit[q].at => p = q

\* An observation is of an applied list, which missed the job if it closed it.
Sound(j, o) ==
    /\ o.pull \in Applied
    /\ o.at = audit[o.pull].at
    /\ result[o.pull].scope \in Scopes
    /\ (o.kind = "closed") <=> (j \notin DOMAIN result[o.pull].jobs)

\* The observations of a job are in the order of the commits.
InOrder(h) == \A m, n \in DOMAIN h : m < n => h[m].at < h[n].at

\* Every applied list that found the job has observed it.
Complete(j) ==
    \A p \in Finders(j) :
        result[p].scope \in Scopes => \E n \in DOMAIN history[j] : history[j][n].pull = p

Recorded(j) ==
    /\ \A n \in DOMAIN history[j] : Sound(j, history[j][n])
    /\ InOrder(history[j])
    /\ Complete(j)

\* The last observation of a job closed it, and nobody has found it since.
LastClosed(j) ==
    LET n == Len(history[j]) IN
    n > 0 /\ history[j][n].kind = "closed"
          /\ \A p \in Finders(j) : audit[p].at <= history[j][n].at

\* The pull that last had the job found it as its row says.
LastFound(j) ==
    \E p \in Finders(j) :
        /\ \A q \in Finders(j) : audit[q].at <= audit[p].at
        /\ rows[j].hash = result[p].jobs[j].hash

Explained(j) ==
    /\ rows[j] = NoRow => history[j] = <<>> /\ Finders(j) = {}
    /\ (rows[j].status = "closed") <=> LastClosed(j)
    /\ rows[j] # NoRow => LastFound(j)
    /\ rows[j] # NoRow /\ rows[j].membership = "listed" =>
          \E p \in Finders(j) : result[p].jobs[j].kind = "listed"

\* An observation that closed a job in the listed scope is of a job found listed before.
Protected(j, o) ==
    o.kind = "closed" /\ result[o.pull].scope = "listed" =>
        \E p \in Finders(j) : audit[p].at < o.at /\ result[p].jobs[j].kind = "listed"

Within(j) == \A n \in DOMAIN history[j] : Protected(j, history[j][n])

IInv ==
    /\ TypeOK
    /\ Lifecycle
    /\ ScopeKept
    /\ Ordered
    /\ \A j \in Job : Recorded(j) /\ Explained(j) /\ Within(j)

-----------------------------------------------------------------------------
(* What the operators return.                                              *)

\* A job has a row, or has none.
LEMMA RowType ==
    ASSUME TypeOK, NEW j \in Job
    PROVE  /\ rows[j] = NoRow <=> rows[j].status = "absent"
           /\ rows[j] # NoRow => rows[j] \in Rows
<1>1. rows[j] \in Rows \/ rows[j] = NoRow
  BY DEF TypeOK
<1> QED
  BY <1>1 DEF Rows, NoRow

\* A result found jobs, and says of each what a posting says.
LEMMA ResultType ==
    ASSUME NEW r \in Results
    PROVE  /\ r.scope \in Scopes \cup {"get"}
           /\ DOMAIN r.jobs \subseteq Job
           /\ \A j \in DOMAIN r.jobs : r.jobs[j] \in Postings
<1>1. PICK S \in SUBSET Job : r.jobs \in [S -> Postings]
  BY DEF Results
<1> QED
  BY <1>1 DEF Results

\* What was found makes a result.
LEMMA ResultMade ==
    ASSUME NEW scope \in Scopes \cup {"get"}, NEW S \in SUBSET Job, NEW f \in [S -> Postings]
    PROVE  [scope |-> scope, jobs |-> f] \in Results
<1>1. f \in UNION {[T -> Postings] : T \in SUBSET Job}
  OBVIOUS
<1> QED
  BY <1>1 DEF Results

\* Public postings are postings, and those of the listed scope are listed.
LEMMA PublicPostings ==
    ASSUME TypeOK, NEW scope
    PROVE  /\ Public(scope) \subseteq Job
           /\ \A j \in Public(scope) : /\ site[j] \in Postings
                                       /\ scope = "listed" => site[j].kind = "listed"
<1>1. \A j \in Public(scope) : j \in Job /\ site[j].kind \in {"listed", "unlisted"}
  BY DEF Public
<1>2. \A j \in Public(scope) : site[j] # Gone
  BY <1>1 DEF Gone
<1>3. \A j \in Job : site[j] \in Postings \cup {Gone}
  BY DEF TypeOK
<1> QED
  BY <1>1, <1>2, <1>3 DEF Public

\* Adding an observation to a history.
LEMMA Appended ==
    ASSUME NEW S, NEW h \in Seq(S), NEW o \in S
    PROVE  /\ Append(h, o) \in Seq(S) /\ Append(h, o) # <<>>
           /\ Len(h) \in Nat /\ Len(Append(h, o)) = Len(h) + 1
           /\ DOMAIN h = 1 .. Len(h)
           /\ DOMAIN Append(h, o) = 1 .. (Len(h) + 1)
           /\ \A n \in DOMAIN h : Append(h, o)[n] = h[n]
           /\ Append(h, o)[Len(h) + 1] = o
OBVIOUS

-----------------------------------------------------------------------------
(* The invariant.                                                          *)

\* Nothing is saved at first.
LEMMA InitInv == Init => IInv
<1> SUFFICES ASSUME Init PROVE IInv
  OBVIOUS
<1>1. TypeOK
  BY PullAssumption DEF Init, TypeOK, Postings, NoAudit, Audits
<1>2. Applied = {}
  BY DEF Init, Applied, NoAudit
<1>3. Lifecycle /\ ScopeKept /\ Ordered
  BY <1>2 DEF Init, Lifecycle, ScopeKept, Ordered, NoResult
<1>4. \A j \in Job : DOMAIN history[j] = {} /\ Len(history[j]) = 0
  <2>1. \A j \in Job : history[j] = <<>>
    BY DEF Init
  <2>2. DOMAIN <<>> = {} /\ Len(<<>>) = 0
    OBVIOUS
  <2> QED
    BY <2>1, <2>2
<1>5. \A j \in Job : Recorded(j) /\ Within(j)
  BY <1>2, <1>4 DEF Recorded, InOrder, Complete, Finders, Within
<1>6. \A j \in Job : Explained(j)
  <2> TAKE j \in Job
  <2>1. rows[j] = NoRow /\ history[j] = <<>>
    BY DEF Init
  <2>2. rows[j].status # "closed"
    BY <2>1 DEF NoRow
  <2>3. ~LastClosed(j)
    BY <1>4 DEF LastClosed
  <2>4. Finders(j) = {}
    BY <1>2 DEF Finders
  <2> QED
    BY <2>1, <2>2, <2>3, <2>4 DEF Explained
<1> QED
  BY <1>1, <1>3, <1>5, <1>6 DEF IInv

\* Steps that write neither rows nor history, and leave the applied pulls as they are.
LEMMA QuietStep ==
    ASSUME Ordered, NEW j \in Job, Recorded(j), Explained(j), Within(j),
           UNCHANGED <<rows, history, clock>>,
           Applied' = Applied,
           \A p \in Applied : audit'[p] = audit[p] /\ result'[p] = result[p]
    PROVE  Ordered' /\ Recorded(j)' /\ Explained(j)' /\ Within(j)'
<1>1. Finders(j)' = Finders(j)
  BY DEF Finders
<1>2. Ordered'
  BY DEF Ordered
<1>3. \A n \in DOMAIN history[j] : Sound(j, history[j][n]) => Sound(j, history[j][n])'
  BY DEF Sound
<1>4. Complete(j) => Complete(j)'
  BY <1>1 DEF Complete, Finders
<1>5. Recorded(j)'
  BY <1>3, <1>4 DEF Recorded
<1>6. LastClosed(j)' <=> LastClosed(j)
  BY <1>1 DEF LastClosed, Finders
<1>7. LastFound(j) => LastFound(j)'
  BY <1>1 DEF LastFound, Finders
<1>8. Explained(j)'
  BY <1>1, <1>6, <1>7 DEF Explained, Finders
<1>9. \A n \in DOMAIN history[j] :
        Sound(j, history[j][n]) /\ Protected(j, history[j][n]) => Protected(j, history[j][n])'
  BY <1>1 DEF Sound, Protected, Finders
<1>10. Within(j)'
  BY <1>9 DEF Within, Recorded
<1> QED
  BY <1>2, <1>5, <1>8, <1>10

\* A list or a get that is committed adds its pull to the applied ones, last.
LEMMA Committed ==
    ASSUME IInv, NEW p \in Pull, Apply(p)
    PROVE  /\ p \notin Applied /\ Applied' = Applied \cup {p}
           /\ result' = result /\ result[p] \in Results
           /\ clock \in Nat /\ clock' = clock + 1 /\ audit'[p].at = clock + 1
           /\ \A q \in Applied : /\ audit'[q] = audit[q] /\ q # p
                                /\ audit[q].at \in 1 .. clock
<1>1. pc[p] = "begun" /\ result' = result /\ clock' = clock + 1 /\ clock \in Nat
  BY DEF Apply, IInv, TypeOK
<1>2. p \notin Applied /\ result[p] \in Results
  BY <1>1 DEF IInv, Lifecycle
<1>3. audit' = [audit EXCEPT ![p] = [status |-> "succeeded", at |-> clock + 1]]
  BY DEF Apply
<1>4. audit \in [Pull -> Audits]
  BY DEF IInv, TypeOK
<1>5. \A q \in Pull : audit'[q] = IF q = p THEN [status |-> "succeeded", at |-> clock + 1]
                                         ELSE audit[q]
  BY <1>3, <1>4
<1>6. Applied' = Applied \cup {p}
  BY <1>5 DEF Applied
<1>7. \A q \in Applied : q # p /\ audit'[q] = audit[q] /\ audit[q].at \in 1 .. clock
  BY <1>2, <1>5 DEF IInv, Lifecycle, Applied
<1> QED
  BY <1>1, <1>2, <1>5, <1>6, <1>7

\* Who has found a job once a pull is applied.
LEMMA NowFound ==
    ASSUME IInv, NEW p \in Pull, Apply(p), NEW j \in Job
    PROVE  /\ Finders(j)' = IF j \in DOMAIN result[p].jobs THEN Finders(j) \cup {p} ELSE Finders(j)
           /\ \A q \in Finders(j) : /\ q # p /\ audit'[q] = audit[q]
                                   /\ audit[q].at \in 1 .. clock
BY Committed DEF Finders

\* An observation of the past stays sound, and is before the present.
LEMMA StillSound ==
    ASSUME IInv, NEW p \in Pull, Apply(p), NEW j \in Job, NEW o, Sound(j, o)
    PROVE  Sound(j, o)' /\ o.at \in 1 .. clock
<1>1. o.pull \in Applied /\ o.at = audit[o.pull].at
  BY DEF Sound
<1>2. /\ o.pull \in Applied' /\ audit'[o.pull] = audit[o.pull] /\ result' = result
      /\ audit[o.pull].at \in 1 .. clock
  BY <1>1, Committed
<1> QED
  BY <1>1, <1>2 DEF Sound

\* What a history is made of once a pull has added its observation.
LEMMA ObservedNow ==
    ASSUME IInv, NEW p \in Pull, Apply(p), NEW j \in Job, NEW kind,
           history'[j] = Observed(j, p, kind),
           [pull |-> p, at |-> clock + 1, kind |-> kind] \in Observations,
           result[p].scope \in Scopes,
           (kind = "closed") <=> (j \notin DOMAIN result[p].jobs)
    PROVE  /\ (\A n \in DOMAIN history[j] : Sound(j, history[j][n]))'
           /\ InOrder(history[j])'
           /\ Complete(j)'
           /\ Len(history'[j]) = Len(history[j]) + 1
           /\ Len(history'[j]) > 0 /\ history'[j] # <<>>
           /\ \A n \in DOMAIN history'[j] :
                 \/ n \in DOMAIN history[j] /\ history'[j][n] = history[j][n]
                 \/ /\ n = Len(history[j]) + 1
                    /\ history'[j][n] = [pull |-> p, at |-> clock + 1, kind |-> kind]
           /\ history'[j][Len(history'[j])] = [pull |-> p, at |-> clock + 1, kind |-> kind]
<1> DEFINE h == history[j]
           g == history'[j]
           o == [pull |-> p, at |-> clock + 1, kind |-> kind]
<1>1. h \in Seq(Observations) /\ g = Append(h, o)
  BY DEF IInv, TypeOK, Observed
<1>2. o.pull = p /\ o.at = clock + 1 /\ o.kind = kind
  OBVIOUS
<1>3. o \in Observations
  OBVIOUS
<1>4. \A n \in DOMAIN h : Sound(j, h[n])
  BY DEF IInv, Recorded
<1>5. InOrder(h)
  BY DEF IInv, Recorded
<1>6. result' = result /\ p \in Applied' /\ audit'[p].at = clock + 1 /\ clock \in Nat
  BY Committed
<1>7. \A n \in DOMAIN h : h[n].at \in 1 .. clock
  BY <1>4, StillSound
<1> HIDE DEF h, g, o
<1>8. /\ Len(h) \in Nat /\ Len(g) = Len(h) + 1 /\ g # <<>>
      /\ DOMAIN h = 1 .. Len(h) /\ DOMAIN g = 1 .. (Len(h) + 1)
      /\ \A n \in DOMAIN h : g[n] = h[n]
      /\ g[Len(h) + 1] = o
  BY <1>1, <1>3, Appended
<1>9. \A n \in DOMAIN g : (n \in DOMAIN h /\ g[n] = h[n]) \/ (n = Len(h) + 1 /\ g[n] = o)
  BY <1>8
<1>10. ASSUME NEW n \in DOMAIN g, NEW e, e = g[n]
       PROVE  Sound(j, e)'
  <2>1. CASE n \in DOMAIN h
    <3>1. Sound(j, e)
      BY <1>4, <1>8, <1>10, <2>1
    <3> QED
      BY <3>1, StillSound
  <2>2. CASE n = Len(h) + 1
    <3>1. e.pull = p /\ e.at = clock + 1 /\ e.kind = kind
      BY <1>2, <1>8, <1>10, <2>2
    <3> QED
      BY <1>6, <3>1 DEF Sound
  <2> QED
    BY <1>9, <2>1, <2>2
<1>11. \A m, n \in DOMAIN g : m < n => g[m].at < g[n].at
  <2> SUFFICES ASSUME NEW m \in DOMAIN g, NEW n \in DOMAIN g, m < n
               PROVE  g[m].at < g[n].at
    OBVIOUS
  <2>1. m \in DOMAIN h /\ g[m] = h[m]
    BY <1>8
  <2>2. CASE n \in DOMAIN h
    BY <1>5, <1>8, <2>1, <2>2 DEF InOrder
  <2>3. CASE n = Len(h) + 1
    BY <1>2, <1>6, <1>7, <1>8, <2>1, <2>3
  <2> QED
    BY <1>9, <2>2, <2>3
<1>12. ASSUME NEW q \in Pull, q \in Finders(j)', result'[q].scope \in Scopes
       PROVE  \E n \in DOMAIN g : g[n].pull = q
  <2>1. CASE q = p
    BY <1>2, <1>8, <2>1
  <2>2. CASE q # p
    <3>1. q \in Finders(j)
      BY <1>12, <2>2, NowFound
    <3>2. PICK n \in DOMAIN h : h[n].pull = q
      BY <1>6, <1>12, <3>1 DEF IInv, Recorded, Complete, h
    <3> QED
      BY <1>8, <3>2
  <2> QED
    BY <2>1, <2>2
<1>13. (\A n \in DOMAIN history[j] : Sound(j, history[j][n]))'
  BY <1>10 DEF g, Sound
<1>14. InOrder(history[j])'
  BY <1>11 DEF g, InOrder
<1>15. Complete(j)'
  BY <1>12 DEF g, Complete, Finders, Applied
<1>16. Len(g) > 0 /\ g[Len(g)] = o
  BY <1>8
<1> QED
  BY <1>8, <1>9, <1>13, <1>14, <1>15, <1>16 DEF g, h, o

\* A closing observation of the past stays protected.
LEMMA StillProtected ==
    ASSUME IInv, NEW p \in Pull, Apply(p), NEW j \in Job, NEW o, Sound(j, o), Protected(j, o)
    PROVE  Protected(j, o)'
<1>1. result' = result /\ \A q \in Finders(j) : q \in Finders(j)' /\ audit'[q] = audit[q]
  BY Committed, NowFound
<1> QED
  BY <1>1 DEF Protected

\* A job that the applied pull found is open and says what it found.
LEMMA FoundNow ==
    ASSUME IInv, NEW p \in Pull, Apply(p), NEW j \in Job, j \in DOMAIN result[p].jobs,
           rows'[j] = Upserted(j, result[p].jobs[j])
    PROVE  /\ rows'[j] # NoRow /\ rows'[j].status = "open" /\ rows'[j] \in Rows
           /\ LastFound(j)'
           /\ rows'[j].membership = "listed" =>
                 (\E q \in Finders(j) : result[q].jobs[j].kind = "listed")'
<1> DEFINE posting == result[p].jobs[j]
<1>1. posting \in Postings
  BY Committed, ResultType
<1>2. /\ rows'[j].status = "open" /\ rows'[j].hash = posting.hash
      /\ rows'[j].membership = Promoted(j, MembershipOf(posting))
  BY DEF Upserted
<1>3. Promoted(j, MembershipOf(posting)) \in {"listed", "direct_only"}
  BY RowType DEF Promoted, MembershipOf
<1>4. rows'[j] \in Rows
  BY <1>1, <1>3 DEF Upserted, Rows, Postings
<1>5. p \in Finders(j)' /\ result' = result /\ audit'[p].at = clock + 1 /\ clock \in Nat
  BY Committed, NowFound
<1>6. \A q \in Finders(j)' : audit'[q].at <= audit'[p].at
  <2> SUFFICES ASSUME NEW q, q \in Finders(j)' PROVE audit'[q].at <= audit'[p].at
    OBVIOUS
  <2>1. CASE q = p
    BY <1>5, <2>1
  <2>2. CASE q # p
    <3>1. audit'[q].at \in 1 .. clock
      BY <2>2, NowFound
    <3> QED
      BY <1>5, <3>1
  <2> QED
    BY <2>1, <2>2
<1>7. LastFound(j)'
  BY <1>2, <1>5, <1>6 DEF LastFound
<1>8. ASSUME rows'[j].membership = "listed"
      PROVE  (\E q \in Finders(j) : result[q].jobs[j].kind = "listed")'
  <2>1. CASE rows[j] # NoRow /\ rows[j].membership = "listed"
    <3>1. \E q \in Finders(j) : result[q].jobs[j].kind = "listed"
      BY <2>1 DEF IInv, Explained
    <3> QED
      BY <1>5, <3>1, NowFound
  <2>2. CASE ~(rows[j] # NoRow /\ rows[j].membership = "listed")
    <3>1. posting.kind = "listed"
      BY <1>1, <1>2, <1>8, <2>2 DEF Promoted, MembershipOf, Postings
    <3> QED
      BY <1>5, <3>1
  <2> QED
    BY <2>1, <2>2
<1> QED
  BY <1>2, <1>4, <1>7, <1>8 DEF NoRow

\* A list that found the job.
LEMMA ListedJob ==
    ASSUME IInv, NEW p \in Pull, Apply(p), ApplyList(p), NEW j \in Job,
           j \in DOMAIN result[p].jobs
    PROVE  /\ rows'[j] \in Rows /\ history'[j] \in Seq(Observations)
           /\ Recorded(j)' /\ Explained(j)' /\ Within(j)'
<1> DEFINE kind == ObservationKind(j, result[p].jobs[j].hash)
           o == [pull |-> p, at |-> clock + 1, kind |-> kind]
<1>1. /\ rows'[j] = Upserted(j, result[p].jobs[j])
      /\ history'[j] = Observed(j, p, kind) /\ result[p].scope \in Scopes
  BY DEF ApplyList
<1>2. kind \in {"new", "changed", "unchanged", "reopened"}
  BY DEF ObservationKind
<1>3. clock + 1 \in Nat
  BY DEF IInv, TypeOK
<1>4. o \in Observations
  BY <1>2, <1>3 DEF Observations
<1>5. o.kind # "closed" /\ kind # "closed"
  BY <1>2
<1> HIDE DEF kind
<1>6. /\ (\A n \in DOMAIN history[j] : Sound(j, history[j][n]))'
      /\ InOrder(history[j])' /\ Complete(j)'
      /\ history'[j] # <<>>
      /\ \A n \in DOMAIN history'[j] :
            (n \in DOMAIN history[j] /\ history'[j][n] = history[j][n]) \/ history'[j][n] = o
      /\ history'[j][Len(history'[j])] = o
  BY <1>1, <1>4, <1>5, ObservedNow
<1>7. history'[j] \in Seq(Observations)
  BY <1>1, <1>4, Appended DEF Observed, IInv, TypeOK
<1>8. Recorded(j)'
  BY <1>6 DEF Recorded
<1>9. ~LastClosed(j)'
  BY <1>5, <1>6 DEF LastClosed
<1>10. /\ rows'[j] # NoRow /\ rows'[j].status = "open" /\ rows'[j] \in Rows
       /\ LastFound(j)'
       /\ rows'[j].membership = "listed" =>
             (\E q \in Finders(j) : result[q].jobs[j].kind = "listed")'
  BY <1>1, FoundNow
<1>11. Explained(j)'
  BY <1>9, <1>10 DEF Explained
<1>12. Within(j)'
  <2> SUFFICES ASSUME NEW n \in DOMAIN history'[j], NEW e, e = history'[j][n]
               PROVE  Protected(j, e)'
    BY DEF Within, Protected
  <2>1. CASE e = o
    BY <1>5, <2>1 DEF Protected
  <2>2. CASE n \in DOMAIN history[j] /\ e = history[j][n]
    <3>1. Sound(j, e) /\ Protected(j, e)
      BY <2>2 DEF IInv, Recorded, Within
    <3> QED
      BY <3>1, StillProtected
  <2> QED
    BY <1>6, <2>1, <2>2
<1> QED
  BY <1>7, <1>8, <1>10, <1>11, <1>12

\* A history that the applied pull leaves alone keeps what it recorded.
LEMMA SameHistory ==
    ASSUME IInv, NEW p \in Pull, Apply(p), NEW j \in Job, history'[j] = history[j],
           j \in DOMAIN result[p].jobs => result[p].scope \notin Scopes
    PROVE  Recorded(j)' /\ Within(j)'
<1>1. Recorded(j) /\ Within(j)
  BY DEF IInv
<1>2. ASSUME NEW n \in DOMAIN history[j], NEW e, e = history[j][n]
      PROVE  Sound(j, e)' /\ Protected(j, e)'
  <2>1. Sound(j, e) /\ Protected(j, e)
    BY <1>1, <1>2 DEF Recorded, Within
  <2> QED
    BY <2>1, StillSound, StillProtected
<1>3. (\A n \in DOMAIN history[j] : Sound(j, history[j][n]))'
  BY <1>2 DEF Sound
<1>4. Within(j)'
  BY <1>2 DEF Within, Protected
<1>5. result' = result
  BY Committed
<1>6. Complete(j)'
  <2> SUFFICES ASSUME NEW q, q \in Finders(j)', result'[q].scope \in Scopes
               PROVE  \E n \in DOMAIN history'[j] : history'[j][n].pull = q
    BY DEF Complete
  <2>1. q # p /\ q \in Finders(j)
    BY <1>5, NowFound
  <2> QED
    BY <1>1, <1>5, <2>1 DEF Recorded, Complete
<1> QED
  BY <1>1, <1>3, <1>4, <1>6 DEF Recorded

\* A get that found the job: it is open, whatever its history says last.
LEMMA GotJob ==
    ASSUME IInv, NEW p \in Pull, Apply(p), ApplyGet(p), NEW j \in Job,
           j \in DOMAIN result[p].jobs
    PROVE  /\ rows'[j] \in Rows /\ history'[j] \in Seq(Observations)
           /\ Recorded(j)' /\ Explained(j)' /\ Within(j)'
<1>1. /\ rows'[j] = Upserted(j, result[p].jobs[j]) /\ history'[j] = history[j]
      /\ result[p].scope \notin Scopes
  BY DEF ApplyGet, Scopes
<1>2. Recorded(j)' /\ Within(j)'
  BY <1>1, SameHistory
<1>3. /\ rows'[j] # NoRow /\ rows'[j].status = "open" /\ rows'[j] \in Rows
      /\ LastFound(j)'
      /\ rows'[j].membership = "listed" =>
            (\E q \in Finders(j) : result[q].jobs[j].kind = "listed")'
  BY <1>1, FoundNow
<1>4. ~LastClosed(j)'
  <2> SUFFICES ASSUME Len(history[j]) > 0 PROVE ~LastClosed(j)'
    BY <1>1 DEF LastClosed
  <2> DEFINE n == Len(history[j])
  <2>1. history[j] \in Seq(Observations)
    BY DEF IInv, TypeOK
  <2>2. n \in DOMAIN history[j]
    BY <2>1
  <2>3. Sound(j, history[j][n])
    BY <2>2 DEF IInv, Recorded
  <2>4. history[j][n].at \in 1 .. clock
    BY <2>3, StillSound
  <2>5. p \in Finders(j)' /\ audit'[p].at = clock + 1 /\ clock \in Nat
    BY Committed, NowFound
  <2>6. ~(audit'[p].at <= history[j][n].at)
    BY <2>4, <2>5
  <2> QED
    BY <1>1, <2>5, <2>6 DEF LastClosed
<1>5. Explained(j)'
  BY <1>3, <1>4 DEF Explained
<1> QED
  BY <1>1, <1>2, <1>3, <1>5 DEF IInv, TypeOK

\* Who has found a job that the applied pull did not find.
LEMMA NotFoundNow ==
    ASSUME IInv, NEW p \in Pull, Apply(p), NEW j \in Job, j \notin DOMAIN result[p].jobs
    PROVE  /\ Finders(j)' = Finders(j) /\ result' = result
           /\ \A q \in Finders(j) : audit'[q] = audit[q] /\ audit[q].at \in 1 .. clock
BY Committed, NowFound

\* A job that the applied pull neither found nor closed stays as it is.
LEMMA UntouchedJob ==
    ASSUME IInv, NEW p \in Pull, Apply(p), NEW j \in Job, j \notin DOMAIN result[p].jobs,
           rows'[j] = rows[j], history'[j] = history[j]
    PROVE  /\ rows'[j] \in Rows \cup {NoRow} /\ history'[j] \in Seq(Observations)
           /\ Recorded(j)' /\ Explained(j)' /\ Within(j)'
<1>1. /\ Finders(j)' = Finders(j) /\ result' = result
      /\ \A q \in Finders(j) : audit'[q] = audit[q] /\ audit[q].at \in 1 .. clock
  BY NotFoundNow
<1>2. LastClosed(j)' <=> LastClosed(j)
  BY <1>1 DEF LastClosed
<1>3. LastFound(j) => LastFound(j)'
  BY <1>1 DEF LastFound
<1>4. Explained(j)
  BY DEF IInv
<1>5. Explained(j)'
  BY <1>1, <1>2, <1>3, <1>4 DEF Explained
<1> QED
  BY <1>5, SameHistory DEF IInv, TypeOK

\* A list that missed an open job of its scope closes it.
LEMMA MissedJob ==
    ASSUME IInv, NEW p \in Pull, Apply(p), ApplyList(p), NEW j \in Job,
           j \notin DOMAIN result[p].jobs, InScope(j, result[p].scope)
    PROVE  /\ rows'[j] \in Rows /\ history'[j] \in Seq(Observations)
           /\ Recorded(j)' /\ Explained(j)' /\ Within(j)'
<1> DEFINE o == [pull |-> p, at |-> clock + 1, kind |-> "closed"]
<1>1. /\ rows'[j] = [rows[j] EXCEPT !.status = "closed"]
      /\ history'[j] = Observed(j, p, "closed") /\ result[p].scope \in Scopes
  BY DEF ApplyList
<1>2. rows[j].status = "open"
  BY DEF InScope
<1>3. rows[j] \in Rows /\ rows[j] # NoRow
  BY <1>2, RowType DEF IInv
<1>4. /\ rows'[j] \in Rows /\ rows'[j].status = "closed" /\ rows'[j] # NoRow
      /\ rows'[j].hash = rows[j].hash /\ rows'[j].membership = rows[j].membership
  BY <1>1, <1>3 DEF Rows, NoRow
<1>5. clock \in Nat /\ o \in Observations
  BY DEF IInv, TypeOK, Observations
<1>6. /\ (\A n \in DOMAIN history[j] : Sound(j, history[j][n]))'
      /\ InOrder(history[j])' /\ Complete(j)'
      /\ Len(history'[j]) > 0 /\ history'[j] # <<>>
      /\ \A n \in DOMAIN history'[j] :
            (n \in DOMAIN history[j] /\ history'[j][n] = history[j][n]) \/ history'[j][n] = o
      /\ history'[j][Len(history'[j])] = o
  BY <1>1, <1>5, ObservedNow
<1>7. history'[j] \in Seq(Observations)
  BY <1>1, <1>5, Appended DEF Observed, IInv, TypeOK
<1>8. Recorded(j)'
  BY <1>6 DEF Recorded
<1>9. /\ Finders(j)' = Finders(j) /\ result' = result
      /\ \A q \in Finders(j) : audit'[q] = audit[q] /\ audit[q].at \in 1 .. clock
  BY NotFoundNow
<1>10. o.kind = "closed" /\ o.at = clock + 1 /\ o.pull = p
  OBVIOUS
<1>11. \A q \in Finders(j)' : audit'[q].at < o.at /\ audit'[q].at <= o.at
  BY <1>5, <1>9, <1>10
<1> HIDE DEF o
<1>12. LastClosed(j)'
  BY <1>6, <1>10, <1>11 DEF LastClosed
<1>13. LastFound(j)'
  BY <1>3, <1>4, <1>9 DEF IInv, Explained, LastFound
<1>14. Explained(j)
  BY DEF IInv
<1>15. Explained(j)'
  BY <1>3, <1>4, <1>6, <1>9, <1>12, <1>13, <1>14 DEF Explained
<1>16. ASSUME NEW e, e = o PROVE Protected(j, e)'
  <2> SUFFICES ASSUME result[p].scope = "listed"
               PROVE  \E q \in Finders(j)' :
                         audit'[q].at < o.at /\ result'[q].jobs[j].kind = "listed"
    BY <1>9, <1>10, <1>16 DEF Protected
  <2>1. rows[j].membership = "listed"
    BY DEF InScope
  <2>2. \E q \in Finders(j) : result[q].jobs[j].kind = "listed"
    BY <1>3, <1>14, <2>1 DEF Explained
  <2> QED
    BY <1>9, <1>11, <2>2
<1>17. Within(j)'
  <2> SUFFICES ASSUME NEW n \in DOMAIN history'[j], NEW e, e = history'[j][n]
               PROVE  Protected(j, e)'
    BY DEF Within, Protected
  <2>1. CASE e = o
    BY <1>16, <2>1
  <2>2. CASE n \in DOMAIN history[j] /\ e = history[j][n]
    <3>1. Sound(j, e) /\ Protected(j, e)
      BY <2>2 DEF IInv, Recorded, Within
    <3> QED
      BY <3>1, StillProtected
  <2> QED
    BY <1>6, <2>1, <2>2
<1> QED
  BY <1>4, <1>7, <1>8, <1>15, <1>17

\* The one transaction of a pull keeps the tables of every job in agreement.
LEMMA ApplyKeepsJob ==
    ASSUME IInv, NEW p \in Pull, Apply(p), NEW j \in Job
    PROVE  /\ rows'[j] \in Rows \cup {NoRow} /\ history'[j] \in Seq(Observations)
           /\ Recorded(j)' /\ Explained(j)' /\ Within(j)'
<1>1. CASE ApplyList(p)
  <2>1. CASE j \in DOMAIN result[p].jobs
    BY <1>1, <2>1, ListedJob
  <2>2. CASE j \notin DOMAIN result[p].jobs /\ InScope(j, result[p].scope)
    BY <1>1, <2>2, MissedJob
  <2>3. CASE j \notin DOMAIN result[p].jobs /\ ~InScope(j, result[p].scope)
    <3>1. rows'[j] = rows[j] /\ history'[j] = history[j]
      BY <1>1, <2>3 DEF ApplyList
    <3> QED
      BY <2>3, <3>1, UntouchedJob
  <2> QED
    BY <2>1, <2>2, <2>3
<1>2. CASE ApplyGet(p)
  <2>1. CASE j \in DOMAIN result[p].jobs
    BY <1>2, <2>1, GotJob
  <2>2. CASE j \notin DOMAIN result[p].jobs
    <3>1. rows'[j] = rows[j] /\ history'[j] = history[j]
      BY <1>2, <2>2 DEF ApplyGet
    <3> QED
      BY <2>2, <3>1, UntouchedJob
  <2> QED
    BY <2>1, <2>2
<1> QED
  BY <1>1, <1>2 DEF Apply

\* The transaction keeps the invariant.
LEMMA ApplyInv ==
    ASSUME IInv, NEW p \in Pull, Apply(p)
    PROVE  IInv'
<1>1. \A j \in Job : /\ rows'[j] \in Rows \cup {NoRow} /\ history'[j] \in Seq(Observations)
                     /\ Recorded(j)' /\ Explained(j)' /\ Within(j)'
  BY ApplyKeepsJob
<1>2. /\ p \notin Applied /\ Applied' = Applied \cup {p}
      /\ result' = result /\ result[p] \in Results
      /\ clock \in Nat /\ clock' = clock + 1 /\ audit'[p].at = clock + 1
      /\ \A q \in Applied : /\ audit'[q] = audit[q] /\ q # p
                           /\ audit[q].at \in 1 .. clock
  BY Committed
<1>3. TypeOK
  BY DEF IInv
<1>4. TypeOK'
  <2>1. rows' \in [Job -> Rows \cup {NoRow}] /\ history' \in [Job -> Seq(Observations)]
    <3>1. \E f, g : rows' = [j \in Job |-> f[j]] /\ history' = [j \in Job |-> g[j]]
      BY <1>3 DEF Apply, ApplyList, ApplyGet, TypeOK
    <3> QED
      BY <1>1, <3>1
  <2>2. [status |-> "succeeded", at |-> clock + 1] \in Audits
    BY <1>2 DEF Audits
  <2>3. audit' \in [Pull -> Audits]
    BY <1>3, <2>2 DEF Apply, TypeOK
  <2>4. pc' \in [Pull -> {"idle", "fetched", "begun", "over"}]
        /\ told' \in [Pull -> {"nothing", "saved", "error"}]
    BY <1>3 DEF Apply, Tells, TypeOK
  <2> QED
    BY <1>2, <1>3, <2>1, <2>3, <2>4 DEF Apply, TypeOK
<1>5. Lifecycle'
  <2> SUFFICES ASSUME NEW q \in Pull
               PROVE  /\ pc'[q] \in {"fetched", "begun"} => result'[q] \in Results
                      /\ q \in Applied' => /\ pc'[q] = "over"
                                           /\ result'[q] \in Results
                                           /\ audit'[q].at \in 1 .. clock'
                      /\ told'[q] = "saved" => q \in Applied'
    BY DEF Lifecycle
  <2>1. CASE q = p
    BY <1>2, <1>3, <2>1 DEF Apply, Tells, TypeOK
  <2>2. CASE q # p
    <3>1. pc'[q] = pc[q] /\ told'[q] = told[q]
      BY <1>3, <2>2 DEF Apply, Tells, TypeOK
    <3>2. q \in Applied' <=> q \in Applied
      BY <1>2, <2>2
    <3>3. q \in Applied => audit'[q].at \in 1 .. clock'
      BY <1>2
    <3> QED
      BY <1>2, <3>1, <3>2, <3>3 DEF IInv, Lifecycle
  <2> QED
    BY <2>1, <2>2
<1>6. ScopeKept'
  BY <1>2 DEF IInv, ScopeKept
<1>7. Ordered'
  BY <1>2 DEF IInv, Ordered
<1> QED
  BY <1>1, <1>4, <1>5, <1>6, <1>7 DEF IInv

\* A step of one pull that is not over and is not applied, and writes no job.
LEMMA QuietInv ==
    ASSUME IInv, TypeOK', NEW p \in Pull, pc[p] # "over",
           UNCHANGED <<rows, history, clock>>,
           \A q \in Pull \ {p} : /\ audit'[q] = audit[q] /\ result'[q] = result[q]
                               /\ pc'[q] = pc[q] /\ told'[q] = told[q],
           audit'[p].status # "succeeded",
           told'[p] # "saved",
           pc'[p] \in {"fetched", "begun"} => result'[p] \in Results,
           \A j \in DOMAIN result'[p].jobs :
               result'[p].scope = "listed" => result'[p].jobs[j].kind = "listed"
    PROVE  IInv'
<1>1. p \notin Applied
  BY DEF IInv, Lifecycle
<1>2. Applied' = Applied
  BY <1>1 DEF Applied
<1>3. \A q \in Applied : audit'[q] = audit[q] /\ result'[q] = result[q]
  BY <1>1 DEF Applied
<1>4. Lifecycle'
  <2> SUFFICES ASSUME NEW q \in Pull
               PROVE  /\ pc'[q] \in {"fetched", "begun"} => result'[q] \in Results
                      /\ q \in Applied' => /\ pc'[q] = "over"
                                           /\ result'[q] \in Results
                                           /\ audit'[q].at \in 1 .. clock'
                      /\ told'[q] = "saved" => q \in Applied'
    BY DEF Lifecycle
  <2>1. CASE q = p
    BY <1>1, <1>2, <2>1
  <2>2. CASE q # p
    BY <1>2, <2>2 DEF IInv, Lifecycle
  <2> QED
    BY <2>1, <2>2
<1>5. ScopeKept'
  BY DEF IInv, ScopeKept
<1>6. Ordered'
  BY <1>2, <1>3 DEF IInv, Ordered
<1>7. \A j \in Job : Recorded(j)' /\ Explained(j)' /\ Within(j)'
  BY <1>2, <1>3, QuietStep DEF IInv
<1> QED
  BY <1>4, <1>5, <1>6, <1>7 DEF IInv

\* A fetch keeps the invariant: it finds public postings of its scope.
LEMMA FetchedInv ==
    ASSUME IInv, NEW p \in Pull, NEW scope \in Scopes \cup {"get"},
           NEW found \in SUBSET Public(scope), Fetched(p, scope, found)
    PROVE  IInv'
<1>1. /\ found \subseteq Job
      /\ \A j \in found : site[j] \in Postings /\ (scope = "listed" => site[j].kind = "listed")
  BY PublicPostings DEF IInv
<1> DEFINE r == [scope |-> scope, jobs |-> [j \in found |-> site[j]]]
<1>2. [j \in found |-> site[j]] \in [found -> Postings]
  BY <1>1
<1>3. r \in Results
  BY <1>1, <1>2, ResultMade
<1>4. \A j \in DOMAIN r.jobs : r.scope = "listed" => r.jobs[j].kind = "listed"
  BY <1>1
<1> HIDE DEF r
<1>5. result' = [result EXCEPT ![p] = r] /\ pc' = [pc EXCEPT ![p] = "fetched"]
      /\ UNCHANGED <<site, changes, tables, told>> /\ pc[p] = "idle"
  BY DEF Fetched, r
<1>6. TypeOK'
  BY <1>3, <1>5 DEF IInv, TypeOK, tables
<1>7. result'[p] = r /\ pc'[p] = "fetched"
  BY <1>5 DEF IInv, TypeOK
<1>8. \A q \in Pull \ {p} : /\ audit'[q] = audit[q] /\ result'[q] = result[q]
                          /\ pc'[q] = pc[q] /\ told'[q] = told[q]
  BY <1>5 DEF IInv, TypeOK, tables
<1>9. p \notin Applied /\ told[p] # "saved"
  BY <1>5 DEF IInv, Lifecycle
<1>10. audit'[p].status # "succeeded" /\ told'[p] # "saved"
  BY <1>5, <1>9 DEF Applied, tables
<1> QED
  BY <1>3, <1>4, <1>5, <1>6, <1>7, <1>8, <1>10, QuietInv DEF tables

\* Every step keeps the invariant.
LEMMA NextInv == IInv /\ [Next]_vars => IInv'
<1> SUFFICES ASSUME IInv, [Next]_vars PROVE IInv'
  OBVIOUS
<1>1. TypeOK /\ Lifecycle /\ ScopeKept
  BY DEF IInv
<1>2. ASSUME NEW p \in Pull, pc[p] # "over"
      PROVE  audit[p].status # "succeeded" /\ told[p] # "saved"
  BY <1>1, <1>2 DEF Lifecycle, Applied
<1>3. ASSUME NEW p \in Pull, FetchList(p) PROVE IInv'
  BY <1>3, FetchedInv DEF FetchList
<1>4. ASSUME NEW p \in Pull, FetchGet(p) PROVE IInv'
  <2>1. Public("all_public") = Public("get")
    BY DEF Public
  <2>2. PICK j \in Public("all_public") : Fetched(p, "get", {j})
    BY <1>4 DEF FetchGet
  <2>3. {j} \in SUBSET Public("get")
    BY <2>1
  <2> QED
    BY <2>2, <2>3, FetchedInv
<1>5. ASSUME NEW p \in Pull, FetchFails(p) PROVE IInv'
  <2>1. TypeOK'
    BY <1>1, <1>5 DEF FetchFails, Tells, TypeOK, tables
  <2>2. pc[p] # "over" /\ pc'[p] = "over" /\ told'[p] = "error"
    BY <1>1, <1>5 DEF FetchFails, Tells, TypeOK
  <2> QED
    BY <1>1, <1>2, <1>5, <2>1, <2>2, QuietInv DEF FetchFails, Tells, TypeOK, tables, ScopeKept
<1>6. ASSUME NEW p \in Pull, Begin(p) PROVE IInv'
  <2>a. UNCHANGED <<site, changes, namespace, rows, history, clock, result>>
    BY <1>6 DEF Begin
  <2>b. /\ pc' \in [Pull -> {"idle", "fetched", "begun", "over"}]
        /\ told' \in [Pull -> {"nothing", "saved", "error"}]
    BY <1>1, <1>6 DEF Begin, Tells, TypeOK
  <2>c. audit' \in [Pull -> Audits]
    <3>1. \/ audit' = audit
          \/ audit' = [audit EXCEPT ![p] = [audit[p] EXCEPT !.status = "pending"]]
      BY <1>6 DEF Begin
    <3>2. audit \in [Pull -> Audits]
      BY <1>1 DEF TypeOK
    <3>3. [audit[p] EXCEPT !.status = "pending"] \in Audits
      BY <3>2 DEF Audits
    <3> QED
      BY <3>1, <3>2, <3>3
  <2>1. TypeOK'
    BY <1>1, <2>a, <2>b, <2>c DEF TypeOK
  <2>2. pc[p] = "fetched" /\ result[p] \in Results /\ result' = result
    BY <1>1, <1>6 DEF Begin, Lifecycle
  <2>3. audit'[p].status # "succeeded" /\ told'[p] # "saved"
    BY <1>1, <1>2, <1>6, <2>2 DEF Begin, Tells, TypeOK, Audits
  <2>4. \A q \in Pull \ {p} : /\ audit'[q] = audit[q] /\ result'[q] = result[q]
                            /\ pc'[q] = pc[q] /\ told'[q] = told[q]
    BY <1>1, <1>6 DEF Begin, Tells, TypeOK
  <2> QED
    BY <1>1, <1>6, <2>1, <2>2, <2>3, <2>4, QuietInv DEF Begin, ScopeKept
<1>7. ASSUME NEW p \in Pull, Apply(p) PROVE IInv'
  BY <1>7, ApplyInv
<1>8. ASSUME NEW p \in Pull, ApplyFails(p) PROVE IInv'
  <2>1. TypeOK'
    BY <1>1, <1>8 DEF ApplyFails, Tells, TypeOK, Audits
  <2>2. pc[p] = "begun" /\ pc'[p] = "over" /\ told'[p] = "error" /\ result' = result
    BY <1>1, <1>8 DEF ApplyFails, Tells, TypeOK
  <2>3. audit'[p].status # "succeeded"
    BY <1>1, <1>8 DEF ApplyFails, TypeOK, Audits
  <2>4. \A q \in Pull \ {p} : /\ audit'[q] = audit[q] /\ result'[q] = result[q]
                            /\ pc'[q] = pc[q] /\ told'[q] = told[q]
    BY <1>1, <1>8 DEF ApplyFails, Tells, TypeOK
  <2> QED
    BY <1>1, <1>8, <2>1, <2>2, <2>3, <2>4, QuietInv DEF ApplyFails, ScopeKept
<1>9. ASSUME NEW p \in Pull, Crash(p) PROVE IInv'
  <2>1. TypeOK'
    BY <1>1, <1>9 DEF Crash, TypeOK, tables
  <2>2. pc[p] # "over" /\ pc'[p] = "over"
    BY <1>1, <1>9 DEF Crash, TypeOK
  <2> QED
    BY <1>1, <1>2, <1>9, <2>1, <2>2, QuietInv DEF Crash, TypeOK, tables, ScopeKept
<1>10. ASSUME UNCHANGED <<tables, pc, result, told>>, TypeOK' PROVE IInv'
  <2>1. Applied' = Applied
    BY <1>10 DEF Applied, tables
  <2>2. Lifecycle' /\ ScopeKept' /\ Ordered'
    BY <1>1, <1>10, <2>1 DEF IInv, Lifecycle, ScopeKept, Ordered, tables
  <2>3. \A j \in Job : Recorded(j)' /\ Explained(j)' /\ Within(j)'
    BY <1>10, <2>1, QuietStep DEF IInv, tables
  <2> QED
    BY <1>10, <2>2, <2>3 DEF IInv
<1>11. ASSUME NEW j \in Job, Change(j) PROVE IInv'
  <2>1. changes' \in 0 .. MaxChanges
    BY <1>1, <1>11, PullAssumption DEF Change, TypeOK
  <2>2. site' \in [Job -> Postings \cup {Gone}]
    BY <1>1, <1>11 DEF Change, TypeOK
  <2>3. TypeOK'
    BY <1>1, <1>11, <2>1, <2>2 DEF Change, TypeOK, tables
  <2> QED
    BY <1>10, <1>11, <2>3 DEF Change
<1>12. CASE UNCHANGED vars
  <2>1. TypeOK'
    BY <1>1, <1>12 DEF vars, tables, TypeOK
  <2> QED
    BY <1>10, <1>12, <2>1 DEF vars
<1> QED
  BY <1>3, <1>4, <1>5, <1>6, <1>7, <1>8, <1>9, <1>11, <1>12 DEF Next, Step

\* The invariant holds in every reachable state.
LEMMA Invariance == Spec => []IInv
BY InitInv, NextInv, PTL DEF Spec

-----------------------------------------------------------------------------
(* The theorems.                                                           *)

\* The pulls a job was found by are all before the next commit.
LEMMA AllSightings ==
    ASSUME IInv, NEW j \in Job
    PROVE  /\ Sightings(j, clock + 1) = Finders(j)
           /\ \A t \in Nat : Finders(j) \ Sightings(j, t + 1) = {p \in Finders(j) : ~(audit[p].at <= t)}
<1>1. clock \in Nat /\ \A p \in Applied : audit[p].at \in 1 .. clock
  BY DEF IInv, TypeOK, Lifecycle, Applied
<1>2. \A p \in Applied : audit[p].at < clock + 1
  BY <1>1
<1>3. \A t \in Nat : \A p \in Applied : audit[p].at < t + 1 <=> audit[p].at <= t
  BY <1>1
<1> QED
  BY <1>2, <1>3 DEF Sightings, Finders

\* Pulls are applied as a whole or not at all, so that one that failed has left neither an
\* observation nor a job, and a caller that is told its pull is saved finds it applied (_apply_url_pull_list_atomic, _apply_url_pull_get_atomic).
THEOREM PullsAreWhole == Spec => []PullsWhole
<1>1. IInv => PullsWhole
  <2> SUFFICES ASSUME IInv, NEW p \in Pull, NEW j \in Job
               PROVE  /\ p \in Applied /\ result[p].scope \in Scopes
                           /\ j \in DOMAIN result[p].jobs =>
                         \E n \in DOMAIN history[j] :
                            Marks(j, p) = {n} /\ history[j][n].kind # "closed"
                      /\ Marks(j, p) # {} => p \in Applied /\ result[p].scope \in Scopes
                      /\ rows[j] # NoRow <=> Sightings(j, clock + 1) # {}
    BY DEF PullsWhole, AppliedWhole, IInv, Lifecycle
  <2>1. /\ \A n \in DOMAIN history[j] : Sound(j, history[j][n])
        /\ InOrder(history[j]) /\ Complete(j)
    BY DEF IInv, Recorded
  <2>2. \A n \in DOMAIN history[j] : n \in Nat /\ history[j][n].at \in Nat
    <3>1. history[j] \in Seq(Observations)
      BY DEF IInv, TypeOK
    <3>2. \A n \in DOMAIN history[j] : n \in Nat /\ history[j][n] \in Observations
      BY <3>1
    <3> QED
      BY <3>2 DEF Observations
  <2>3. \A m, n \in Marks(j, p) : m = n
    <3> SUFFICES ASSUME NEW m \in Marks(j, p), NEW n \in Marks(j, p), m < n PROVE FALSE
      BY <2>2 DEF Marks
    <3>1. history[j][m].at = history[j][n].at
      BY <2>1 DEF Marks, Sound
    <3> QED
      BY <2>1, <2>2, <3>1 DEF Marks, InOrder
  <2>4. ASSUME p \in Applied, result[p].scope \in Scopes, j \in DOMAIN result[p].jobs
        PROVE  \E n \in DOMAIN history[j] : Marks(j, p) = {n} /\ history[j][n].kind # "closed"
    <3>1. PICK n \in DOMAIN history[j] : history[j][n].pull = p
      BY <2>1, <2>4 DEF Complete, Finders
    <3>2. Marks(j, p) = {n}
      BY <2>3, <3>1 DEF Marks
    <3>3. history[j][n].kind # "closed"
      BY <2>1, <2>4, <3>1 DEF Sound
    <3> QED
      BY <3>2, <3>3
  <2>5. rows[j] # NoRow <=> Sightings(j, clock + 1) # {}
    BY AllSightings DEF IInv, Explained, LastFound
  <2> QED
    BY <2>1, <2>4, <2>5 DEF Marks, Sound
<1> QED
  BY <1>1, Invariance, PTL

\* A job is closed exactly when its last observation closed it and no applied get has
\* found it since, and it says what the pull that last had it found.
THEOREM HistoriesExplain == Spec => []HistoryExplains
<1>1. IInv => HistoryExplains
  <2> SUFFICES ASSUME IInv, NEW j \in Job,
                      NEW n, n = Len(history[j]),
                      NEW last, last = (IF n = 0 THEN 0 ELSE history[j][n].at),
                      NEW since, since = Sightings(j, clock + 1) \ Sightings(j, last + 1)
               PROVE  /\ (rows[j].status = "closed") <=>
                            (n > 0 /\ history[j][n].kind = "closed" /\ since = {})
                      /\ rows[j] # NoRow => \E p \in Sightings(j, clock + 1) :
                            /\ \A q \in Sightings(j, clock + 1) : audit[q].at <= audit[p].at
                            /\ rows[j].hash = result[p].jobs[j].hash
    BY DEF HistoryExplains
  <2>1. history[j] \in Seq(Observations)
    BY DEF IInv, TypeOK
  <2>2. n \in Nat /\ (n > 0 => n \in DOMAIN history[j])
    BY <2>1
  <2>3. n > 0 => history[j][n] \in Observations
    BY <2>1, <2>2
  <2>4. last \in Nat /\ (n > 0 => last = history[j][n].at)
    BY <2>2, <2>3 DEF Observations
  <2>5. Sightings(j, clock + 1) = Finders(j)
        /\ since = {p \in Finders(j) : ~(audit[p].at <= last)}
    BY <2>4, AllSightings
  <2>6. Explained(j)
    BY DEF IInv
  <2>7. n > 0 => (since = {} <=> \A p \in Finders(j) : audit[p].at <= history[j][n].at)
    BY <2>4, <2>5
  <2>8. LastClosed(j) <=> (n > 0 /\ history[j][n].kind = "closed" /\ since = {})
    BY <2>7 DEF LastClosed
  <2> QED
    BY <2>5, <2>6, <2>8 DEF Explained, LastFound
<1> QED
  BY <1>1, Invariance, PTL

\* A list of the listed postings closes only jobs that some pull had found listed
\* (_close_missing_jobs, _promoted_job_membership).
THEOREM ClosuresInScope == Spec => []ClosedWithinScope
<1>1. IInv => ClosedWithinScope
  <2> SUFFICES ASSUME IInv, NEW j \in Job, NEW n \in DOMAIN history[j],
                      history[j][n].kind = "closed",
                      result[history[j][n].pull].scope = "listed"
               PROVE  \E p \in Sightings(j, history[j][n].at) : result[p].jobs[j].kind = "listed"
    BY DEF ClosedWithinScope
  <2>1. Protected(j, history[j][n])
    BY DEF IInv, Within
  <2> QED
    BY <2>1 DEF Protected, Sightings, Finders
<1> QED
  BY <1>1, Invariance, PTL

\* When a list is applied, the open jobs in its scope are the ones it lists, and what it
\* neither lists nor covers is untouched (_close_missing_jobs).
THEOREM ScopesLeft == Spec => ListLeavesScope
<1>1. IInv /\ [Next]_vars => [\A p \in Pull : Leaves(p)]_vars
  <2> SUFFICES ASSUME IInv, Next, NEW p \in Pull,
                      audit[p].status = "pending", audit'[p].status = "succeeded",
                      result[p].scope \in Scopes
               PROVE  /\ DOMAIN result[p].jobs = {j \in Job : Covers(rows'[j], result[p].scope)}
                      /\ \A j \in Job \ DOMAIN result[p].jobs :
                            ~Covers(rows[j], result[p].scope) =>
                                rows'[j] = rows[j] /\ history'[j] = history[j]
    BY DEF Leaves
  <2>1. audit \in [Pull -> Audits]
    BY DEF IInv, TypeOK
  <2>2. Apply(p)
    <3>1. ~(audit' = audit)
      BY <2>1
    <3>2. PICK q \in Pull : Begin(q) \/ Apply(q) \/ ApplyFails(q)
      BY <3>1 DEF Next, Step, Change, FetchList, FetchGet, Fetched, FetchFails, Crash, tables
    <3>3. q = p
      BY <2>1, <3>2 DEF Begin, Apply, ApplyFails
    <3>4. ~Begin(p) /\ ~ApplyFails(p)
      BY <2>1 DEF Begin, ApplyFails, Audits
    <3> QED
      BY <3>2, <3>3, <3>4
  <2>3. ApplyList(p)
    BY <2>2 DEF Apply, ApplyGet, Scopes
  <2>4. result[p] \in Results /\ DOMAIN result[p].jobs \subseteq Job
        /\ \A j \in DOMAIN result[p].jobs : result[p].jobs[j] \in Postings
    BY <2>2, Committed, ResultType
  <2>5. ASSUME NEW j \in Job, j \in DOMAIN result[p].jobs
        PROVE  Covers(rows'[j], result[p].scope)
    <3>1. rows'[j] = Upserted(j, result[p].jobs[j])
      BY <2>3, <2>5 DEF ApplyList
    <3>2. result[p].scope = "listed" => result[p].jobs[j].kind = "listed"
      BY <2>5 DEF IInv, ScopeKept
    <3> QED
      BY <3>1, <3>2 DEF Upserted, Promoted, MembershipOf, Covers
  <2>6. ASSUME NEW j \in Job, j \notin DOMAIN result[p].jobs
        PROVE  /\ ~Covers(rows'[j], result[p].scope)
               /\ ~Covers(rows[j], result[p].scope) =>
                      rows'[j] = rows[j] /\ history'[j] = history[j]
    <3>1. CASE InScope(j, result[p].scope)
      <4>1. rows[j] \in Rows
        BY <3>1, RowType DEF IInv, InScope
      <4> QED
        BY <2>3, <2>6, <3>1, <4>1 DEF ApplyList, Rows, Covers, InScope
    <3>2. CASE ~InScope(j, result[p].scope)
      <4>1. rows'[j] = rows[j] /\ history'[j] = history[j]
        BY <2>3, <2>6, <3>2 DEF ApplyList
      <4> QED
        BY <3>2, <4>1 DEF InScope, Covers
    <3> QED
      BY <3>1, <3>2
  <2> QED
    BY <2>4, <2>5, <2>6
<1> QED
  BY <1>1, Invariance, PTL DEF Spec, ListLeavesScope
=============================================================================
