-------------------------- MODULE SourceSyncProofs --------------------------
(***************************************************************************)
(* What TLAPS proves of SourceSync, for any sources, boards and listings:  *)
(* the tables are consistent (TablesConsistent), what is fresh is complete *)
(* (FreshIsComplete), and routes are only deleted at the end of a listing  *)
(* that has others (DeletedWhenUnlisted).                                  *)
(***************************************************************************)
EXTENDS SourceSync, FiniteSetTheorems, WellFoundedInduction, TLAPS

(***************************************************************************)
(* Folds.  FoldLeft works on the sets of the indices of a sequence; it is  *)
(* shown to exist, and to go from each prefix of the sequence to the next. *)
(***************************************************************************)

\* What holds at 0, and of each next number, holds up to n: else there is a smallest
\* number of which it does not.
LEMMA Upwards ==
    ASSUME NEW n \in Nat, NEW S, 0 \in S, \A i \in 1 .. n : i - 1 \in S => i \in S
    PROVE  \A i \in 0 .. n : i \in S
<1> DEFINE Lacking == {i \in Nat : i <= n /\ i \notin S}
<1> SUFFICES ASSUME Lacking # {} PROVE FALSE
  OBVIOUS
<1>1. Lacking \subseteq Nat
  OBVIOUS
<1>2. PICK i \in Lacking : \A k \in Lacking : ~(<<k, i>> \in OpToRel(<, Nat))
  <2> HIDE DEF Lacking
  <2> QED
    BY <1>1, WFMin, NatLessThanWellFounded
<1>3. \A k \in Lacking : ~(k < i)
  BY <1>2 DEF OpToRel
<1>4. i # 0 /\ i \in 1 .. n /\ i - 1 \in Nat
  OBVIOUS
<1>5. i - 1 \notin Lacking
  <2>1. i - 1 < i
    BY <1>4
  <2> HIDE DEF Lacking
  <2> QED
    BY <1>3, <2>1
<1>6. i - 1 \in S
  BY <1>4, <1>5
<1> QED
  BY <1>4, <1>6

\* The last of a set of indices is one of them.
LEMMA LastIndex ==
    ASSUME NEW n \in Nat, NEW s, s \subseteq 1 .. n, s # {}
    PROVE  Max(s) \in s /\ \A i \in s : i <= Max(s)
<1> DEFINE T == {k \in 0 .. n : \E i \in s : i >= n - k}
           Far == {k \in Nat : k < n /\ \E i \in s : i = n - k}
<1>1. Far # {}
  <2>1. PICK i \in s : TRUE
    OBVIOUS
  <2>2. n - i \in Far
    BY <2>1
  <2> QED
    BY <2>2
<1>2. Far \subseteq Nat
  OBVIOUS
<1>3. PICK k \in Far : \A j \in Far : ~(<<j, k>> \in OpToRel(<, Nat))
  <2> HIDE DEF Far
  <2> QED
    BY <1>1, <1>2, WFMin, NatLessThanWellFounded
<1>4. \A j \in Far : ~(j < k)
  BY <1>2, <1>3 DEF OpToRel
<1>5. n - k \in s
  OBVIOUS
<1>6. ASSUME NEW i \in s PROVE n - k >= i
  <2>1. n - i \in Far
    OBVIOUS
  <2>2. ~(n - i < k)
    <3> HIDE DEF Far
    <3> QED
      BY <1>4, <2>1
  <2> QED
    BY <2>2
<1>7. \E x \in s : \A y \in s : x >= y
  BY <1>5, <1>6
<1>8. /\ Max(s) \in s
      /\ \A y \in s : Max(s) >= y
  BY <1>7 DEF Max
<1> QED
  BY <1>8

\* On the sets D of indices, g folds the step F from base.
IsFold(g, D, T, base, F) ==
    /\ g \in [D -> T]
    /\ \A s \in D : g[s] = IF s = {} THEN base ELSE F[<<g[s \ {Max(s)}], Max(s)>>]

\* A fold over the sets of indices exists: over those of at most k, for every k.
LEMMA FoldExists ==
    ASSUME NEW n \in Nat, NEW T, NEW base \in T, NEW F \in [T \X (1 .. n) -> T]
    PROVE  \E g : IsFold(g, SUBSET (1 .. n), T, base, F)
<1> USE DEF IsFold
<1> DEFINE Upto(k) == {s \in SUBSET (1 .. n) : \A i \in s : i <= k}
           S == {k \in Nat : \E g : IsFold(g, Upto(k), T, base, F)}
<1>1. 0 \in S
  <2>1. \A s \in Upto(0) : s = {}
    OBVIOUS
  <2>2. IsFold([s \in Upto(0) |-> base], Upto(0), T, base, F)
    BY <2>1
  <2> QED
    BY <2>2
<1>2. ASSUME NEW k \in 1 .. n, k - 1 \in S PROVE k \in S
  <2>1. PICK g : IsFold(g, Upto(k - 1), T, base, F)
    BY <1>2
  <2>2. ASSUME NEW s \in Upto(k), s # {}
        PROVE  /\ Max(s) \in 1 .. n /\ s \ {Max(s)} \in Upto(k - 1)
               /\ s \ {Max(s)} \in Upto(k)
    <3>1. Max(s) \in s /\ \A i \in s : i <= Max(s)
      BY <2>2, LastIndex
    <3>2. ASSUME NEW i \in s \ {Max(s)} PROVE i <= k - 1
      <4>1. i \in s /\ i # Max(s) /\ i \in 1 .. n /\ Max(s) \in 1 .. n
        BY <3>1
      <4>2. i <= Max(s) /\ Max(s) <= k
        BY <3>1
      <4> QED
        BY <4>1, <4>2
    <3> QED
      BY <3>1, <3>2
  <2> DEFINE h == [s \in Upto(k) |-> IF s = {} THEN base ELSE F[<<g[s \ {Max(s)}], Max(s)>>]]
  <2>3. ASSUME NEW s \in Upto(k) PROVE h[s] \in T
    <3>1. CASE s = {}
      BY <3>1
    <3>2. CASE s # {}
      <4>1. g[s \ {Max(s)}] \in T /\ Max(s) \in 1 .. n
        BY <2>1, <2>2, <3>2
      <4> QED
        BY <3>2, <4>1
    <3> QED
      BY <3>1, <3>2
  <2>4. ASSUME NEW s \in Upto(k - 1) PROVE s \in Upto(k) /\ h[s] = g[s]
    <3>1. s \in Upto(k)
      OBVIOUS
    <3>2. g[s] = IF s = {} THEN base ELSE F[<<g[s \ {Max(s)}], Max(s)>>]
      BY <2>1
    <3> QED
      BY <3>1, <3>2
  <2>5. ASSUME NEW s \in Upto(k)
        PROVE  h[s] = IF s = {} THEN base ELSE F[<<h[s \ {Max(s)}], Max(s)>>]
    <3>1. CASE s = {}
      BY <3>1
    <3>2. CASE s # {}
      <4>1. h[s \ {Max(s)}] = g[s \ {Max(s)}]
        BY <2>2, <2>4, <3>2
      <4>2. h[s] = F[<<g[s \ {Max(s)}], Max(s)>>]
        BY <3>2
      <4> HIDE DEF h
      <4> QED
        BY <3>2, <4>1, <4>2
    <3> QED
      BY <3>1, <3>2
  <2>6. h \in [Upto(k) -> T]
    BY <2>3
  <2> HIDE DEF h
  <2>7. IsFold(h, Upto(k), T, base, F)
    BY <2>5, <2>6
  <2>8. k \in Nat
    OBVIOUS
  <2> HIDE DEF IsFold
  <2> QED
    BY <2>7, <2>8
<1>3. n \in S
  <2> HIDE DEF S
  <2>1. \A i \in 0 .. n : i \in S
    BY <1>1, <1>2, Upwards
  <2> QED
    BY <2>1
<1>4. PICK g : IsFold(g, Upto(n), T, base, F)
  BY <1>3
<1>5. Upto(n) = SUBSET (1 .. n)
  OBVIOUS
<1> QED
  BY <1>4, <1>5

(***************************************************************************)
(* The merge of boards.                                                    *)
(***************************************************************************)

BoardTables == UNION {[B -> Rows] : B \in SUBSET Boards}

LEMMA BoardTable == ASSUME NEW t PROVE IsBoardTable(t) <=> t \in BoardTables
BY DEF IsBoardTable, BoardTables

UniqueDomains(t) ==
    \A a, b \in DOMAIN t : t[a].domain = t[b].domain => a = b \/ t[a].domain = NoDomain

\* What a table keeps when boards are merged into it: its rows, their domains and
\* the sources that gave them a key.
Grows(t, u) ==
    /\ DOMAIN t \subseteq DOMAIN u
    /\ \A a \in DOMAIN t : t[a].domain # NoDomain => u[a].domain = t[a].domain
    /\ \A a \in DOMAIN t : DOMAIN t[a].emitted \subseteq DOMAIN u[a].emitted

LEMMA GrowsOn ==
    ASSUME NEW t, NEW u, NEW v, Grows(t, u), Grows(u, v)
    PROVE  Grows(t, v)
BY DEF Grows

LEMMA GrowsNot == ASSUME NEW t PROVE Grows(t, t)
BY DEF Grows

LEMMA HostsOn ==
    ASSUME NEW t, NEW u, NEW b, NEW e, Grows(t, u), Hosts(t, b, e)
    PROVE  Hosts(u, b, e)
BY DEF Grows, Hosts, SameDomain

LEMMA TargetIs ==
    ASSUME NEW t, IsBoardTable(t), NEW e \in Entries
    PROVE  /\ Target(t, e) \in Boards
           /\ Hosts(t, Target(t, e), e)
           /\ SameDomain(t, e) = {} => Target(t, e) = e.board
           /\ SameDomain(t, e) # {} => Target(t, e) \in SameDomain(t, e)
<1>1. e.board \in Boards /\ SameDomain(t, e) \subseteq Boards
  BY DEF Entries, SameDomain, IsBoardTable
<1>2. SameDomain(t, e) # {} => Target(t, e) \in SameDomain(t, e)
  BY DEF Target
<1>3. SameDomain(t, e) = {} => Target(t, e) = e.board
  BY DEF Target
<1> QED
  BY <1>1, <1>2, <1>3 DEF Hosts

\* From t to u, the row b takes in the entry e of s, and the other rows stay.
TakesIn(t, u, b, s, e) ==
    /\ IsBoardTable(u) /\ DOMAIN u = DOMAIN t \cup {b}
    /\ \A a \in DOMAIN t \ {b} : u[a] = t[a]
    /\ s \in DOMAIN u[b].emitted /\ u[b].emitted[s] = e.board
    /\ b \in DOMAIN t => DOMAIN t[b].emitted \subseteq DOMAIN u[b].emitted
    /\ u[b].domain = IF b \in DOMAIN t /\ t[b].domain # NoDomain THEN t[b].domain
                     ELSE e.domain

\* A board is merged into its target.
LEMMA Merged ==
    ASSUME NEW t, IsBoardTable(t), NEW s \in Sources, NEW e \in Entries
    PROVE  TakesIn(t, MergeBoard(t, s, e), Target(t, e), s, e)
<1> DEFINE b == Target(t, e)
           u == MergeBoard(t, s, e)
           first == [domain |-> e.domain, emitted |-> [q \in {s} |-> e.board]]
           next == [domain |-> IF t[b].domain = NoDomain THEN e.domain ELSE t[b].domain,
                    emitted |-> With(t[b].emitted, s, e.board)]
           row == IF b \notin DOMAIN t THEN first ELSE next
<1>1. b \in Boards /\ e.board \in Boards /\ e.domain \in Domains \cup {NoDomain}
  BY TargetIs DEF Entries
<1>2. u = With(t, b, row)
  BY DEF MergeBoard
<1>3. DOMAIN u = DOMAIN t \cup {b} /\ u[b] = row /\ \A a \in DOMAIN t \ {b} : u[a] = t[a]
  <2> HIDE DEF b, row, u
  <2> QED
    BY <1>2 DEF With
<1>4. first \in Rows /\ s \in DOMAIN first.emitted /\ first.emitted[s] = e.board
  <2>1. [q \in {s} |-> e.board] \in [{s} -> Boards]
    BY <1>1
  <2>2. [q \in {s} |-> e.board] \in UNION {[S -> Boards] : S \in SUBSET Sources}
    BY <2>1
  <2>3. DOMAIN [q \in {s} |-> e.board] = {s} /\ [q \in {s} |-> e.board][s] = e.board
    OBVIOUS
  <2> QED
    BY <1>1, <2>2, <2>3 DEF Rows
<1>5. ASSUME b \in DOMAIN t
      PROVE  /\ next \in Rows /\ s \in DOMAIN next.emitted /\ next.emitted[s] = e.board
             /\ DOMAIN t[b].emitted \subseteq DOMAIN next.emitted
  <2> DEFINE old == t[b].emitted
             new == With(old, s, e.board)
  <2>1. t[b] \in Rows
    BY <1>5 DEF IsBoardTable
  <2>2. PICK S \in SUBSET Sources : old \in [S -> Boards]
    BY <2>1 DEF Rows
  <2>3. new \in [S \cup {s} -> Boards] /\ new[s] = e.board
    <3> HIDE DEF old
    <3> QED
      BY <1>1, <2>2 DEF With
  <2>4. new \in UNION {[R -> Boards] : R \in SUBSET Sources}
    <3> HIDE DEF new
    <3>1. S \cup {s} \in SUBSET Sources
      OBVIOUS
    <3> QED
      BY <2>3, <3>1
  <2>5. next.domain \in Domains \cup {NoDomain} /\ next.emitted = new
    BY <1>1, <2>1 DEF Rows
  <2>6. next \in Rows
    <3>1. next = [domain |-> next.domain, emitted |-> new]
      OBVIOUS
    <3> HIDE DEF next, new
    <3> QED
      BY <2>4, <2>5, <3>1 DEF Rows
  <2>7. DOMAIN old = S /\ DOMAIN new = S \cup {s}
    <3> HIDE DEF old, new
    <3> QED
      BY <2>2, <2>3
  <2> QED
    BY <2>3, <2>5, <2>6, <2>7
<1>6. row \in Rows
  BY <1>4, <1>5
<1>7. IsBoardTable(u)
  <2>1. \A a \in DOMAIN t : t[a] \in Rows
    BY DEF IsBoardTable
  <2>2. \A a \in DOMAIN u : u[a] \in Rows
    <3> HIDE DEF u, b, row
    <3> QED
      BY <1>3, <1>6, <2>1
  <2>3. u = [a \in DOMAIN u |-> u[a]]
    <3> HIDE DEF u, b, row
    <3> QED
      BY <1>2 DEF With
  <2>4. DOMAIN u \subseteq Boards
    <3>1. DOMAIN t \subseteq Boards
      BY DEF IsBoardTable
    <3> HIDE DEF u, b
    <3> QED
      BY <1>1, <1>3, <3>1
  <2> HIDE DEF u
  <2>5. u \in [DOMAIN u -> Rows]
    BY <2>2, <2>3
  <2> QED
    BY <2>4, <2>5 DEF IsBoardTable
<1>8. s \in DOMAIN row.emitted /\ row.emitted[s] = e.board
  BY <1>4, <1>5
<1>9. b \in DOMAIN t => DOMAIN t[b].emitted \subseteq DOMAIN row.emitted
  BY <1>5
<1>10. row.domain = IF b \in DOMAIN t /\ t[b].domain # NoDomain THEN t[b].domain ELSE e.domain
  OBVIOUS
<1> HIDE DEF u, b, row
<1>11. TakesIn(t, u, b, s, e)
  BY <1>3, <1>7, <1>8, <1>9, <1>10 DEF TakesIn
<1> QED
  BY <1>11 DEF u, b

\* So the table grows, its domains stay unique, and the target hosts the entry.
LEMMA MergeGrows ==
    ASSUME NEW t, IsBoardTable(t), NEW s \in Sources, NEW e \in Entries
    PROVE  LET b == Target(t, e)  u == MergeBoard(t, s, e) IN
           Grows(t, u) /\ Hosts(u, b, e) /\ (UniqueDomains(t) => UniqueDomains(u))
<1> DEFINE b == Target(t, e)
           u == MergeBoard(t, s, e)
<1>1. /\ IsBoardTable(u) /\ DOMAIN u = DOMAIN t \cup {b}
      /\ \A a \in DOMAIN t \ {b} : u[a] = t[a]
      /\ b \in DOMAIN t => DOMAIN t[b].emitted \subseteq DOMAIN u[b].emitted
      /\ u[b].domain = IF b \in DOMAIN t /\ t[b].domain # NoDomain THEN t[b].domain
                       ELSE e.domain
  <2>1. TakesIn(t, u, b, s, e)
    BY Merged
  <2> HIDE DEF b, u
  <2> QED
    BY <2>1 DEF TakesIn
<1>2. /\ Hosts(t, b, e)
      /\ SameDomain(t, e) = {} => b = e.board
      /\ SameDomain(t, e) # {} => b \in SameDomain(t, e)
  BY TargetIs
<1> HIDE DEF b, u
<1>3. Grows(t, u)
  BY <1>1 DEF Grows
<1>4. Hosts(u, b, e)
  BY <1>2, <1>3, HostsOn
<1>5. ASSUME UniqueDomains(t) PROVE UniqueDomains(u)
  <2> SUFFICES ASSUME NEW a \in DOMAIN u, NEW c \in DOMAIN u, a # c,
                      u[a].domain = u[c].domain, u[a].domain # NoDomain
               PROVE  FALSE
    BY DEF UniqueDomains
  <2>1. ASSUME NEW x \in DOMAIN t, x # b, u[x].domain = u[b].domain, u[x].domain # NoDomain
        PROVE  FALSE
    <3>1. t[x].domain = u[b].domain /\ t[x].domain # NoDomain
      BY <1>1, <2>1
    <3>2. CASE b \in DOMAIN t /\ t[b].domain # NoDomain
      BY <1>1, <1>5, <2>1, <3>1, <3>2 DEF UniqueDomains
    <3>3. CASE ~(b \in DOMAIN t /\ t[b].domain # NoDomain)
      <4>1. x \in SameDomain(t, e)
        BY <1>1, <3>1, <3>3 DEF SameDomain
      <4>2. b \in SameDomain(t, e)
        BY <1>2, <4>1
      <4> QED
        BY <3>1, <3>3, <4>1, <4>2 DEF SameDomain
    <3> QED
      BY <3>2, <3>3
  <2>2. CASE a = b
    BY <1>1, <2>1, <2>2
  <2>3. CASE c = b
    BY <1>1, <2>1, <2>3
  <2>4. CASE a # b /\ c # b
    BY <1>1, <1>5, <2>4 DEF UniqueDomains
  <2> QED
    BY <2>2, <2>3, <2>4
<1> QED
  BY <1>3, <1>4, <1>5 DEF b, u

\* The boards of a page are merged one after another.
LEMMA BoardSteps ==
    ASSUME NEW t, IsBoardTable(t), NEW s \in Sources, NEW entries \in Seq(Entries)
    PROVE  \E h \in [0 .. Len(entries) -> BoardTables] :
              /\ h[0] = t /\ MergeBoards(t, s, entries) = h[Len(entries)]
              /\ \A i \in 1 .. Len(entries) : h[i] = MergeBoard(h[i - 1], s, entries[i])
<1> DEFINE n == Len(entries)
           D == SUBSET (1 .. n)
           IsIter(g) == g = [x \in D |-> IF x = {} THEN t
                                          ELSE MergeBoard(g[x \ {Max(x)}], s, entries[Max(x)])]
           F == [ti \in BoardTables \X (1 .. n) |-> MergeBoard(ti[1], s, entries[ti[2]])]
<1>0. n \in Nat /\ DOMAIN entries = 1 .. n /\ \A i \in 1 .. n : entries[i] \in Entries
  OBVIOUS
<1>1. F \in [BoardTables \X (1 .. n) -> BoardTables]
  <2>1. ASSUME NEW u \in BoardTables, NEW i \in 1 .. n
        PROVE  MergeBoard(u, s, entries[i]) \in BoardTables
    BY <1>0, BoardTable, Merged DEF TakesIn
  <2> QED
    BY <2>1
<1>2. t \in BoardTables
  BY BoardTable
<1>3. PICK g : IsFold(g, D, BoardTables, t, F)
  <2> HIDE DEF F
  <2> QED
    BY <1>0, <1>1, <1>2, FoldExists
<1>4. IsIter(g)
  <2>1. ASSUME NEW x \in D
        PROVE  g[x] = IF x = {} THEN t ELSE MergeBoard(g[x \ {Max(x)}], s, entries[Max(x)])
    <3>1. CASE x = {}
      BY <1>3, <3>1 DEF IsFold
    <3>2. CASE x # {}
      <4>1. Max(x) \in 1 .. n /\ x \ {Max(x)} \in D
        BY <1>0, <3>2, LastIndex
      <4>2. <<g[x \ {Max(x)}], Max(x)>> \in BoardTables \X (1 .. n)
        BY <1>3, <4>1 DEF IsFold
      <4>3. F[<<g[x \ {Max(x)}], Max(x)>>] = MergeBoard(g[x \ {Max(x)}], s, entries[Max(x)])
        BY <4>2
      <4> HIDE DEF F
      <4> QED
        BY <1>3, <3>2, <4>3 DEF IsFold
    <3> QED
      BY <3>1, <3>2
  <2> QED
    BY <1>3, <2>1 DEF IsFold
<1> DEFINE iter == CHOOSE f : IsIter(f)
<1>5. IsIter(iter)
  BY <1>4
<1>6. MergeBoards(t, s, entries) = iter[1 .. n]
  BY <1>0 DEF MergeBoards, FoldLeft, MapThenFoldSet
<1> DEFINE h == [i \in 0 .. n |-> iter[1 .. i]]
<1>7. h[0] = t
  <2>1. 1 .. 0 = {} /\ {} \in D
    OBVIOUS
  <2>2. iter[{}] = t
    <3> HIDE DEF iter
    <3> QED
      BY <1>5, <2>1
  <2> HIDE DEF iter
  <2> QED
    BY <1>0, <2>1, <2>2
<1>8. ASSUME NEW i \in 1 .. n PROVE h[i] = MergeBoard(h[i - 1], s, entries[i])
  <2>1. 1 .. i \in D /\ 1 .. i # {} /\ i - 1 \in 0 .. n /\ i \in 0 .. n
    <3>1. n \in Nat /\ i \in 1 .. n
      BY <1>0
    <3> HIDE DEF n
    <3>2. i - 1 \in 0 .. n /\ i \in 0 .. n
      BY <3>1
    <3>3. 1 .. i \subseteq 1 .. n /\ i \in 1 .. i
      BY <3>1
    <3> QED
      BY <3>2, <3>3
  <2>2. Max(1 .. i) \in 1 .. i /\ \A j \in 1 .. i : j <= Max(1 .. i)
    BY <1>0, <2>1, LastIndex
  <2>3. Max(1 .. i) = i
    BY <2>2
  <2>4. (1 .. i) \ {i} = 1 .. (i - 1)
    OBVIOUS
  <2>5. iter[1 .. i] = MergeBoard(iter[(1 .. i) \ {Max(1 .. i)}], s, entries[Max(1 .. i)])
    <3> HIDE DEF iter
    <3> QED
      BY <1>5, <2>1
  <2> HIDE DEF iter
  <2> QED
    BY <2>1, <2>3, <2>4, <2>5
<1>9. \A i \in 0 .. n : i \in {j \in 0 .. n : h[j] \in BoardTables}
  <2> DEFINE S == {j \in 0 .. n : h[j] \in BoardTables}
  <2> HIDE DEF h
  <2>1. 0 \in S
    BY <1>0, <1>2, <1>7
  <2>2. ASSUME NEW i \in 1 .. n, i - 1 \in S PROVE i \in S
    <3>1. h[i - 1] \in BoardTables
      BY <2>2
    <3>2. MergeBoard(h[i - 1], s, entries[i]) \in BoardTables
      BY <1>0, <3>1, BoardTable, Merged DEF TakesIn
    <3> QED
      BY <1>8, <3>2
  <2> HIDE DEF S
  <2>3. \A i \in 0 .. n : i \in S
    BY <1>0, <2>1, <2>2, Upwards
  <2> QED
    BY <2>3 DEF S
<1>10. h \in [0 .. n -> BoardTables] /\ MergeBoards(t, s, entries) = h[n]
  <2>1. h[n] = iter[1 .. n] /\ DOMAIN h = 0 .. n /\ h = [i \in 0 .. n |-> h[i]]
    BY <1>0
  <2> HIDE DEF h, iter
  <2> QED
    BY <1>6, <1>9, <2>1
<1> HIDE DEF h
<1> QED
  BY <1>7, <1>8, <1>10

\* The row b has a key from s now: that of an entry on the page, which it hosts.
Carries(u, s, entries, b) ==
    /\ b \in DOMAIN u /\ s \in DOMAIN u[b].emitted
    /\ \E k \in DOMAIN entries : u[b].emitted[s] = entries[k].board /\ Hosts(u, b, entries[k])

\* When a page is merged, each of its entries has its target, and its target has
\* an entry of the page: also when a later one gave it another key.
LEMMA BoardsMerged ==
    ASSUME NEW t, IsBoardTable(t), UniqueDomains(t), NEW s \in Sources,
           NEW entries \in Seq(Entries)
    PROVE  LET u == MergeBoards(t, s, entries) IN
           /\ IsBoardTable(u) /\ UniqueDomains(u) /\ Grows(t, u)
           /\ \A i \in DOMAIN entries : Carries(u, s, entries, Target(u, entries[i]))
<1> DEFINE n == Len(entries)
<1>0. n \in Nat /\ DOMAIN entries = 1 .. n /\ \A i \in 1 .. n : entries[i] \in Entries
  OBVIOUS
<1>1. PICK h \in [0 .. n -> BoardTables] :
         /\ h[0] = t /\ MergeBoards(t, s, entries) = h[n]
         /\ \A i \in 1 .. n : h[i] = MergeBoard(h[i - 1], s, entries[i])
  BY BoardSteps
<1> DEFINE Good(i) ==
             /\ IsBoardTable(h[i]) /\ UniqueDomains(h[i]) /\ Grows(t, h[i])
             /\ \A j \in 1 .. i : Carries(h[i], s, entries, Target(h[i], entries[j]))
           S == {i \in 0 .. n : Good(i)}
<1>2. 0 \in S
  BY <1>0, <1>1, GrowsNot
<1>3. ASSUME NEW i \in 1 .. n, i - 1 \in S PROVE i \in S
  <2> DEFINE before == h[i - 1]
             after == h[i]
             e == entries[i]
             b == Target(before, e)
  <2>1. e \in Entries /\ after = MergeBoard(before, s, e) /\ i - 1 \in 0 .. n
    BY <1>0, <1>1
  <2>2. /\ IsBoardTable(before) /\ UniqueDomains(before) /\ Grows(t, before)
        /\ \A j \in 1 .. (i - 1) : Carries(before, s, entries, Target(before, entries[j]))
    BY <1>3
  <2>3. /\ IsBoardTable(after) /\ DOMAIN after = DOMAIN before \cup {b}
        /\ \A a \in DOMAIN before \ {b} : after[a] = before[a]
        /\ s \in DOMAIN after[b].emitted /\ after[b].emitted[s] = e.board
    <3>1. TakesIn(before, MergeBoard(before, s, e), b, s, e)
      <4> HIDE DEF before, after, e
      <4> QED
        BY <2>1, <2>2, Merged
    <3> HIDE DEF before, after, e, b
    <3> QED
      BY <2>1, <3>1 DEF TakesIn
  <2>4. Grows(before, after) /\ Hosts(after, b, e) /\ UniqueDomains(after)
    <3> HIDE DEF before, after, e
    <3> QED
      BY <2>1, <2>2, MergeGrows
  <2>5. Grows(t, after)
    <3> HIDE DEF before, after
    <3> QED
      BY <2>2, <2>4, GrowsOn
  <2>6. Carries(after, s, entries, b)
    <3>1. i \in DOMAIN entries
      BY <1>0
    <3> HIDE DEF before, after, b
    <3> QED
      BY <2>3, <2>4, <3>1 DEF Carries
  <2>7. ASSUME NEW j \in 1 .. i PROVE Carries(after, s, entries, Target(after, entries[j]))
    <3> DEFINE f == entries[j]
               c == Target(after, f)
    <3>1. f \in Entries
      BY <1>0
    <3>2. CASE c = b
      BY <2>6, <3>2
    <3>3. CASE c # b
      <4>1. c = Target(before, f)
        <5>1. CASE SameDomain(after, f) = {}
          <6>1. SameDomain(before, f) = {}
            <7> HIDE DEF before, after, f
            <7> QED
              BY <2>4, <5>1 DEF Grows, SameDomain
          <6> HIDE DEF before, after, f
          <6> QED
            BY <5>1, <6>1 DEF Target
        <5>2. CASE SameDomain(after, f) # {}
          <6>1. c \in SameDomain(after, f)
            <7> HIDE DEF after, f
            <7> QED
              BY <2>3, <3>1, <5>2, TargetIs
          <6>2. c \in SameDomain(before, f)
            <7> HIDE DEF before, after, f, b, c
            <7> QED
              BY <2>3, <3>3, <6>1 DEF SameDomain
          <6>3. Target(before, f) \in SameDomain(before, f)
            <7> HIDE DEF before, f
            <7> QED
              BY <2>2, <3>1, <6>2, TargetIs
          <6> HIDE DEF before, f, c
          <6> QED
            BY <2>2, <6>2, <6>3 DEF SameDomain, UniqueDomains
        <5> QED
          BY <5>1, <5>2
      <4>2. j # i
        BY <3>3, <4>1
      <4>3. Carries(before, s, entries, c)
        BY <2>2, <4>1, <4>2
      <4> HIDE DEF before, after, c, b
      <4>4. c \in DOMAIN before /\ after[c] = before[c]
        BY <2>3, <3>3, <4>3 DEF Carries
      <4> QED
        BY <2>3, <2>4, <4>3, <4>4, HostsOn DEF Carries
    <3> QED
      BY <3>2, <3>3
  <2> QED
    BY <2>3, <2>4, <2>5, <2>7
<1>4. Good(n)
  <2> HIDE DEF Good
  <2> HIDE DEF S
  <2>1. \A i \in 0 .. n : i \in S
    BY <1>0, <1>2, <1>3, Upwards
  <2>2. n \in S
    BY <1>0, <2>1
  <2> QED
    BY <2>2 DEF S
<1> QED
  BY <1>0, <1>1, <1>4

(***************************************************************************)
(* The aliases of a page, and the merge of its routes.                     *)
(***************************************************************************)

AliasTables == UNION {[K -> Boards] : K \in SUBSET Boards}

LEMMA NoAliases == <<>> \in AliasTables
<1>1. <<>> \in [{} -> Boards]
  OBVIOUS
<1> QED
  BY <1>1 DEF AliasTables

\* From a to c, the keys k and l are added, for the row b.
Names(a, c, k, l, b) ==
    /\ DOMAIN c = DOMAIN a \cup {k, l}
    /\ \A x \in DOMAIN c : c[x] = IF x \in {k, l} THEN b ELSE a[x]

LEMMA WithBoth ==
    ASSUME NEW a \in AliasTables, NEW k \in Boards, NEW l \in Boards, NEW b \in Boards
    PROVE  LET c == With(With(a, k, b), l, b) IN c \in AliasTables /\ Names(a, c, k, l, b)
<1> DEFINE c == With(With(a, k, b), l, b)
<1>1. PICK K \in SUBSET Boards : a \in [K -> Boards]
  BY DEF AliasTables
<1>2. With(a, k, b) \in [K \cup {k} -> Boards]
  BY <1>1 DEF With
<1>3. c \in [K \cup {k} \cup {l} -> Boards]
  BY <1>2 DEF With
<1>4. K \cup {k} \cup {l} \in SUBSET Boards
  OBVIOUS
<1>5. c \in AliasTables
  <2> HIDE DEF c
  <2> QED
    BY <1>3, <1>4 DEF AliasTables
<1>6. Names(a, c, k, l, b)
  BY <1>1 DEF With, Names
<1> QED
  BY <1>5, <1>6

LEMMA AliasAdded ==
    ASSUME NEW u, IsBoardTable(u), NEW s \in Sources, NEW entries \in Seq(Entries),
           NEW i \in DOMAIN entries, Carries(u, s, entries, Target(u, entries[i])),
           NEW a \in AliasTables
    PROVE  LET b == Target(u, entries[i]) IN
           /\ AddAlias(a, u, s, entries[i]) \in AliasTables
           /\ Names(a, AddAlias(a, u, s, entries[i]), u[b].emitted[s], entries[i].board, b)
<1> DEFINE b == Target(u, entries[i])
           k == u[b].emitted[s]
<1>1. ASSUME NEW j \in DOMAIN entries PROVE entries[j] \in Entries /\ entries[j].board \in Boards
  <2>1. entries[j] \in Entries
    OBVIOUS
  <2> QED
    BY <2>1 DEF Entries
<1>2. b \in Boards
  BY <1>1, TargetIs
<1>3. k \in Boards
  <2>1. PICK j \in DOMAIN entries : k = entries[j].board
    BY DEF Carries
  <2> HIDE DEF k
  <2> QED
    BY <1>1, <2>1
<1> HIDE DEF b, k
<1>4. LET c == With(With(a, k, b), entries[i].board, b) IN
      c \in AliasTables /\ Names(a, c, k, entries[i].board, b)
  BY <1>1, <1>2, <1>3, WithBoth
<1>5. AddAlias(a, u, s, entries[i]) = With(With(a, k, b), entries[i].board, b)
  BY DEF AddAlias, b, k
<1> QED
  BY <1>4, <1>5 DEF b, k

\* So are the aliases of a page found.
LEMMA AliasSteps ==
    ASSUME NEW u, IsBoardTable(u), NEW s \in Sources, NEW entries \in Seq(Entries),
           \A i \in DOMAIN entries : Carries(u, s, entries, Target(u, entries[i]))
    PROVE  \E h \in [0 .. Len(entries) -> AliasTables] :
              /\ h[0] = <<>> /\ Aliases(u, s, entries) = h[Len(entries)]
              /\ \A i \in 1 .. Len(entries) : h[i] = AddAlias(h[i - 1], u, s, entries[i])
<1> DEFINE n == Len(entries)
           D == SUBSET (1 .. n)
           IsIter(g) == g = [x \in D |-> IF x = {} THEN <<>>
                                          ELSE AddAlias(g[x \ {Max(x)}], u, s, entries[Max(x)])]
           F == [ti \in AliasTables \X (1 .. n) |-> AddAlias(ti[1], u, s, entries[ti[2]])]
<1>0. n \in Nat /\ DOMAIN entries = 1 .. n /\ \A i \in 1 .. n : entries[i] \in Entries
  OBVIOUS
<1>1. F \in [AliasTables \X (1 .. n) -> AliasTables]
  <2>1. ASSUME NEW a \in AliasTables, NEW i \in 1 .. n
        PROVE  AddAlias(a, u, s, entries[i]) \in AliasTables
    BY <1>0, AliasAdded
  <2> QED
    BY <2>1
<1>2. <<>> \in AliasTables
  BY NoAliases
<1>3. PICK g : IsFold(g, D, AliasTables, <<>>, F)
  <2> HIDE DEF F
  <2> QED
    BY <1>0, <1>1, <1>2, FoldExists
<1>4. IsIter(g)
  <2>1. ASSUME NEW x \in D
        PROVE  g[x] = IF x = {} THEN <<>> ELSE AddAlias(g[x \ {Max(x)}], u, s, entries[Max(x)])
    <3>1. CASE x = {}
      BY <1>3, <3>1 DEF IsFold
    <3>2. CASE x # {}
      <4>1. Max(x) \in 1 .. n /\ x \ {Max(x)} \in D
        BY <1>0, <3>2, LastIndex
      <4>2. <<g[x \ {Max(x)}], Max(x)>> \in AliasTables \X (1 .. n)
        BY <1>3, <4>1 DEF IsFold
      <4>3. F[<<g[x \ {Max(x)}], Max(x)>>] = AddAlias(g[x \ {Max(x)}], u, s, entries[Max(x)])
        BY <4>2
      <4> HIDE DEF F
      <4> QED
        BY <1>3, <3>2, <4>3 DEF IsFold
    <3> QED
      BY <3>1, <3>2
  <2> QED
    BY <1>3, <2>1 DEF IsFold
<1> DEFINE iter == CHOOSE f : IsIter(f)
<1>5. IsIter(iter)
  BY <1>4
<1>6. Aliases(u, s, entries) = iter[1 .. n]
  BY <1>0 DEF Aliases, FoldLeft, MapThenFoldSet
<1> DEFINE h == [i \in 0 .. n |-> iter[1 .. i]]
<1>7. h[0] = <<>>
  <2>1. 1 .. 0 = {} /\ {} \in D
    OBVIOUS
  <2>2. iter[{}] = <<>>
    <3> HIDE DEF iter
    <3> QED
      BY <1>5, <2>1
  <2> HIDE DEF iter
  <2> QED
    BY <1>0, <2>1, <2>2
<1>8. ASSUME NEW i \in 1 .. n PROVE h[i] = AddAlias(h[i - 1], u, s, entries[i])
  <2>1. 1 .. i \in D /\ 1 .. i # {} /\ i - 1 \in 0 .. n /\ i \in 0 .. n
    <3>1. n \in Nat /\ i \in 1 .. n
      BY <1>0
    <3> HIDE DEF n
    <3>2. i - 1 \in 0 .. n /\ i \in 0 .. n
      BY <3>1
    <3>3. 1 .. i \subseteq 1 .. n /\ i \in 1 .. i
      BY <3>1
    <3> QED
      BY <3>2, <3>3
  <2>2. Max(1 .. i) \in 1 .. i /\ \A j \in 1 .. i : j <= Max(1 .. i)
    BY <1>0, <2>1, LastIndex
  <2>3. Max(1 .. i) = i
    BY <2>2
  <2>4. (1 .. i) \ {i} = 1 .. (i - 1)
    OBVIOUS
  <2>5. iter[1 .. i] = AddAlias(iter[(1 .. i) \ {Max(1 .. i)}], u, s, entries[Max(1 .. i)])
    <3> HIDE DEF iter
    <3> QED
      BY <1>5, <2>1
  <2> HIDE DEF iter
  <2> QED
    BY <2>1, <2>3, <2>4, <2>5
<1>9. \A i \in 0 .. n : i \in {j \in 0 .. n : h[j] \in AliasTables}
  <2> DEFINE S == {j \in 0 .. n : h[j] \in AliasTables}
  <2> HIDE DEF h
  <2>1. 0 \in S
    BY <1>0, <1>2, <1>7
  <2>2. ASSUME NEW i \in 1 .. n, i - 1 \in S PROVE i \in S
    <3>1. h[i - 1] \in AliasTables
      BY <2>2
    <3>2. AddAlias(h[i - 1], u, s, entries[i]) \in AliasTables
      BY <1>0, <3>1, AliasAdded
    <3> QED
      BY <1>8, <3>2
  <2> HIDE DEF S
  <2>3. \A i \in 0 .. n : i \in S
    BY <1>0, <2>1, <2>2, Upwards
  <2> QED
    BY <2>3 DEF S
<1>10. h \in [0 .. n -> AliasTables] /\ Aliases(u, s, entries) = h[n]
  <2>1. h[n] = iter[1 .. n] /\ DOMAIN h = 0 .. n /\ h = [i \in 0 .. n |-> h[i]]
    BY <1>0
  <2> HIDE DEF h, iter
  <2> QED
    BY <1>6, <1>9, <2>1
<1> HIDE DEF h
<1> QED
  BY <1>7, <1>8, <1>10

\* The row b is a row of u that has a key from s, and hosts an entry of the key k.
Named(u, s, entries, k, b) ==
    /\ b \in DOMAIN u /\ s \in DOMAIN u[b].emitted
    /\ \E j \in DOMAIN entries : entries[j].board = k /\ Hosts(u, b, entries[j])

\* Every entry of the page finds a row by its key, and it is such a row.
LEMMA AliasesFound ==
    ASSUME NEW u, IsBoardTable(u), NEW s \in Sources, NEW entries \in Seq(Entries),
           \A i \in DOMAIN entries : Carries(u, s, entries, Target(u, entries[i]))
    PROVE  LET aliases == Aliases(u, s, entries) IN
           \A i \in DOMAIN entries :
              /\ aliases[entries[i].board] \in Boards
              /\ Named(u, s, entries, entries[i].board, aliases[entries[i].board])
<1> DEFINE n == Len(entries)
<1>0. n \in Nat /\ DOMAIN entries = 1 .. n /\ \A i \in 1 .. n : entries[i] \in Entries
  OBVIOUS
<1>1. PICK h \in [0 .. n -> AliasTables] :
         /\ h[0] = <<>> /\ Aliases(u, s, entries) = h[n]
         /\ \A i \in 1 .. n : h[i] = AddAlias(h[i - 1], u, s, entries[i])
  BY AliasSteps
<1> DEFINE Good(i) == /\ \A j \in 1 .. i : entries[j].board \in DOMAIN h[i]
                      /\ \A k \in DOMAIN h[i] : Named(u, s, entries, k, h[i][k])
           S == {i \in 0 .. n : Good(i)}
<1>2. 0 \in S
  BY <1>0, <1>1
<1>3. ASSUME NEW i \in 1 .. n, i - 1 \in S PROVE i \in S
  <2> DEFINE before == h[i - 1]
             after == h[i]
             e == entries[i]
             b == Target(u, e)
             k == u[b].emitted[s]
  <2>1. /\ e \in Entries /\ i - 1 \in 0 .. n /\ before \in AliasTables
        /\ after = AddAlias(before, u, s, e)
    BY <1>0, <1>1
  <2>2. Carries(u, s, entries, b)
    BY <1>0
  <2>3. Names(before, after, k, e.board, b)
    <3> HIDE DEF before, after
    <3> QED
      BY <1>0, <2>1, <2>2, AliasAdded
  <2>4. /\ \A j \in 1 .. (i - 1) : entries[j].board \in DOMAIN before
        /\ \A x \in DOMAIN before : Named(u, s, entries, x, before[x])
    BY <1>3
  <2>5. Hosts(u, b, e)
    <3> HIDE DEF e
    <3> QED
      BY <2>1, TargetIs
  <2>6. Named(u, s, entries, e.board, b)
    <3>1. i \in DOMAIN entries
      BY <1>0
    <3> HIDE DEF b
    <3> QED
      BY <2>2, <2>5, <3>1 DEF Named, Carries
  <2>7. Named(u, s, entries, k, b)
    <3> HIDE DEF b
    <3> QED
      BY <2>2 DEF Named, Carries
  <2>8. ASSUME NEW x \in DOMAIN after PROVE Named(u, s, entries, x, after[x])
    <3> HIDE DEF before, after, e, b, k
    <3> QED
      BY <2>3, <2>4, <2>6, <2>7 DEF Names
  <2>9. ASSUME NEW j \in 1 .. i PROVE entries[j].board \in DOMAIN after
    <3>1. e.board \in DOMAIN after /\ DOMAIN before \subseteq DOMAIN after
      <4> HIDE DEF before, after, e, b, k
      <4> QED
        BY <2>3 DEF Names
    <3> HIDE DEF before, after
    <3>2. CASE j = i
      BY <3>1, <3>2
    <3>3. CASE j # i
      BY <2>4, <3>1, <3>3
    <3> QED
      BY <3>2, <3>3
  <2> QED
    BY <2>8, <2>9
<1>4. Good(n)
  <2> HIDE DEF Good
  <2> HIDE DEF S
  <2>1. \A i \in 0 .. n : i \in S
    BY <1>0, <1>2, <1>3, Upwards
  <2>2. n \in S
    BY <1>0, <2>1
  <2> QED
    BY <2>2 DEF S
<1>5. ASSUME NEW i \in DOMAIN entries
      PROVE  LET b == h[n][entries[i].board] IN
             b \in Boards /\ Named(u, s, entries, entries[i].board, b)
  <2>1. Named(u, s, entries, entries[i].board, h[n][entries[i].board])
    BY <1>0, <1>4
  <2> QED
    BY <2>1 DEF Named, IsBoardTable
<1> QED
  BY <1>1, <1>5

\* The route of one entry.
RouteOf(t, s, aliases, e) == MergeRoute(t, s, aliases[e.board], e.hint)

\* From t to r, the route of s and b is there if it is the route of a hint.
Adds(t, r, s, b, hint) ==
    \A qb \in Sources \X Boards :
        r[qb] # "none" <=> t[qb] # "none" \/ (hint # "none" /\ qb = <<s, b>>)

LEMMA RouteMerged ==
    ASSUME NEW t \in RouteTables, NEW s \in Sources, NEW aliases, NEW e \in Entries,
           aliases[e.board] \in Boards
    PROVE  /\ RouteOf(t, s, aliases, e) \in RouteTables
           /\ Adds(t, RouteOf(t, s, aliases, e), s, aliases[e.board], e.hint)
<1> DEFINE b == aliases[e.board]
           r == [t EXCEPT ![<<s, b>>] = e.hint]
<1>1. <<s, b>> \in Sources \X Boards /\ e.hint \in {"none", "bare", "ready"}
  BY DEF Entries
<1> HIDE DEF b
<1>2. r \in RouteTables
  BY <1>1 DEF RouteTables
<1>3. ASSUME e.hint # "none" PROVE Adds(t, r, s, b, e.hint)
  BY <1>1, <1>3 DEF RouteTables, Adds
<1>4. e.hint = "none" => Adds(t, t, s, b, e.hint)
  BY DEF Adds
<1>5. t[<<s, b>>] # "none" => Adds(t, t, s, b, e.hint)
  BY DEF Adds
<1>6. RouteOf(t, s, aliases, e)
         = IF e.hint = "none" \/ (e.hint = "bare" /\ t[<<s, b>>] # "none") THEN t ELSE r
  BY DEF RouteOf, MergeRoute, b
<1> HIDE DEF r
<1>7. RouteOf(t, s, aliases, e) \in RouteTables /\ Adds(t, RouteOf(t, s, aliases, e), s, b, e.hint)
  BY <1>2, <1>3, <1>4, <1>5, <1>6
<1> QED
  BY <1>7 DEF b

\* And the routes of a page are merged one after another.
LEMMA RouteSteps ==
    ASSUME NEW t \in RouteTables, NEW s \in Sources, NEW entries \in Seq(Entries), NEW aliases,
           \A i \in DOMAIN entries : aliases[entries[i].board] \in Boards
    PROVE  \E h \in [0 .. Len(entries) -> RouteTables] :
              /\ h[0] = t /\ MergeRoutes(t, s, aliases, entries) = h[Len(entries)]
              /\ \A i \in 1 .. Len(entries) : h[i] = RouteOf(h[i - 1], s, aliases, entries[i])
<1> DEFINE n == Len(entries)
           D == SUBSET (1 .. n)
           IsIter(g) == g = [x \in D |-> IF x = {} THEN t
                                          ELSE RouteOf(g[x \ {Max(x)}], s, aliases, entries[Max(x)])]
           F == [ti \in RouteTables \X (1 .. n) |-> RouteOf(ti[1], s, aliases, entries[ti[2]])]
<1>0. n \in Nat /\ DOMAIN entries = 1 .. n /\ \A i \in 1 .. n : entries[i] \in Entries
  OBVIOUS
<1>1. F \in [RouteTables \X (1 .. n) -> RouteTables]
  <2>1. ASSUME NEW u \in RouteTables, NEW i \in 1 .. n
        PROVE  RouteOf(u, s, aliases, entries[i]) \in RouteTables
    BY <1>0, RouteMerged
  <2> QED
    BY <2>1
<1>2. t \in RouteTables
  OBVIOUS
<1>3. PICK g : IsFold(g, D, RouteTables, t, F)
  <2> HIDE DEF F
  <2> QED
    BY <1>0, <1>1, <1>2, FoldExists
<1>4. IsIter(g)
  <2>1. ASSUME NEW x \in D
        PROVE  g[x] = IF x = {} THEN t ELSE RouteOf(g[x \ {Max(x)}], s, aliases, entries[Max(x)])
    <3>1. CASE x = {}
      BY <1>3, <3>1 DEF IsFold
    <3>2. CASE x # {}
      <4>1. Max(x) \in 1 .. n /\ x \ {Max(x)} \in D
        BY <1>0, <3>2, LastIndex
      <4>2. <<g[x \ {Max(x)}], Max(x)>> \in RouteTables \X (1 .. n)
        BY <1>3, <4>1 DEF IsFold
      <4>3. F[<<g[x \ {Max(x)}], Max(x)>>] = RouteOf(g[x \ {Max(x)}], s, aliases, entries[Max(x)])
        BY <4>2
      <4> HIDE DEF F
      <4> QED
        BY <1>3, <3>2, <4>3 DEF IsFold
    <3> QED
      BY <3>1, <3>2
  <2> QED
    BY <1>3, <2>1 DEF IsFold
<1> DEFINE iter == CHOOSE f : IsIter(f)
<1>5. IsIter(iter)
  BY <1>4
<1>6. MergeRoutes(t, s, aliases, entries) = iter[1 .. n]
  BY <1>0 DEF MergeRoutes, RouteOf, FoldLeft, MapThenFoldSet
<1> DEFINE h == [i \in 0 .. n |-> iter[1 .. i]]
<1>7. h[0] = t
  <2>1. 1 .. 0 = {} /\ {} \in D
    OBVIOUS
  <2>2. iter[{}] = t
    <3> HIDE DEF iter
    <3> QED
      BY <1>5, <2>1
  <2> HIDE DEF iter
  <2> QED
    BY <1>0, <2>1, <2>2
<1>8. ASSUME NEW i \in 1 .. n PROVE h[i] = RouteOf(h[i - 1], s, aliases, entries[i])
  <2>1. 1 .. i \in D /\ 1 .. i # {} /\ i - 1 \in 0 .. n /\ i \in 0 .. n
    <3>1. n \in Nat /\ i \in 1 .. n
      BY <1>0
    <3> HIDE DEF n
    <3>2. i - 1 \in 0 .. n /\ i \in 0 .. n
      BY <3>1
    <3>3. 1 .. i \subseteq 1 .. n /\ i \in 1 .. i
      BY <3>1
    <3> QED
      BY <3>2, <3>3
  <2>2. Max(1 .. i) \in 1 .. i /\ \A j \in 1 .. i : j <= Max(1 .. i)
    BY <1>0, <2>1, LastIndex
  <2>3. Max(1 .. i) = i
    BY <2>2
  <2>4. (1 .. i) \ {i} = 1 .. (i - 1)
    OBVIOUS
  <2>5. iter[1 .. i] = RouteOf(iter[(1 .. i) \ {Max(1 .. i)}], s, aliases, entries[Max(1 .. i)])
    <3> HIDE DEF iter
    <3> QED
      BY <1>5, <2>1
  <2> HIDE DEF iter
  <2> QED
    BY <2>1, <2>3, <2>4, <2>5
<1>9. \A i \in 0 .. n : i \in {j \in 0 .. n : h[j] \in RouteTables}
  <2> DEFINE S == {j \in 0 .. n : h[j] \in RouteTables}
  <2> HIDE DEF h
  <2>1. 0 \in S
    BY <1>0, <1>2, <1>7
  <2>2. ASSUME NEW i \in 1 .. n, i - 1 \in S PROVE i \in S
    <3>1. h[i - 1] \in RouteTables
      BY <2>2
    <3>2. RouteOf(h[i - 1], s, aliases, entries[i]) \in RouteTables
      BY <1>0, <3>1, RouteMerged
    <3> QED
      BY <1>8, <3>2
  <2> HIDE DEF S
  <2>3. \A i \in 0 .. n : i \in S
    BY <1>0, <2>1, <2>2, Upwards
  <2> QED
    BY <2>3 DEF S
<1>10. h \in [0 .. n -> RouteTables] /\ MergeRoutes(t, s, aliases, entries) = h[n]
  <2>1. h[n] = iter[1 .. n] /\ DOMAIN h = 0 .. n /\ h = [i \in 0 .. n |-> h[i]]
    BY <1>0
  <2> HIDE DEF h, iter
  <2> QED
    BY <1>6, <1>9, <2>1
<1> HIDE DEF h
<1> QED
  BY <1>7, <1>8, <1>10

\* The routes that are there after a page are those before it and those of its hints.
LEMMA RoutesMerged ==
    ASSUME NEW t \in RouteTables, NEW s \in Sources, NEW entries \in Seq(Entries), NEW aliases,
           \A i \in DOMAIN entries : aliases[entries[i].board] \in Boards
    PROVE  LET r == MergeRoutes(t, s, aliases, entries) IN
           /\ r \in RouteTables
           /\ \A qb \in Sources \X Boards : r[qb] # "none" <=>
                 \/ t[qb] # "none"
                 \/ \E i \in DOMAIN entries :
                       entries[i].hint # "none" /\ qb = <<s, aliases[entries[i].board]>>
<1> DEFINE n == Len(entries)
           Hinting(i, qb) == entries[i].hint # "none" /\ qb = <<s, aliases[entries[i].board]>>
<1>0. n \in Nat /\ DOMAIN entries = 1 .. n /\ \A i \in 1 .. n : entries[i] \in Entries
  OBVIOUS
<1>1. PICK h \in [0 .. n -> RouteTables] :
         /\ h[0] = t /\ MergeRoutes(t, s, aliases, entries) = h[n]
         /\ \A i \in 1 .. n : h[i] = RouteOf(h[i - 1], s, aliases, entries[i])
  BY RouteSteps
<1> DEFINE Good(i) == \A qb \in Sources \X Boards :
              h[i][qb] # "none" <=> t[qb] # "none" \/ \E j \in 1 .. i : Hinting(j, qb)
           S == {i \in 0 .. n : Good(i)}
<1>2. 0 \in S
  BY <1>0, <1>1
<1>3. ASSUME NEW i \in 1 .. n, i - 1 \in S PROVE i \in S
  <2>1. /\ entries[i] \in Entries /\ i - 1 \in 0 .. n /\ h[i - 1] \in RouteTables
        /\ aliases[entries[i].board] \in Boards
    BY <1>0, <1>1
  <2>2. Adds(h[i - 1], RouteOf(h[i - 1], s, aliases, entries[i]), s,
             aliases[entries[i].board], entries[i].hint)
    BY <2>1, RouteMerged
  <2>3. Adds(h[i - 1], h[i], s, aliases[entries[i].board], entries[i].hint)
    BY <1>1, <2>2
  <2>4. Good(i - 1)
    BY <1>3
  <2>5. ASSUME NEW qb \in Sources \X Boards
        PROVE  h[i][qb] # "none" <=> t[qb] # "none" \/ \E j \in 1 .. i : Hinting(j, qb)
    <3>1. h[i][qb] # "none" <=> h[i - 1][qb] # "none" \/ Hinting(i, qb)
      BY <2>3 DEF Adds
    <3>2. h[i - 1][qb] # "none" <=> t[qb] # "none" \/ \E j \in 1 .. (i - 1) : Hinting(j, qb)
      BY <2>4
    <3> HIDE DEF Hinting
    <3>3. (\E j \in 1 .. i : Hinting(j, qb)) <=> (\E j \in 1 .. (i - 1) : Hinting(j, qb)) \/ Hinting(i, qb)
      OBVIOUS
    <3> QED
      BY <3>1, <3>2, <3>3
  <2> HIDE DEF Hinting
  <2> QED
    BY <2>5
<1>4. Good(n)
  <2> HIDE DEF Good
  <2> HIDE DEF S
  <2>1. \A i \in 0 .. n : i \in S
    BY <1>0, <1>2, <1>3, Upwards
  <2>2. n \in S
    BY <1>0, <2>1
  <2> QED
    BY <2>2 DEF S
<1>5. h[n] \in RouteTables /\ MergeRoutes(t, s, aliases, entries) = h[n]
  BY <1>0, <1>1
<1>6. \A qb \in Sources \X Boards : h[n][qb] # "none" <=>
         t[qb] # "none" \/ \E i \in DOMAIN entries : Hinting(i, qb)
  <2> HIDE DEF Hinting
  <2> QED
    BY <1>0, <1>4
<1> QED
  BY <1>5, <1>6

(***************************************************************************)
(* The inductive invariant.                                                *)
(***************************************************************************)

\* What a route probe has read is on a row that names the source, until it writes.
ProbedAttributed ==
    \A sb \in probed : sb[2] \in DOMAIN rows /\ sb[1] \in DOMAIN rows[sb[2]].emitted

\* What is told of a source agrees with where its task stands and with its freshness.
Told ==
    /\ main = "gathering" => syncs > 0 /\ \A s \in Sources :
          task[s] \in {"queued", "listing"} \/ (task[s] = "over" /\ outcome[s] # "none")
    /\ \A s \in Sources : task[s] \in {"queued", "listing"} => main = "gathering" /\ synced[s] < syncs
    /\ \A s \in Sources : outcome[s] = "succeeded" => synced[s] = syncs
    /\ \A s \in Sources : outcome[s] \in {"succeeded", "fresh_skipped"} => synced[s] > 0
    /\ \A s \in Sources : outcome[s] \in Bad => synced[s] < syncs
    /\ accounting = "complete" => \A s \in Sources : synced[s] > 0

Fresh(s) == synced[s] = syncs /\ syncs > 0
Live(s) == task[s] = "listing" \/ Fresh(s)

\* The entries with a hint on the pages that are written.
SoFar(s) == UNION {Hints(listing[s][i]) : i \in 1 .. page[s]}

\* What a sync knows of a source that it lists, or that it made fresh: ids are
\* the rows, with routes, that stand for the hints so far.
Followed(s) ==
    /\ Fresh(s) => page[s] = Len(listing[s])
    /\ \A e \in SoFar(s) : \E b \in ids[s] : Stands(s, b, e.board) /\ routes[<<s, b>>] # "none"
    /\ \A b \in ids[s] : \E e \in SoFar(s) : Stands(s, b, e.board)
    /\ hinted[s] <=> SoFar(s) # {}
    /\ Fresh(s) /\ hinted[s] => \A b \in Boards :
          routes[<<s, b>>] # "none" => b \in ids[s] \/ <<s, b>> \in returned

AllFollowed == \A s \in Sources : Live(s) => Followed(s)

Tables == TypeOK /\ UniqueDomains(rows) /\ RoutesAttributed /\ ProbedAttributed
IInv == Tables /\ Told /\ AllFollowed

(***************************************************************************)
(* Writing a page, or a part of it.                                        *)
(***************************************************************************)

LEMMA WholePage ==
    ASSUME NEW entries \in Seq(Entries)
    PROVE  SubSeq(entries, 1, Len(entries)) = entries
OBVIOUS

LEMMA PartPage ==
    ASSUME NEW entries \in Seq(Entries), NEW n \in 0 .. Len(entries)
    PROVE  /\ SubSeq(entries, 1, n) \in Seq(Entries)
           /\ DOMAIN SubSeq(entries, 1, n) = 1 .. n
           /\ \A i \in 1 .. n : i \in DOMAIN entries /\ SubSeq(entries, 1, n)[i] = entries[i]
OBVIOUS

\* The next page of a source.
LEMMA NextPageType ==
    ASSUME TypeOK, NEW s \in Sources, page[s] < Len(listing[s])
    PROVE  NextPage(s) \in Seq(Entries) /\ page[s] + 1 \in DOMAIN listing[s]
<1>1. listing[s] \in Seq(Seq(Entries)) /\ page[s] \in Nat
  BY DEF TypeOK
<1>2. page[s] + 1 \in DOMAIN listing[s]
  BY <1>1
<1> QED
  BY <1>1, <1>2 DEF NextPage

\* What a write of s does to the tables: nothing is lost, and what is new are
\* routes of s on rows that stand for hints of the page.
Written(s, entries) ==
    /\ IsBoardTable(rows') /\ UniqueDomains(rows') /\ Grows(rows, rows')
    /\ routes' \in RouteTables /\ synced' = synced
    /\ \A qb \in Sources \X Boards : routes[qb] # "none" => routes'[qb] # "none"
    /\ \A qb \in Sources \X Boards : routes'[qb] # "none" =>
          \/ routes[qb] # "none"
          \/ \E e \in Hints(entries) : qb[1] = s /\ Named(rows', s, entries, e.board, qb[2])

LEMMA PageMerged ==
    ASSUME Tables, NEW s \in Sources, NEW entries \in Seq(Entries)
    PROVE  LET u == MergeBoards(rows, s, entries)
               aliases == Aliases(u, s, entries) IN
           /\ IsBoardTable(u) /\ UniqueDomains(u) /\ Grows(rows, u)
           /\ \A i \in DOMAIN entries :
                 /\ aliases[entries[i].board] \in Boards
                 /\ Named(u, s, entries, entries[i].board, aliases[entries[i].board])
<1> DEFINE u == MergeBoards(rows, s, entries)
<1>1. IsBoardTable(rows) /\ UniqueDomains(rows)
  BY DEF Tables, TypeOK
<1>2. /\ IsBoardTable(u) /\ UniqueDomains(u) /\ Grows(rows, u)
      /\ \A i \in DOMAIN entries : Carries(u, s, entries, Target(u, entries[i]))
  BY <1>1, BoardsMerged
<1>3. LET aliases == Aliases(u, s, entries) IN
      \A i \in DOMAIN entries :
         /\ aliases[entries[i].board] \in Boards
         /\ Named(u, s, entries, entries[i].board, aliases[entries[i].board])
  <2> HIDE DEF u
  <2> QED
    BY <1>2, AliasesFound
<1> QED
  BY <1>2, <1>3

LEMMA WritesDo ==
    ASSUME Tables, NEW s \in Sources, NEW entries \in Seq(Entries),
           NEW boards \in 0 .. Len(entries), NEW hinting \in 0 .. Len(entries),
           Writes(s, entries, boards, hinting)
    PROVE  Written(s, entries)
<1>0. IsBoardTable(rows) /\ UniqueDomains(rows) /\ routes \in RouteTables
  BY DEF Tables, TypeOK
<1>1. CASE boards < Len(entries)
  <2> DEFINE first == SubSeq(entries, 1, boards)
             u == MergeBoards(rows, s, first)
  <2>1. first \in Seq(Entries)
    BY PartPage
  <2>2. rows' = u /\ routes' = routes /\ synced' = synced
    BY <1>1 DEF Writes
  <2> HIDE DEF first
  <2>3. IsBoardTable(u) /\ UniqueDomains(u) /\ Grows(rows, u)
    BY <1>0, <2>1, BoardsMerged
  <2> HIDE DEF u
  <2> QED
    BY <1>0, <2>2, <2>3 DEF Written
<1>2. CASE boards >= Len(entries)
  <2> DEFINE u == MergeBoards(rows, s, entries)
             aliases == Aliases(u, s, entries)
             first == SubSeq(entries, 1, hinting)
             r == MergeRoutes(routes, s, aliases, first)
  <2>1. boards = Len(entries) /\ ~(boards < Len(entries))
    BY <1>2
  <2>2. SubSeq(entries, 1, boards) = entries
    BY <2>1, WholePage
  <2>3. rows' = u /\ routes' = r /\ synced' = synced
    BY <2>1, <2>2 DEF Writes
  <2>4. /\ IsBoardTable(u) /\ UniqueDomains(u) /\ Grows(rows, u)
        /\ \A i \in DOMAIN entries :
              /\ aliases[entries[i].board] \in Boards
              /\ Named(u, s, entries, entries[i].board, aliases[entries[i].board])
    BY PageMerged
  <2>5. /\ first \in Seq(Entries) /\ DOMAIN first = 1 .. hinting
        /\ \A i \in 1 .. hinting : i \in DOMAIN entries /\ first[i] = entries[i]
    BY PartPage
  <2> HIDE DEF u, aliases, first
  <2>6. /\ r \in RouteTables
        /\ \A qb \in Sources \X Boards : r[qb] # "none" <=>
              \/ routes[qb] # "none"
              \/ \E i \in DOMAIN first :
                    first[i].hint # "none" /\ qb = <<s, aliases[first[i].board]>>
    <3>1. \A i \in DOMAIN first : aliases[first[i].board] \in Boards
      BY <2>4, <2>5
    <3> QED
      BY <1>0, <2>5, <3>1, RoutesMerged
  <2> HIDE DEF r
  <2>7. ASSUME NEW qb \in Sources \X Boards, r[qb] # "none", routes[qb] = "none"
        PROVE  \E e \in Hints(entries) : qb[1] = s /\ Named(u, s, entries, e.board, qb[2])
    <3>1. PICK i \in DOMAIN first : first[i].hint # "none" /\ qb = <<s, aliases[first[i].board]>>
      BY <2>6, <2>7
    <3>2. i \in DOMAIN entries /\ first[i] = entries[i]
      BY <2>5, <3>1
    <3>3. entries[i] \in Hints(entries)
      BY <3>1, <3>2 DEF Hints, ToSet
    <3>4. qb[1] = s /\ qb[2] = aliases[entries[i].board]
      BY <3>1, <3>2
    <3>5. Named(u, s, entries, entries[i].board, qb[2])
      BY <2>4, <3>2, <3>4
    <3> QED
      BY <3>3, <3>4, <3>5
  <2> QED
    BY <2>3, <2>4, <2>6, <2>7 DEF Written
<1> QED
  BY <1>1, <1>2

\* A page that is written in full has the routes of its hints, and no others are new.
LEMMA PageDoes ==
    ASSUME Tables, NEW s \in Sources, NEW entries \in Seq(Entries),
           Writes(s, entries, Len(entries), Len(entries))
    PROVE  LET aliases == Aliases(MergeBoards(rows, s, entries), s, entries) IN
           \A e \in Hints(entries) :
              /\ aliases[e.board] \in Boards
              /\ Named(rows', s, entries, e.board, aliases[e.board])
              /\ routes'[<<s, aliases[e.board]>>] # "none"
<1> DEFINE u == MergeBoards(rows, s, entries)
           aliases == Aliases(u, s, entries)
           r == MergeRoutes(routes, s, aliases, entries)
<1>0. Len(entries) \in Nat /\ routes \in RouteTables
  BY DEF Tables, TypeOK
<1>1. rows' = u /\ routes' = r
  <2>1. ~(Len(entries) < Len(entries)) /\ SubSeq(entries, 1, Len(entries)) = entries
    BY <1>0, WholePage
  <2> QED
    BY <2>1 DEF Writes
<1>2. \A i \in DOMAIN entries :
         /\ aliases[entries[i].board] \in Boards
         /\ Named(u, s, entries, entries[i].board, aliases[entries[i].board])
  BY PageMerged
<1> HIDE DEF u, aliases
<1>3. \A qb \in Sources \X Boards : r[qb] # "none" <=>
         \/ routes[qb] # "none"
         \/ \E i \in DOMAIN entries :
               entries[i].hint # "none" /\ qb = <<s, aliases[entries[i].board]>>
  BY <1>0, <1>2, RoutesMerged
<1> HIDE DEF r
<1>4. ASSUME NEW e \in Hints(entries)
      PROVE  /\ aliases[e.board] \in Boards
             /\ Named(rows', s, entries, e.board, aliases[e.board])
             /\ routes'[<<s, aliases[e.board]>>] # "none"
  <2>1. PICK i \in DOMAIN entries : entries[i] = e /\ e.hint # "none"
    BY DEF Hints, ToSet
  <2>2. aliases[e.board] \in Boards /\ Named(u, s, entries, e.board, aliases[e.board])
    BY <1>2, <2>1
  <2>3. r[<<s, aliases[e.board]>>] # "none"
    BY <1>3, <2>1, <2>2
  <2> QED
    BY <1>1, <2>2, <2>3
<1> QED
  BY <1>4 DEF aliases, u

\* So the tables stay consistent.
LEMMA WrittenTables ==
    ASSUME Tables, NEW s \in Sources, NEW entries \in Seq(Entries), Written(s, entries),
           probed' = probed
    PROVE  RoutesAttributed' /\ ProbedAttributed'
<1>1. ASSUME NEW q \in Sources, NEW b \in Boards, routes'[<<q, b>>] # "none"
      PROVE  b \in DOMAIN rows' /\ q \in DOMAIN rows'[b].emitted
  <2>1. <<q, b>> \in Sources \X Boards /\ <<q, b>>[1] = q /\ <<q, b>>[2] = b
    OBVIOUS
  <2>2. CASE routes[<<q, b>>] # "none"
    <3>1. b \in DOMAIN rows /\ q \in DOMAIN rows[b].emitted
      BY <2>2 DEF Tables, RoutesAttributed
    <3> QED
      BY <3>1 DEF Written, Grows
  <2>3. CASE routes[<<q, b>>] = "none"
    <3>1. PICK e \in Hints(entries) : q = s /\ Named(rows', s, entries, e.board, b)
      BY <1>1, <2>1, <2>3 DEF Written
    <3> QED
      BY <3>1 DEF Named
  <2> QED
    BY <2>2, <2>3
<1>2. ProbedAttributed'
  BY DEF Tables, ProbedAttributed, Written, Grows
<1> QED
  BY <1>1, <1>2 DEF RoutesAttributed

LEMMA TablesStay ==
    ASSUME Tables, rows' = rows, probed' = probed,
           \A sb \in Sources \X Boards : routes'[sb] # "none" => routes[sb] # "none"
    PROVE  UniqueDomains(rows') /\ RoutesAttributed' /\ ProbedAttributed'
<1>1. RoutesAttributed'
  BY DEF Tables, RoutesAttributed
<1> QED
  BY <1>1 DEF Tables, ProbedAttributed

(***************************************************************************)
(* What a step leaves of a source that it is not about.                    *)
(***************************************************************************)

Keeps(s) ==
    /\ page'[s] = page[s] /\ listing'[s] = listing[s]
    /\ ids'[s] = ids[s] /\ hinted'[s] = hinted[s]
    /\ Grows(rows, rows') /\ returned \subseteq returned'
    /\ \A b \in Boards : routes[<<s, b>>] # "none" => routes'[<<s, b>>] # "none"
    /\ \A b \in Boards : routes'[<<s, b>>] # "none" =>
          routes[<<s, b>>] # "none" \/ <<s, b>> \in returned'

\* A row stands for the same boards in a table that grew.
LEMMA StandsOn ==
    ASSUME NEW s, listing'[s] = listing[s], Grows(rows, rows'), NEW b, NEW k, Stands(s, b, k)
    PROVE  Stands(s, b, k)'
<1>1. PICK i \in DOMAIN listing[s] :
         \E f \in ToSet(listing[s][i]) : f.board = k /\ Hosts(rows, b, f)
  BY DEF Stands
<1>2. PICK f \in ToSet(listing[s][i]) : f.board = k /\ Hosts(rows, b, f)
  BY <1>1
<1>3. Hosts(rows', b, f)
  BY <1>2, HostsOn
<1> QED
  BY <1>1, <1>2, <1>3 DEF Stands

LEMMA KeepsFollowed ==
    ASSUME TypeOK, NEW s \in Sources, Keeps(s), Live(s) => Followed(s),
           Live(s)' => Live(s), Fresh(s)' => Fresh(s)
    PROVE  (Live(s) => Followed(s))'
<1> SUFFICES ASSUME Live(s)' PROVE Followed(s)'
  OBVIOUS
<1>0. Followed(s) /\ ids[s] \subseteq Boards
  BY DEF TypeOK
<1>1. SoFar(s)' = SoFar(s)
  BY DEF SoFar, Keeps
<1>2. (Fresh(s) => page[s] = Len(listing[s]))'
  BY <1>0 DEF Followed, Keeps
<1>3. ASSUME NEW e \in SoFar(s)
      PROVE  \E b \in ids'[s] : Stands(s, b, e.board)' /\ routes'[<<s, b>>] # "none"
  <2>1. PICK b \in ids[s] : Stands(s, b, e.board) /\ routes[<<s, b>>] # "none"
    BY <1>0 DEF Followed
  <2>2. Stands(s, b, e.board)'
    BY <2>1, StandsOn DEF Keeps
  <2> QED
    BY <1>0, <2>1, <2>2 DEF Keeps
<1>4. ASSUME NEW b \in ids'[s] PROVE \E e \in SoFar(s) : Stands(s, b, e.board)'
  <2>1. PICK e \in SoFar(s) : Stands(s, b, e.board)
    BY <1>0, <1>4 DEF Followed, Keeps
  <2> QED
    BY <2>1, StandsOn DEF Keeps
<1>5. hinted'[s] <=> SoFar(s) # {}
  BY <1>0 DEF Followed, Keeps
<1>6. ASSUME Fresh(s)', hinted'[s], NEW b \in Boards, routes'[<<s, b>>] # "none"
      PROVE  b \in ids'[s] \/ <<s, b>> \in returned'
  BY <1>0, <1>6 DEF Followed, Keeps
<1> QED
  BY <1>1, <1>2, <1>3, <1>4, <1>5, <1>6 DEF Followed

\* A step that leaves the tables, the listings and the probe alone.
LEMMA KeepsAll ==
    ASSUME UNCHANGED <<rows, routes, locals, returned>>, NEW s \in Sources
    PROVE  Keeps(s)
BY GrowsNot DEF Keeps, locals

\* A write of q leaves the routes of another source alone.
LEMMA WrittenKeeps ==
    ASSUME NEW q \in Sources, NEW entries, Written(q, entries), NEW s \in Sources, s # q,
           page'[s] = page[s], listing'[s] = listing[s], ids'[s] = ids[s], hinted'[s] = hinted[s],
           returned' = returned
    PROVE  Keeps(s)
<1>1. ASSUME NEW b \in Boards
      PROVE  /\ routes[<<s, b>>] # "none" => routes'[<<s, b>>] # "none"
             /\ routes'[<<s, b>>] # "none" => routes[<<s, b>>] # "none"
  <2>1. <<s, b>> \in Sources \X Boards /\ <<s, b>>[1] = s
    OBVIOUS
  <2> QED
    BY <2>1 DEF Written
<1> QED
  BY <1>1 DEF Keeps, Written

\* So does the deletion of the routes that q no longer lists.
LEMMA ReconciledIs ==
    ASSUME TypeOK, NEW q \in Sources
    PROVE  /\ Reconciled(q) \in RouteTables
           /\ \A sb \in Sources \X Boards : Reconciled(q)[sb] =
                 IF hinted[q] /\ sb[1] = q /\ sb[2] \notin ids[q] THEN "none" ELSE routes[sb]
<1>1. routes \in RouteTables /\ DOMAIN routes = Sources \X Boards
  BY DEF TypeOK, RouteTables
<1> QED
  BY <1>1 DEF Reconciled, RouteTables

LEMMA ReconciledKeeps ==
    ASSUME TypeOK, NEW q \in Sources, routes' = Reconciled(q), rows' = rows,
           NEW s \in Sources, s # q, UNCHANGED <<locals, returned>>
    PROVE  Keeps(s)
<1>1. ASSUME NEW b \in Boards PROVE routes'[<<s, b>>] = routes[<<s, b>>]
  <2>1. <<s, b>> \in Sources \X Boards /\ <<s, b>>[1] = s
    OBVIOUS
  <2> QED
    BY <2>1, ReconciledIs
<1> QED
  BY <1>1, GrowsNot DEF Keeps, locals

(***************************************************************************)
(* Each action preserves the invariant.                                    *)
(***************************************************************************)

\* Where only the tasks move and end, no source becomes fresh or is listed anew.
LEMMA Control ==
    ASSUME IInv, TypeOK', UNCHANGED <<tables, locals, probed, returned>>, syncs' >= syncs,
           \A s \in Sources : task'[s] = "listing" => task[s] = "listing", Told'
    PROVE  IInv'
<1>1. Tables'
  <2>1. \A sb \in Sources \X Boards : routes'[sb] # "none" => routes[sb] # "none"
    BY DEF tables
  <2> QED
    BY <2>1, TablesStay DEF IInv, Tables, tables
<1>2. ASSUME NEW s \in Sources PROVE (Live(s) => Followed(s))'
  <2>1. Fresh(s)' => Fresh(s)
    BY DEF IInv, Tables, TypeOK, Fresh, tables
  <2>2. Live(s)' => Live(s)
    BY <2>1 DEF Live
  <2>3. Keeps(s)
    BY KeepsAll DEF tables
  <2> QED
    BY <2>1, <2>2, <2>3, KeepsFollowed DEF IInv, Tables, AllFollowed
<1> QED
  BY <1>1, <1>2 DEF IInv, AllFollowed

\* A task that ends, failed.
LEMMA EndsBadly ==
    ASSUME IInv, NEW s \in Sources, NEW d \in Bad, task[s] \in {"queued", "listing"}, Ends(s, d),
           synced' = synced
    PROVE  /\ Told'
           /\ task' \in [Sources -> {"idle", "queued", "listing", "over"}]
           /\ outcome' \in [Sources -> Dispositions \cup {"none"}]
<1>0. /\ task \in [Sources -> {"idle", "queued", "listing", "over"}]
      /\ outcome \in [Sources -> Dispositions \cup {"none"}] /\ synced \in [Sources -> 0 .. syncs]
  BY DEF IInv, Tables, TypeOK
<1>1. d \in Dispositions /\ d \notin {"none", "succeeded", "fresh_skipped"}
  BY DEF Bad, Dispositions
<1>2. /\ task' = [task EXCEPT ![s] = "over"] /\ outcome' = [outcome EXCEPT ![s] = d]
      /\ UNCHANGED <<syncs, main, accounting>>
  BY DEF Ends
<1>3. Told /\ synced[s] < syncs
  BY DEF IInv, Told
<1>4. \A q \in Sources : q # s => task'[q] = task[q] /\ outcome'[q] = outcome[q]
  BY <1>0, <1>2
<1>5. task'[s] = "over" /\ outcome'[s] = d
  BY <1>0, <1>2
<1>6. Told'
  <2>1. (main = "gathering" => syncs > 0 /\ \A q \in Sources :
            task[q] \in {"queued", "listing"} \/ (task[q] = "over" /\ outcome[q] # "none"))'
    BY <1>1, <1>2, <1>3, <1>4, <1>5 DEF Told
  <2>2. (\A q \in Sources : task[q] \in {"queued", "listing"} => main = "gathering" /\ synced[q] < syncs)'
    BY <1>2, <1>3, <1>4, <1>5 DEF Told
  <2>3. (\A q \in Sources : outcome[q] = "succeeded" => synced[q] = syncs)'
    BY <1>1, <1>2, <1>3, <1>4, <1>5 DEF Told
  <2>4. (\A q \in Sources : outcome[q] \in {"succeeded", "fresh_skipped"} => synced[q] > 0)'
    BY <1>1, <1>2, <1>3, <1>4, <1>5 DEF Told
  <2>5. (\A q \in Sources : outcome[q] \in Bad => synced[q] < syncs)'
    BY <1>2, <1>3, <1>4, <1>5 DEF Told, Bad
  <2>6. (accounting = "complete" => \A q \in Sources : synced[q] > 0)'
    BY <1>2, <1>3 DEF Told
  <2> QED
    BY <2>1, <2>2, <2>3, <2>4, <2>5, <2>6 DEF Told
<1> QED
  BY <1>0, <1>1, <1>2, <1>6

LEMMA StepPageError ==
    ASSUME IInv, NEW s \in Sources, PageError(s), UNCHANGED probe
    PROVE  IInv'
<1>1. PICK d \in {"failed", "timed_out", "rate_limited"} : Ends(s, d)
  BY DEF PageError
<1>2. task[s] = "listing" /\ UNCHANGED tables /\ d \in Bad
  BY DEF PageError, Bad
<1>3. /\ Told'
      /\ task' \in [Sources -> {"idle", "queued", "listing", "over"}]
      /\ outcome' \in [Sources -> Dispositions \cup {"none"}]
  BY <1>1, <1>2, EndsBadly DEF tables
<1>4. UNCHANGED <<rows, routes, synced, syncs, listing, page, ids, hinted, main, accounting, probed, probes, returned>>
  BY <1>1, <1>2 DEF Ends, tables, locals, probe
<1>5. TypeOK'
  BY <1>3, <1>4 DEF IInv, Tables, TypeOK
<1>6. \A q \in Sources : task'[q] = "listing" => task[q] = "listing"
  BY <1>1 DEF Ends, IInv, Tables, TypeOK
<1>7. syncs' >= syncs
  BY <1>4 DEF IInv, Tables, TypeOK
<1> QED
  BY <1>3, <1>4, <1>5, <1>6, <1>7, Control DEF tables, locals

LEMMA StepLaunch ==
    ASSUME IInv, NEW s \in Sources, Launch(s), UNCHANGED probe
    PROVE  IInv'
<1>0. task[s] = "queued" /\ UNCHANGED tables
  BY DEF Launch
<1>1. CASE Ends(s, "failed")
  <2>1. "failed" \in Bad
    BY DEF Bad
  <2>2. /\ Told'
        /\ task' \in [Sources -> {"idle", "queued", "listing", "over"}]
        /\ outcome' \in [Sources -> Dispositions \cup {"none"}]
    BY <1>0, <1>1, <2>1, EndsBadly DEF tables
  <2>3. UNCHANGED <<rows, routes, synced, syncs, listing, page, ids, hinted, main, accounting, probed, probes, returned>>
    BY <1>0, <1>1 DEF Ends, tables, locals, probe
  <2>4. TypeOK'
    BY <2>2, <2>3 DEF IInv, Tables, TypeOK
  <2>5. \A q \in Sources : task'[q] = "listing" => task[q] = "listing"
    BY <1>1 DEF Ends, IInv, Tables, TypeOK
  <2>6. syncs' >= syncs
    BY <2>3 DEF IInv, Tables, TypeOK
  <2> QED
    BY <2>2, <2>3, <2>4, <2>5, <2>6, Control DEF tables, locals
<1>2. CASE /\ task' = [task EXCEPT ![s] = "listing"]
           /\ \E l \in Listings[s] : listing' = [listing EXCEPT ![s] = l]
           /\ page' = [page EXCEPT ![s] = 0]
           /\ ids' = [ids EXCEPT ![s] = {}]
           /\ hinted' = [hinted EXCEPT ![s] = FALSE]
           /\ UNCHANGED <<syncs, outcome, main, accounting>>
  <2>1. PICK l \in Listings[s] : listing' = [listing EXCEPT ![s] = l]
    BY <1>2
  <2>2. l \in Seq(Seq(Entries)) /\ Len(l) \in Nat
    <3>1. l \in Seq(Seq(Entries))
      BY SourceAssumption
    <3> QED
      BY <3>1
  <2>3. UNCHANGED <<rows, routes, synced, syncs, outcome, main, accounting, probed, probes, returned>>
    BY <1>0, <1>2 DEF tables, probe
  <2>4. TypeOK'
    <3>1. listing' \in [Sources -> Seq(Seq(Entries))] /\ page' \in [Sources -> Nat]
      BY <1>2, <2>1, <2>2 DEF IInv, Tables, TypeOK
    <3>2. \A q \in Sources : page'[q] <= Len(listing'[q])
      BY <1>2, <2>1, <2>2 DEF IInv, Tables, TypeOK
    <3>3. /\ ids' \in [Sources -> SUBSET Boards] /\ hinted' \in [Sources -> BOOLEAN]
          /\ task' \in [Sources -> {"idle", "queued", "listing", "over"}]
      BY <1>2 DEF IInv, Tables, TypeOK
    <3> QED
      BY <2>3, <3>1, <3>2, <3>3 DEF IInv, Tables, TypeOK
  <2>5. Tables'
    <3>1. \A sb \in Sources \X Boards : routes'[sb] # "none" => routes[sb] # "none"
      BY <2>3
    <3> QED
      BY <2>3, <2>4, <3>1, TablesStay DEF IInv, Tables
  <2>6. /\ \A q \in Sources : q # s => task'[q] = task[q] /\ Keeps(q)
        /\ task'[s] = "listing" /\ page'[s] = 0 /\ ids'[s] = {} /\ hinted'[s] = FALSE
    BY <1>2, <2>1, <2>3, GrowsNot DEF Keeps, IInv, Tables, TypeOK
  <2>7. Told'
    BY <1>0, <2>3, <2>6 DEF IInv, Told
  <2>8. ASSUME NEW q \in Sources, q # s PROVE (Live(q) => Followed(q))'
    <3>1. Keeps(q) /\ (Live(q)' => Live(q)) /\ (Fresh(q)' => Fresh(q))
      BY <2>3, <2>6, <2>8 DEF Live, Fresh
    <3> QED
      BY <3>1, KeepsFollowed DEF IInv, Tables, AllFollowed
  <2>9. Followed(s)'
    <3>1. ~Fresh(s)'
      BY <1>0, <2>3 DEF IInv, Tables, TypeOK, Told, Fresh
    <3>2. SoFar(s)' = {}
      BY <2>6 DEF SoFar
    <3> QED
      BY <2>6, <3>1, <3>2 DEF Followed
  <2> QED
    BY <2>5, <2>7, <2>8, <2>9 DEF IInv, AllFollowed
<1> QED
  BY <1>1, <1>2 DEF Launch

LEMMA StepBeginSync ==
    ASSUME IInv, BeginSync, UNCHANGED probe
    PROVE  IInv'
<1> DEFINE before(s, fresh) == IF s \in Denied THEN "policy_blocked"
                               ELSE IF s \in fresh THEN "fresh_skipped" ELSE "none"
<1>1. /\ main = "idle" /\ syncs < MaxSyncs /\ main' = "gathering"
      /\ syncs' = syncs + 1 /\ accounting' = "none"
      /\ UNCHANGED <<rows, routes, synced, listing, page, ids, hinted, probed, probes, returned>>
  BY DEF BeginSync, tables, locals, probe
<1>2. PICK fresh \in SUBSET {s \in Sources \ Denied : synced[s] > 0} :
         /\ outcome' = [s \in Sources |-> before(s, fresh)]
         /\ task' = [s \in Sources |-> IF before(s, fresh) = "none" THEN "queued" ELSE "over"]
  BY DEF BeginSync
<1>3. /\ synced \in [Sources -> 0 .. syncs] /\ syncs \in 0 .. MaxSyncs /\ MaxSyncs \in Nat
      /\ task \in [Sources -> {"idle", "queued", "listing", "over"}]
      /\ outcome \in [Sources -> Dispositions \cup {"none"}]
  BY SourceAssumption DEF IInv, Tables, TypeOK
<1>4. ASSUME NEW s \in Sources
      PROVE  /\ outcome'[s] \in {"policy_blocked", "fresh_skipped", "none"}
             /\ task'[s] = (IF outcome'[s] = "none" THEN "queued" ELSE "over")
             /\ outcome'[s] = "fresh_skipped" => synced[s] > 0
             /\ synced[s] < syncs' /\ synced[s] \in 0 .. syncs'
  BY <1>1, <1>2, <1>3
<1>5. TypeOK'
  <2>1. syncs' \in 0 .. MaxSyncs /\ synced' \in [Sources -> 0 .. syncs']
    BY <1>1, <1>3, <1>4
  <2>2. outcome' \in [Sources -> Dispositions \cup {"none"}]
    BY <1>2, <1>4 DEF Dispositions
  <2>3. task' \in [Sources -> {"idle", "queued", "listing", "over"}]
    BY <1>2
  <2> QED
    BY <1>1, <2>1, <2>2, <2>3 DEF IInv, Tables, TypeOK
<1>6. Told'
  BY <1>1, <1>3, <1>4 DEF Told, Bad
<1>7. \A q \in Sources : task'[q] = "listing" => task[q] = "listing"
  BY <1>4
<1>8. syncs' >= syncs
  BY <1>1, <1>3
<1> QED
  BY <1>1, <1>5, <1>6, <1>7, <1>8, Control DEF tables, locals

LEMMA StepClose ==
    ASSUME IInv, Close, UNCHANGED probe
    PROVE  IInv'
<1>1. /\ main = "gathering" /\ \A s \in Sources : task[s] = "over"
      /\ main' = "idle"
      /\ accounting' = IF \E s \in Sources : outcome[s] \in Bad THEN "incomplete" ELSE "complete"
      /\ UNCHANGED <<rows, routes, synced, syncs, task, listing, page, ids, hinted, outcome, probed, probes, returned>>
  BY DEF Close, tables, locals, probe
<1>2. TypeOK'
  BY <1>1 DEF IInv, Tables, TypeOK
<1>3. ASSUME accounting' = "complete", NEW s \in Sources PROVE synced'[s] > 0
  <2>1. outcome[s] \notin Bad /\ outcome[s] # "none" /\ outcome[s] \in Dispositions \cup {"none"}
    BY <1>1, <1>3 DEF IInv, Told, Tables, TypeOK
  <2>2. outcome[s] \in {"succeeded", "fresh_skipped"}
    BY <2>1 DEF Dispositions, Bad
  <2> QED
    BY <1>1, <2>2 DEF IInv, Told
<1>4. Told'
  BY <1>1, <1>3 DEF IInv, Told
<1>5. syncs' >= syncs
  BY <1>1 DEF IInv, Tables, TypeOK
<1> QED
  BY <1>1, <1>2, <1>4, <1>5, Control DEF tables, locals

LEMMA StepInterrupt ==
    ASSUME IInv, Interrupt, UNCHANGED probe
    PROVE  IInv'
<1>1. /\ main = "gathering" /\ main' = "idle" /\ accounting' = "incomplete"
      /\ outcome' = [s \in Sources |->
            IF outcome[s] # "none" THEN outcome[s]
            ELSE IF task[s] = "listing" THEN "cancelled" ELSE "unstarted"]
      /\ task' = [s \in Sources |-> "over"]
      /\ UNCHANGED <<rows, routes, synced, syncs, listing, page, ids, hinted, probed, probes, returned>>
  BY DEF Interrupt, tables, locals, probe
<1>2. TypeOK'
  <2>1. outcome' \in [Sources -> Dispositions \cup {"none"}]
    BY <1>1 DEF IInv, Tables, TypeOK, Dispositions
  <2> QED
    BY <1>1, <2>1 DEF IInv, Tables, TypeOK
<1>3. ASSUME NEW s \in Sources
      PROVE  /\ task'[s] = "over"
             /\ outcome'[s] = outcome[s] \/ (outcome'[s] \in {"cancelled", "unstarted"} /\ synced[s] < syncs)
  BY <1>1 DEF IInv, Told
<1>4. Told'
  <2>1. (\A s \in Sources : outcome[s] = "succeeded" => synced[s] = syncs)'
    BY <1>1, <1>3 DEF IInv, Told
  <2>2. (\A s \in Sources : outcome[s] \in {"succeeded", "fresh_skipped"} => synced[s] > 0)'
    BY <1>1, <1>3 DEF IInv, Told
  <2>3. (\A s \in Sources : outcome[s] \in Bad => synced[s] < syncs)'
    BY <1>1, <1>3 DEF IInv, Told, Bad
  <2> QED
    BY <1>1, <1>3, <2>1, <2>2, <2>3 DEF Told
<1>5. syncs' >= syncs
  BY <1>1 DEF IInv, Tables, TypeOK
<1> QED
  BY <1>1, <1>2, <1>3, <1>4, <1>5, Control DEF tables, locals

\* A task that ends without success, whatever it wrote of its source before.
LEMMA Dropped ==
    ASSUME IInv, TypeOK', NEW q \in Sources, task[q] = "listing", task'[q] # "listing",
           UniqueDomains(rows'), RoutesAttributed', ProbedAttributed',
           \A s \in Sources : s # q => Keeps(s), synced' = synced, syncs' = syncs,
           \A s \in Sources : task'[s] = "listing" => task[s] = "listing", Told'
    PROVE  IInv'
<1>1. Tables'
  BY DEF Tables
<1>2. ~Fresh(q)' /\ ~Live(q)'
  BY DEF IInv, Tables, TypeOK, Told, Fresh, Live
<1>3. ASSUME NEW s \in Sources, s # q PROVE (Live(s) => Followed(s))'
  <2>1. (Fresh(s)' => Fresh(s)) /\ (Live(s)' => Live(s))
    BY DEF Fresh, Live
  <2> QED
    BY <1>3, <2>1, KeepsFollowed DEF IInv, Tables, AllFollowed
<1> QED
  BY <1>1, <1>2, <1>3 DEF IInv, AllFollowed

\* A part of the next page of s, as it is written.
LEMMA PartWritten ==
    ASSUME IInv, NEW s \in Sources, WritesPart(s)
    PROVE  \E entries : entries \in Seq(Entries) /\ Written(s, entries)
<1>1. page[s] < Len(listing[s])
  BY DEF WritesPart
<1>2. PICK boards \in 0 .. Len(NextPage(s)), hinting \in 0 .. Len(NextPage(s)) :
         Writes(s, NextPage(s), boards, hinting)
  BY DEF WritesPart
<1>3. NextPage(s) \in Seq(Entries)
  BY <1>1, NextPageType DEF IInv, Tables
<1>4. Tables
  BY DEF IInv
<1>5. Written(s, NextPage(s))
  BY <1>2, <1>3, <1>4, WritesDo
<1> QED
  BY <1>3, <1>5

LEMMA StepWriteError ==
    ASSUME IInv, NEW s \in Sources, WriteError(s), UNCHANGED probe
    PROVE  IInv'
<1>1. task[s] = "listing" /\ WritesPart(s) /\ Ends(s, "failed") /\ "failed" \in Bad
  BY DEF WriteError, Bad
<1>2. PICK entries \in Seq(Entries) : Written(s, entries)
  BY <1>1, PartWritten
<1>3. UNCHANGED <<synced, syncs, listing, page, ids, hinted, main, accounting, probed, probes, returned>>
  BY <1>1, <1>2 DEF Ends, Written, locals, probe
<1>4. /\ Told'
      /\ task' \in [Sources -> {"idle", "queued", "listing", "over"}]
      /\ outcome' \in [Sources -> Dispositions \cup {"none"}]
  BY <1>1, <1>3, EndsBadly
<1>5. IsBoardTable(rows') /\ UniqueDomains(rows') /\ routes' \in RouteTables
  BY <1>2 DEF Written
<1>6. DOMAIN routes' = DOMAIN routes
  BY <1>5 DEF IInv, Tables, TypeOK, RouteTables
<1>7. TypeOK'
  BY <1>3, <1>4, <1>5, <1>6 DEF IInv, Tables, TypeOK
<1>8. RoutesAttributed' /\ ProbedAttributed'
  BY <1>2, <1>3, WrittenTables DEF IInv
<1>9. /\ \A q \in Sources : task'[q] = "listing" => task[q] = "listing"
      /\ task'[s] # "listing"
  BY <1>1 DEF Ends, IInv, Tables, TypeOK
<1>10. \A q \in Sources : q # s => Keeps(q)
  BY <1>2, <1>3, WrittenKeeps
<1> QED
  BY <1>1, <1>3, <1>4, <1>5, <1>7, <1>8, <1>9, <1>10, Dropped

\* The deletion of the routes of s leaves the tables consistent.
LEMMA ReconciledTables ==
    ASSUME IInv, NEW s \in Sources, routes' \in {routes, Reconciled(s)}, UNCHANGED <<rows, probed>>
    PROVE  /\ routes' \in RouteTables /\ DOMAIN routes' = DOMAIN routes
           /\ IsBoardTable(rows') /\ UniqueDomains(rows')
           /\ RoutesAttributed' /\ ProbedAttributed'
<1>1. TypeOK /\ Tables /\ routes \in RouteTables /\ IsBoardTable(rows)
  BY DEF IInv, Tables, TypeOK
<1>2. routes' \in RouteTables /\ \A sb \in Sources \X Boards : routes'[sb] # "none" => routes[sb] # "none"
  BY <1>1, ReconciledIs
<1>3. UniqueDomains(rows') /\ RoutesAttributed' /\ ProbedAttributed'
  BY <1>1, <1>2, TablesStay
<1>4. DOMAIN routes' = DOMAIN routes
  BY <1>1, <1>2 DEF RouteTables
<1> QED
  BY <1>1, <1>2, <1>3, <1>4

LEMMA StepCompleteError ==
    ASSUME IInv, NEW s \in Sources, CompleteError(s), UNCHANGED probe
    PROVE  IInv'
<1>1. /\ task[s] = "listing" /\ Ends(s, "failed") /\ "failed" \in Bad
      /\ routes' \in {routes, Reconciled(s)} /\ UNCHANGED <<rows, synced>>
  BY DEF CompleteError, Bad
<1>3. UNCHANGED <<rows, synced, syncs, listing, page, ids, hinted, main, accounting, probed, probes, returned>>
  BY <1>1 DEF Ends, locals, probe
<1>4. /\ Told'
      /\ task' \in [Sources -> {"idle", "queued", "listing", "over"}]
      /\ outcome' \in [Sources -> Dispositions \cup {"none"}]
  BY <1>1, EndsBadly
<1>5. /\ routes' \in RouteTables /\ DOMAIN routes' = DOMAIN routes
      /\ IsBoardTable(rows') /\ UniqueDomains(rows')
      /\ RoutesAttributed' /\ ProbedAttributed'
  BY <1>1, <1>3, ReconciledTables
<1>7. TypeOK'
  BY <1>3, <1>4, <1>5 DEF IInv, Tables, TypeOK
<1>9. /\ \A q \in Sources : task'[q] = "listing" => task[q] = "listing"
      /\ task'[s] # "listing"
  BY <1>1 DEF Ends, IInv, Tables, TypeOK
<1>10. \A q \in Sources : q # s => Keeps(q)
  <2>1. UNCHANGED <<locals, returned>> /\ TypeOK
    BY <1>3 DEF locals, IInv, Tables
  <2>2. CASE routes' = routes
    BY <1>3, <2>1, <2>2, KeepsAll
  <2>3. CASE routes' = Reconciled(s)
    BY <1>3, <2>1, <2>3, ReconciledKeeps
  <2> QED
    BY <1>1, <2>2, <2>3
<1> QED
  BY <1>1, <1>3, <1>4, <1>5, <1>7, <1>9, <1>10, Dropped

LEMMA StepCrash ==
    ASSUME IInv, Crash, UNCHANGED probe
    PROVE  IInv'
<1>1. /\ main' = "idle" /\ task' = [s \in Sources |-> "over"]
      /\ UNCHANGED <<syncs, listing, page, ids, hinted, outcome, accounting, probed, probes, returned>>
  BY DEF Crash, locals, probe
<1>2. task' \in [Sources -> {"idle", "queued", "listing", "over"}] /\ main' \in {"idle", "gathering"}
  BY <1>1
<1>3. ASSUME synced' = synced PROVE Told'
  BY <1>1, <1>3 DEF IInv, Told
<1>4. ASSUME IsBoardTable(rows'), routes' \in RouteTables, synced' = synced PROVE TypeOK'
  <2>1. DOMAIN routes' = DOMAIN routes
    BY <1>4 DEF IInv, Tables, TypeOK, RouteTables
  <2> QED
    BY <1>1, <1>2, <1>4, <2>1 DEF IInv, Tables, TypeOK
<1>5. \A s \in Sources : task'[s] # "listing"
  BY <1>1
<1>6. CASE UNCHANGED tables
  <2>1. UNCHANGED <<rows, routes, synced>>
    BY <1>6 DEF tables
  <2>2. TypeOK' /\ Told'
    BY <1>3, <1>4, <2>1 DEF IInv, Tables, TypeOK
  <2>3. syncs' >= syncs
    BY <1>1 DEF IInv, Tables, TypeOK
  <2> QED
    BY <1>1, <1>5, <2>1, <2>2, <2>3, Control DEF tables, locals
<1>7. ASSUME NEW s \in Sources, task[s] = "listing", WritesPart(s) PROVE IInv'
  <2>1. PICK entries \in Seq(Entries) : Written(s, entries)
    BY <1>7, PartWritten
  <2>2. IsBoardTable(rows') /\ UniqueDomains(rows') /\ routes' \in RouteTables /\ synced' = synced
    BY <2>1 DEF Written
  <2>3. TypeOK' /\ Told'
    BY <1>3, <1>4, <2>2
  <2>4. RoutesAttributed' /\ ProbedAttributed'
    BY <1>1, <2>1, WrittenTables DEF IInv
  <2>5. \A q \in Sources : q # s => Keeps(q)
    BY <1>1, <2>1, WrittenKeeps
  <2> QED
    BY <1>1, <1>5, <1>7, <2>2, <2>3, <2>4, <2>5, Dropped
<1>8. ASSUME NEW s \in Sources, task[s] = "listing", routes' = Reconciled(s),
             UNCHANGED <<rows, synced>>
      PROVE  IInv'
  <2>1. /\ routes' \in RouteTables /\ IsBoardTable(rows') /\ UniqueDomains(rows')
        /\ RoutesAttributed' /\ ProbedAttributed'
    BY <1>1, <1>8, ReconciledTables
  <2>2. TypeOK' /\ Told'
    BY <1>3, <1>4, <1>8, <2>1
  <2>3. \A q \in Sources : q # s => Keeps(q)
    BY <1>1, <1>8, ReconciledKeeps DEF locals, IInv, Tables
  <2> QED
    BY <1>1, <1>5, <1>8, <2>1, <2>2, <2>3, Dropped
<1> QED
  BY <1>6, <1>7, <1>8 DEF Crash

\* A listing at its end has been followed to the end.
LEMMA SoFarAll ==
    ASSUME TypeOK, NEW s \in Sources, page[s] = Len(listing[s])
    PROVE  SoFar(s) = Listed(s)
<1>1. DOMAIN listing[s] = 1 .. page[s]
  BY DEF TypeOK
<1> QED
  BY <1>1 DEF SoFar, Listed

LEMMA StepComplete ==
    ASSUME IInv, NEW s \in Sources, Complete(s), UNCHANGED probe
    PROVE  IInv'
<1>1. /\ task[s] = "listing" /\ page[s] = Len(listing[s])
      /\ routes' = Reconciled(s) /\ rows' = rows
      /\ synced' = [synced EXCEPT ![s] = syncs]
      /\ task' = [task EXCEPT ![s] = "over"] /\ outcome' = [outcome EXCEPT ![s] = "succeeded"]
      /\ UNCHANGED <<syncs, listing, page, ids, hinted, main, accounting, probed, probes, returned>>
  BY DEF Complete, Ends, locals, probe
<1>2. /\ routes' \in RouteTables /\ DOMAIN routes' = DOMAIN routes
      /\ IsBoardTable(rows') /\ UniqueDomains(rows')
      /\ RoutesAttributed' /\ ProbedAttributed'
  BY <1>1, ReconciledTables
<1>3. /\ synced \in [Sources -> 0 .. syncs] /\ syncs \in Nat
      /\ task \in [Sources -> {"idle", "queued", "listing", "over"}]
      /\ outcome \in [Sources -> Dispositions \cup {"none"}]
      /\ main = "gathering" /\ syncs > 0 /\ Told /\ Live(s)
  BY <1>1, SourceAssumption DEF IInv, Told, Tables, TypeOK, Live
<1>4. TypeOK'
  <2>1. synced' \in [Sources -> 0 .. syncs']
    BY <1>1, <1>3
  <2>2. /\ task' \in [Sources -> {"idle", "queued", "listing", "over"}]
        /\ outcome' \in [Sources -> Dispositions \cup {"none"}]
    BY <1>1, <1>3 DEF Dispositions
  <2> QED
    BY <1>1, <1>2, <2>1, <2>2 DEF IInv, Tables, TypeOK
<1>5. Tables'
  BY <1>2, <1>4 DEF Tables
<1>6. /\ synced'[s] = syncs /\ task'[s] = "over" /\ outcome'[s] = "succeeded"
      /\ \A q \in Sources : q # s => synced'[q] = synced[q] /\ task'[q] = task[q] /\ outcome'[q] = outcome[q]
  BY <1>1, <1>3
<1>7. Told'
  <2>1. (main = "gathering" => syncs > 0 /\ \A q \in Sources :
            task[q] \in {"queued", "listing"} \/ (task[q] = "over" /\ outcome[q] # "none"))'
    BY <1>1, <1>3, <1>6 DEF Told
  <2>2. (\A q \in Sources : task[q] \in {"queued", "listing"} => main = "gathering" /\ synced[q] < syncs)'
    BY <1>1, <1>3, <1>6 DEF Told
  <2>3. (\A q \in Sources : outcome[q] = "succeeded" => synced[q] = syncs)'
    BY <1>1, <1>3, <1>6 DEF Told
  <2>4. (\A q \in Sources : outcome[q] \in {"succeeded", "fresh_skipped"} => synced[q] > 0)'
    BY <1>1, <1>3, <1>6 DEF Told
  <2>5. (\A q \in Sources : outcome[q] \in Bad => synced[q] < syncs)'
    BY <1>1, <1>3, <1>6 DEF Told, Bad
  <2>6. (accounting = "complete" => \A q \in Sources : synced[q] > 0)'
    BY <1>1, <1>3, <1>6 DEF Told
  <2> QED
    BY <2>1, <2>2, <2>3, <2>4, <2>5, <2>6 DEF Told
<1>8. ASSUME NEW q \in Sources, q # s PROVE (Live(q) => Followed(q))'
  <2>1. Keeps(q)
    BY <1>1, <1>8, ReconciledKeeps DEF locals, IInv, Tables
  <2>2. (Fresh(q)' => Fresh(q)) /\ (Live(q)' => Live(q))
    BY <1>1, <1>6, <1>8 DEF Fresh, Live
  <2> QED
    BY <2>1, <2>2, KeepsFollowed DEF IInv, Tables, AllFollowed
<1>9. Followed(s)'
  <2>1. Followed(s) /\ ids[s] \subseteq Boards
    BY <1>3 DEF IInv, AllFollowed, Tables, TypeOK
  <2>2. SoFar(s)' = SoFar(s)
    BY <1>1 DEF SoFar
  <2>3. \A b \in Boards : routes'[<<s, b>>] = IF hinted[s] /\ b \notin ids[s] THEN "none" ELSE routes[<<s, b>>]
    BY <1>1, ReconciledIs DEF IInv, Tables
  <2>4. \A b, k : Stands(s, b, k)' <=> Stands(s, b, k)
    BY <1>1 DEF Stands
  <2>5. \A e \in SoFar(s) : \E b \in ids[s] : Stands(s, b, e.board) /\ routes'[<<s, b>>] # "none"
    BY <2>1, <2>3 DEF Followed
  <2>6. hinted[s] => \A b \in Boards : routes'[<<s, b>>] # "none" => b \in ids[s]
    BY <2>3
  <2> QED
    BY <1>1, <2>1, <2>2, <2>4, <2>5, <2>6 DEF Followed
<1> QED
  BY <1>5, <1>7, <1>8, <1>9 DEF IInv, AllFollowed

LEMMA StepPage ==
    ASSUME IInv, NEW s \in Sources, Page(s), UNCHANGED probe
    PROVE  IInv'
<1>a. PICK entries : entries = NextPage(s)
  OBVIOUS
<1>b. PICK aliases : aliases = Aliases(MergeBoards(rows, s, entries), s, entries)
  OBVIOUS
<1>1. /\ task[s] = "listing" /\ page[s] < Len(listing[s])
      /\ Writes(s, entries, Len(entries), Len(entries))
      /\ page' = [page EXCEPT ![s] = page[s] + 1]
      /\ ids' = [ids EXCEPT ![s] = ids[s] \cup {aliases[e.board] : e \in Hints(entries)}]
      /\ hinted' = [hinted EXCEPT ![s] = hinted[s] \/ Hints(entries) # {}]
      /\ UNCHANGED <<syncs, task, listing, outcome, main, accounting, probed, probes, returned>>
  BY <1>a, <1>b DEF Page, probe
<1>2. Tables /\ TypeOK
  BY DEF IInv, Tables
<1>3. /\ entries \in Seq(Entries) /\ page[s] + 1 \in DOMAIN listing[s]
      /\ entries = listing[s][page[s] + 1] /\ Len(entries) \in 0 .. Len(entries)
  <2>1. entries \in Seq(Entries) /\ page[s] + 1 \in DOMAIN listing[s]
    BY <1>a, <1>1, <1>2, NextPageType
  <2> QED
    BY <1>a, <2>1 DEF NextPage
<1>4. \A e \in Hints(entries) :
         /\ aliases[e.board] \in Boards
         /\ Named(rows', s, entries, e.board, aliases[e.board])
         /\ routes'[<<s, aliases[e.board]>>] # "none"
  BY <1>b, <1>1, <1>2, <1>3, PageDoes
<1>5. Written(s, entries)
  BY <1>1, <1>2, <1>3, WritesDo
<1>6. /\ IsBoardTable(rows') /\ UniqueDomains(rows') /\ routes' \in RouteTables /\ synced' = synced
      /\ Grows(rows, rows')
      /\ \A qb \in Sources \X Boards : routes[qb] # "none" => routes'[qb] # "none"
  BY <1>5 DEF Written
<1>7. RoutesAttributed' /\ ProbedAttributed'
  BY <1>1, <1>2, <1>3, <1>5, WrittenTables
<1>8. /\ page'[s] = page[s] + 1 /\ hinted'[s] = (hinted[s] \/ Hints(entries) # {})
      /\ ids'[s] = ids[s] \cup {aliases[e.board] : e \in Hints(entries)}
      /\ \A q \in Sources : q # s => page'[q] = page[q] /\ ids'[q] = ids[q] /\ hinted'[q] = hinted[q]
  BY <1>1, <1>2 DEF TypeOK
<1>9. TypeOK'
  <2>1. page' \in [Sources -> Nat] /\ \A q \in Sources : page'[q] <= Len(listing'[q])
    <3>1. page \in [Sources -> Nat] /\ page[s] + 1 \in Nat
      BY <1>2 DEF TypeOK
    <3>2. page' \in [Sources -> Nat]
      BY <1>1, <3>1
    <3>3. page[s] + 1 <= Len(listing[s])
      <4>1. listing[s] \in Seq(Seq(Entries))
        BY <1>2 DEF TypeOK
      <4> QED
        BY <1>3, <4>1
    <3>4. \A q \in Sources : page'[q] <= Len(listing'[q])
      BY <1>1, <1>2, <1>8, <3>3 DEF TypeOK
    <3> QED
      BY <3>2, <3>4
  <2>2. ids' \in [Sources -> SUBSET Boards]
    <3>1. ids[s] \cup {aliases[e.board] : e \in Hints(entries)} \in SUBSET Boards
      <4>1. ids[s] \subseteq Boards
        BY <1>2 DEF TypeOK
      <4>2. {aliases[e.board] : e \in Hints(entries)} \subseteq Boards
        BY <1>4
      <4> QED
        BY <4>1, <4>2
    <3> QED
      BY <1>1, <1>2, <3>1 DEF TypeOK
  <2>3. hinted' \in [Sources -> BOOLEAN]
    BY <1>1, <1>2 DEF TypeOK
  <2>4. DOMAIN routes' = DOMAIN routes
    BY <1>2, <1>6 DEF TypeOK, RouteTables
  <2> QED
    BY <1>1, <1>2, <1>6, <2>1, <2>2, <2>3, <2>4 DEF TypeOK
<1>10. Tables'
  BY <1>6, <1>7, <1>9 DEF Tables
<1>11. Told'
  BY <1>1, <1>6 DEF IInv, Told
<1>12. ASSUME NEW q \in Sources, q # s PROVE (Live(q) => Followed(q))'
  <2>1. Keeps(q)
    BY <1>1, <1>5, <1>8, <1>12, WrittenKeeps
  <2>2. (Fresh(q)' => Fresh(q)) /\ (Live(q)' => Live(q))
    BY <1>1, <1>6 DEF Fresh, Live
  <2> QED
    BY <1>2, <2>1, <2>2, KeepsFollowed DEF IInv, AllFollowed
<1>13. Followed(s)'
  <2>1. Followed(s) /\ ids[s] \subseteq Boards
    BY <1>1, <1>2 DEF IInv, AllFollowed, Live, TypeOK
  <2>2. ~Fresh(s)'
    BY <1>1, <1>2, <1>6 DEF IInv, Told, Fresh, TypeOK
  <2>3. SoFar(s)' = SoFar(s) \cup Hints(entries)
    <3>1. page[s] \in Nat
      BY <1>2 DEF TypeOK
    <3>2. 1 .. (page[s] + 1) = (1 .. page[s]) \cup {page[s] + 1}
      BY <3>1
    <3>3. \A e : e \in SoFar(s)' <=> \E i \in 1 .. (page[s] + 1) : e \in Hints(listing[s][i])
      BY <1>1, <1>8 DEF SoFar
    <3>4. \A e : e \in SoFar(s) <=> \E i \in 1 .. page[s] : e \in Hints(listing[s][i])
      BY DEF SoFar
    <3>5. \A e : e \in SoFar(s)' <=> e \in SoFar(s) \/ e \in Hints(listing[s][page[s] + 1])
      BY <3>2, <3>3, <3>4
    <3> QED
      BY <1>3, <3>5
  <2>4. ASSUME NEW e \in Hints(entries) PROVE Stands(s, aliases[e.board], e.board)'
    <3>1. PICK j \in DOMAIN entries : entries[j].board = e.board /\ Hosts(rows', aliases[e.board], entries[j])
      BY <1>4 DEF Named
    <3>2. entries[j] \in ToSet(listing'[s][page[s] + 1]) /\ page[s] + 1 \in DOMAIN listing'[s]
      BY <1>1, <1>3, <3>1 DEF ToSet
    <3>3. \E i \in DOMAIN listing'[s] : \E f \in ToSet(listing'[s][i]) :
             f.board = e.board /\ Hosts(rows', aliases[e.board], f)
      BY <3>1, <3>2
    <3> QED
      BY <3>3 DEF Stands
  <2>5. ASSUME NEW e \in SoFar(s)'
        PROVE  \E b \in ids'[s] : Stands(s, b, e.board)' /\ routes'[<<s, b>>] # "none"
    <3>1. CASE e \in SoFar(s)
      <4>1. PICK b \in ids[s] : Stands(s, b, e.board) /\ routes[<<s, b>>] # "none"
        BY <2>1, <3>1 DEF Followed
      <4>2. Stands(s, b, e.board)'
        BY <1>1, <1>6, <4>1, StandsOn
      <4>3. routes'[<<s, b>>] # "none" /\ b \in ids'[s]
        BY <1>6, <1>8, <2>1, <4>1
      <4> QED
        BY <4>2, <4>3
    <3>2. CASE e \in Hints(entries)
      BY <1>4, <1>8, <2>4, <3>2
    <3> QED
      BY <2>3, <3>1, <3>2
  <2>6. ASSUME NEW b \in ids'[s] PROVE \E e \in SoFar(s)' : Stands(s, b, e.board)'
    <3>1. CASE b \in ids[s]
      <4>1. PICK e \in SoFar(s) : Stands(s, b, e.board)
        BY <2>1, <3>1 DEF Followed
      <4>2. Stands(s, b, e.board)'
        BY <1>1, <1>6, <4>1, StandsOn
      <4> QED
        BY <2>3, <4>2
    <3>2. CASE b \notin ids[s]
      <4>1. PICK e \in Hints(entries) : b = aliases[e.board]
        BY <1>8, <2>6, <3>2
      <4>2. Stands(s, b, e.board)'
        BY <2>4, <4>1
      <4> QED
        BY <2>3, <4>2
    <3> QED
      BY <3>1, <3>2
  <2>7. hinted'[s] <=> SoFar(s)' # {}
    <3>1. hinted[s] <=> SoFar(s) # {}
      BY <2>1 DEF Followed
    <3>2. SoFar(s)' # {} <=> SoFar(s) # {} \/ Hints(entries) # {}
      BY <2>3
    <3> QED
      BY <1>8, <3>1, <3>2
  <2> QED
    BY <2>2, <2>5, <2>6, <2>7 DEF Followed
<1> QED
  BY <1>10, <1>11, <1>12, <1>13 DEF IInv, AllFollowed

\* A step of others that only marks or writes back routes, and leaves no source anew.
LEMMA Others ==
    ASSUME IInv, UNCHANGED <<rows, synced, syncs, task, locals, outcome, main, accounting>>,
           TypeOK', RoutesAttributed', ProbedAttributed', \A s \in Sources : Keeps(s)
    PROVE  IInv'
<1>1. Tables'
  BY DEF Tables, IInv
<1>2. Told'
  BY DEF IInv, Told
<1>3. ASSUME NEW s \in Sources PROVE (Live(s) => Followed(s))'
  <2>1. (Fresh(s)' => Fresh(s)) /\ (Live(s)' => Live(s))
    BY DEF Fresh, Live
  <2> QED
    BY <2>1, KeepsFollowed DEF IInv, Tables, AllFollowed
<1> QED
  BY <1>1, <1>2, <1>3 DEF IInv, AllFollowed

LEMMA StepDeactivate ==
    ASSUME IInv, NEW s \in Sources, NEW b \in Boards, Deactivate(s, b), UNCHANGED probe
    PROVE  IInv'
<1>1. /\ routes[<<s, b>>] = "ready" /\ routes' = [routes EXCEPT ![<<s, b>>] = "disabled"]
      /\ UNCHANGED <<rows, synced, syncs, task, locals, outcome, main, accounting, probed, probes, returned>>
  BY DEF Deactivate, probe
<1>2. routes \in RouteTables
  BY DEF IInv, Tables, TypeOK
<1>3. /\ routes' \in RouteTables /\ DOMAIN routes' = DOMAIN routes
      /\ \A sb \in Sources \X Boards : routes'[sb] # "none" <=> routes[sb] # "none"
  BY <1>1, <1>2 DEF RouteTables
<1>4. TypeOK'
  BY <1>1, <1>3 DEF IInv, Tables, TypeOK, locals
<1>5. RoutesAttributed' /\ ProbedAttributed'
  BY <1>1, <1>3, TablesStay DEF IInv
<1>6. ASSUME NEW q \in Sources PROVE Keeps(q)
  <2>1. \A x \in Boards : routes'[<<q, x>>] # "none" <=> routes[<<q, x>>] # "none"
    BY <1>3
  <2> QED
    BY <1>1, <2>1, GrowsNot DEF Keeps, locals
<1> QED
  BY <1>1, <1>4, <1>5, <1>6, Others

LEMMA StepBeginProbe ==
    ASSUME IInv, BeginProbe,
           UNCHANGED <<tables, syncs, task, locals, outcome, main, accounting>>
    PROVE  IInv'
<1>1. /\ probes > 0 /\ probes' = probes - 1 /\ returned' = returned
      /\ UNCHANGED <<rows, routes, synced, syncs, task, locals, outcome, main, accounting>>
  BY DEF BeginProbe, tables
<1>2. PICK read \in SUBSET {sb \in DOMAIN routes : routes[sb] = "bare"} : probed' = read
  BY DEF BeginProbe
<1>3. TypeOK'
  <2>1. probes' \in 0 .. MaxProbes
    BY <1>1, SourceAssumption DEF IInv, Tables, TypeOK
  <2> QED
    BY <1>1, <1>2, <2>1 DEF IInv, Tables, TypeOK, locals
<1>4. ProbedAttributed'
  <2>1. ASSUME NEW sb \in probed'
        PROVE  sb[2] \in DOMAIN rows /\ sb[1] \in DOMAIN rows[sb[2]].emitted
    <3>1. sb \in Sources \X Boards /\ routes[sb] = "bare"
      BY <1>2 DEF IInv, Tables, TypeOK, RouteTables
    <3>2. sb[1] \in Sources /\ sb[2] \in Boards /\ sb = <<sb[1], sb[2]>>
      BY <3>1
    <3>3. routes[<<sb[1], sb[2]>>] # "none"
      BY <3>1, <3>2
    <3> QED
      BY <3>2, <3>3 DEF IInv, Tables, RoutesAttributed
  <2> QED
    BY <1>1, <2>1 DEF ProbedAttributed
<1>5. RoutesAttributed'
  BY <1>1 DEF IInv, Tables, RoutesAttributed
<1>6. ASSUME NEW q \in Sources PROVE Keeps(q)
  BY <1>1, KeepsAll
<1> QED
  BY <1>1, <1>3, <1>4, <1>5, <1>6, Others

LEMMA StepApplyProbe ==
    ASSUME IInv, ApplyProbe
    PROVE  IInv'
<1> DEFINE Wrote(matched, target) ==
             LET written == {<<sb[1], target[sb]>> : sb \in matched} IN
             /\ \A sb \in matched : target[sb] \in ProbeTargets(sb[1], sb[2])
             /\ routes' = [sb \in DOMAIN routes |-> IF sb \in written THEN "ready" ELSE routes[sb]]
             /\ returned' = returned \cup {sb \in written : routes[sb] = "none"}
<1>0. PICK matched \in SUBSET probed : \E target \in [matched -> Boards] : Wrote(matched, target)
  BY DEF ApplyProbe
<1>1. PICK target \in [matched -> Boards] : Wrote(matched, target)
  BY <1>0
<1> DEFINE written == {<<sb[1], target[sb]>> : sb \in matched}
<1>2. /\ probed' = {}
      /\ UNCHANGED <<rows, synced, syncs, task, locals, outcome, main, accounting, probes>>
  BY DEF ApplyProbe
<1>3. /\ routes \in RouteTables /\ DOMAIN routes = Sources \X Boards
      /\ probed \subseteq Sources \X Boards /\ ProbedAttributed
  BY DEF IInv, Tables, TypeOK, RouteTables
<1>4. ASSUME NEW sb \in written
      PROVE  /\ sb \in Sources \X Boards
             /\ sb[2] \in DOMAIN rows /\ sb[1] \in DOMAIN rows[sb[2]].emitted
  <2>1. PICK m \in matched : sb = <<m[1], target[m]>>
    OBVIOUS
  <2>2. m[1] \in Sources /\ target[m] \in Boards /\ m \in probed
    BY <1>3
  <2>3. target[m] \in ProbeTargets(m[1], m[2])
    BY <1>1
  <2>4. target[m] \in DOMAIN rows /\ m[1] \in DOMAIN rows[target[m]].emitted
    BY <1>3, <2>2, <2>3 DEF ProbeTargets, ProbedAttributed
  <2> QED
    BY <2>1, <2>2, <2>4
<1>5. /\ routes' = [sb \in DOMAIN routes |-> IF sb \in written THEN "ready" ELSE routes[sb]]
      /\ returned' = returned \cup {sb \in written : routes[sb] = "none"}
  BY <1>1
<1> HIDE DEF written
<1>6. /\ routes' \in RouteTables /\ DOMAIN routes' = DOMAIN routes
      /\ \A sb \in Sources \X Boards : routes'[sb] = IF sb \in written THEN "ready" ELSE routes[sb]
  BY <1>3, <1>5 DEF RouteTables
<1>7. TypeOK'
  <2>1. returned' \subseteq DOMAIN routes'
    BY <1>3, <1>4, <1>5, <1>6 DEF IInv, Tables, TypeOK
  <2> QED
    BY <1>2, <1>6, <2>1 DEF IInv, Tables, TypeOK, locals
<1>8. ProbedAttributed'
  BY <1>2 DEF ProbedAttributed
<1>9. RoutesAttributed'
  <2>1. ASSUME NEW q \in Sources, NEW b \in Boards, routes'[<<q, b>>] # "none"
        PROVE  b \in DOMAIN rows /\ q \in DOMAIN rows[b].emitted
    <3>1. <<q, b>> \in Sources \X Boards /\ <<q, b>>[1] = q /\ <<q, b>>[2] = b
      OBVIOUS
    <3>2. CASE <<q, b>> \in written
      BY <1>4, <3>1, <3>2
    <3>3. CASE <<q, b>> \notin written
      BY <1>6, <2>1, <3>1, <3>3 DEF IInv, Tables, RoutesAttributed
    <3> QED
      BY <3>2, <3>3
  <2> QED
    BY <1>2, <2>1 DEF RoutesAttributed
<1>10. ASSUME NEW q \in Sources PROVE Keeps(q)
  <2>1. ASSUME NEW b \in Boards
        PROVE  /\ routes[<<q, b>>] # "none" => routes'[<<q, b>>] # "none"
               /\ routes'[<<q, b>>] # "none" => routes[<<q, b>>] # "none" \/ <<q, b>> \in returned'
    <3>1. <<q, b>> \in Sources \X Boards
      OBVIOUS
    <3> QED
      BY <1>5, <1>6, <3>1
  <2>2. returned \subseteq returned'
    BY <1>5
  <2> QED
    BY <1>2, <2>1, <2>2, GrowsNot DEF Keeps, locals
<1> QED
  BY <1>2, <1>7, <1>8, <1>9, <1>10, Others

(***************************************************************************)
(* The invariant and the theorems.                                         *)
(***************************************************************************)

LEMMA InitInv == Init => IInv
<1> SUFFICES ASSUME Init PROVE IInv
  OBVIOUS
<1>1. rows = <<>> /\ DOMAIN rows = {}
  BY DEF Init
<1>2. IsBoardTable(rows) /\ UniqueDomains(rows)
  <2>1. rows \in [{} -> Rows]
    BY <1>1
  <2> QED
    BY <1>1, <2>1 DEF IsBoardTable, UniqueDomains
<1>3. TypeOK
  <2>1. routes \in RouteTables
    BY DEF Init, RouteTables
  <2>2. listing \in [Sources -> Seq(Seq(Entries))] /\ \A s \in Sources : page[s] <= Len(listing[s])
    BY DEF Init
  <2>3. synced \in [Sources -> 0 .. syncs] /\ syncs \in 0 .. MaxSyncs /\ probes \in 0 .. MaxProbes
    BY SourceAssumption DEF Init
  <2>4. /\ task \in [Sources -> {"idle", "queued", "listing", "over"}] /\ page \in [Sources -> Nat]
        /\ ids \in [Sources -> SUBSET Boards] /\ hinted \in [Sources -> BOOLEAN]
        /\ outcome \in [Sources -> Dispositions \cup {"none"}]
        /\ probed = {} /\ returned = {} /\ main = "idle" /\ accounting = "none"
    BY DEF Init
  <2> QED
    BY <1>2, <2>1, <2>2, <2>3, <2>4 DEF TypeOK
<1>4. RoutesAttributed /\ ProbedAttributed
  BY DEF Init, RoutesAttributed, ProbedAttributed
<1>5. Told
  BY DEF Init, Told, Bad
<1>6. AllFollowed
  BY DEF Init, AllFollowed, Live, Fresh
<1> QED
  BY <1>2, <1>3, <1>4, <1>5, <1>6 DEF IInv, Tables

LEMMA StutterInv == IInv /\ UNCHANGED vars => IInv'
<1> SUFFICES ASSUME IInv, UNCHANGED vars PROVE IInv'
  OBVIOUS
<1>1. UNCHANGED <<rows, routes, synced, syncs, task, locals, outcome, main, accounting, probed, probes, returned>>
  BY DEF vars, tables, probe
<1>2. TypeOK'
  BY <1>1 DEF IInv, Tables, TypeOK, locals
<1>3. RoutesAttributed' /\ ProbedAttributed'
  BY <1>1 DEF IInv, Tables, RoutesAttributed, ProbedAttributed
<1>4. \A s \in Sources : Keeps(s)
  BY <1>1, KeepsAll
<1> QED
  BY <1>1, <1>2, <1>3, <1>4, Others

LEMMA NextInv == IInv /\ [Next]_vars => IInv'
<1> SUFFICES ASSUME IInv, [Next]_vars PROVE IInv'
  OBVIOUS
<1>1. ASSUME NEW s \in Sources, Step(s), UNCHANGED probe PROVE IInv'
  BY <1>1, StepLaunch, StepPage, StepPageError, StepWriteError, StepComplete, StepCompleteError
     DEF Step
<1>2. ASSUME Sync, UNCHANGED probe PROVE IInv'
  BY <1>1, <1>2, StepBeginSync, StepClose, StepInterrupt, StepCrash, StepDeactivate DEF Sync
<1> QED
  BY <1>2, StepBeginProbe, StepApplyProbe, StutterInv DEF Next

LEMMA Invariance == Spec => []IInv
BY InitInv, NextInv, PTL DEF Spec

\* The board and route tables are consistent after any syncs and probes: no two rows
\* have one domain, and every route is on a row that names its source.
THEOREM TablesAlways == Spec => []TablesConsistent
<1>1. IInv => TablesConsistent
  BY DEF IInv, Tables, TablesConsistent, UniqueDomains, OneRowPerDomain
<1> QED
  BY <1>1, Invariance, PTL

\* What is fresh is complete: all of the listing is in the tables, and no route of
\* the source is there that it does not list, but those a route probe wrote back.
THEOREM FreshAlways == Spec => []FreshIsComplete
<1>1. ASSUME IInv PROVE FreshIsComplete
  <2>1. TypeOK /\ Told /\ RoutesAttributed
    BY <1>1 DEF IInv, Tables
  <2>2. ASSUME NEW s \in Sources, synced[s] = syncs, syncs > 0
        PROVE  /\ page[s] = Len(listing[s])
               /\ \A e \in Listed(s) :
                     \E b \in DOMAIN rows : Stands(s, b, e.board) /\ routes[<<s, b>>] # "none"
               /\ Listed(s) # {} => \A b \in Boards : routes[<<s, b>>] # "none" =>
                     <<s, b>> \in returned \/ \E e \in Listed(s) : Stands(s, b, e.board)
    <3>1. Followed(s) /\ Fresh(s) /\ ids[s] \subseteq Boards
      BY <1>1, <2>1, <2>2 DEF IInv, AllFollowed, Live, Fresh, TypeOK
    <3>2. page[s] = Len(listing[s])
      BY <3>1 DEF Followed
    <3>3. SoFar(s) = Listed(s)
      BY <2>1, <3>2, SoFarAll
    <3>4. ASSUME NEW e \in Listed(s)
          PROVE  \E b \in DOMAIN rows : Stands(s, b, e.board) /\ routes[<<s, b>>] # "none"
      <4>1. PICK b \in ids[s] : Stands(s, b, e.board) /\ routes[<<s, b>>] # "none"
        BY <3>1, <3>3 DEF Followed
      <4>2. b \in DOMAIN rows
        BY <2>1, <3>1, <4>1 DEF RoutesAttributed
      <4> QED
        BY <4>1, <4>2
    <3>5. ASSUME Listed(s) # {}, NEW b \in Boards, routes[<<s, b>>] # "none"
          PROVE  <<s, b>> \in returned \/ \E e \in Listed(s) : Stands(s, b, e.board)
      BY <3>1, <3>3, <3>5 DEF Followed
    <3> QED
      BY <3>2, <3>4, <3>5
  <2>3. \A s \in Sources : outcome[s] = "succeeded" => synced[s] = syncs
    BY <2>1 DEF Told
  <2>4. accounting = "complete" => \A s \in Sources : synced[s] > 0
    BY <2>1 DEF Told
  <2>5. \A s \in Sources : outcome[s] \in Bad => synced[s] < syncs
    BY <2>1 DEF Told
  <2> QED
    BY <2>2, <2>3, <2>4, <2>5 DEF FreshIsComplete
<1> QED
  BY <1>1, Invariance, PTL

\* The end of a listing, or a crash or a failure there, deletes a route of s: then
\* the listing had hints, and the boards of all of them keep others.
LEMMA ReconciledDeletes ==
    ASSUME IInv, NEW s \in Sources, task[s] = "listing", page[s] = Len(listing[s]),
           routes' \in {routes, Reconciled(s)}
    PROVE  DeletesUnlisted
<1> SUFFICES ASSUME NEW q \in Sources, NEW b \in Boards,
                    routes[<<q, b>>] # "none", routes'[<<q, b>>] = "none"
             PROVE  /\ task[q] = "listing" /\ page[q] = Len(listing[q])
                    /\ Listed(q) # {}
                    /\ \A e \in Listed(q) :
                          \E a \in Boards \ {b} : Stands(q, a, e.board) /\ routes'[<<q, a>>] # "none"
  BY DEF DeletesUnlisted
<1>1. TypeOK /\ Followed(s) /\ ids[s] \subseteq Boards
  BY DEF IInv, Tables, TypeOK, AllFollowed, Live
<1>2. routes' = Reconciled(s)
  OBVIOUS
<1>3. \A sb \in Sources \X Boards : routes'[sb] =
         IF hinted[s] /\ sb[1] = s /\ sb[2] \notin ids[s] THEN "none" ELSE routes[sb]
  BY <1>1, <1>2, ReconciledIs
<1>4. <<q, b>> \in Sources \X Boards /\ <<q, b>>[1] = q /\ <<q, b>>[2] = b
  OBVIOUS
<1>5. hinted[s] /\ q = s /\ b \notin ids[s]
  BY <1>3, <1>4
<1>6. SoFar(s) = Listed(s)
  BY <1>1, SoFarAll
<1>7. Listed(s) # {}
  BY <1>1, <1>5, <1>6 DEF Followed
<1>8. ASSUME NEW e \in Listed(s)
      PROVE  \E a \in Boards \ {b} : Stands(s, a, e.board) /\ routes'[<<s, a>>] # "none"
  <2>1. PICK a \in ids[s] : Stands(s, a, e.board) /\ routes[<<s, a>>] # "none"
    BY <1>1, <1>6 DEF Followed
  <2>2. a \in Boards \ {b} /\ <<s, a>> \in Sources \X Boards /\ <<s, a>>[2] = a
    BY <1>1, <1>5, <2>1
  <2>3. routes'[<<s, a>>] = routes[<<s, a>>]
    BY <1>3, <2>1, <2>2
  <2> QED
    BY <2>1, <2>2, <2>3
<1> QED
  BY <1>5, <1>7, <1>8

\* Every other step leaves every route a route.
LEMMA WrittenDeletes ==
    ASSUME \A sb \in Sources \X Boards : routes[sb] # "none" => routes'[sb] # "none"
    PROVE  DeletesUnlisted
BY DEF DeletesUnlisted

LEMMA StepDeletes == IInv /\ [Next]_vars => DeletesUnlisted
<1> SUFFICES ASSUME IInv, [Next]_vars PROVE DeletesUnlisted
  OBVIOUS
<1>0. Tables /\ TypeOK /\ routes \in RouteTables
  BY DEF IInv, Tables, TypeOK
<1>1. ASSUME routes' = routes PROVE DeletesUnlisted
  BY <1>1, WrittenDeletes
<1>2. ASSUME NEW s \in Sources, WritesPart(s) PROVE DeletesUnlisted
  <2>1. PICK entries : Written(s, entries)
    BY <1>2, PartWritten
  <2> QED
    BY <2>1, WrittenDeletes DEF Written
<1>3. ASSUME NEW s \in Sources, Page(s) PROVE DeletesUnlisted
  <2>1. /\ page[s] < Len(listing[s])
        /\ Writes(s, NextPage(s), Len(NextPage(s)), Len(NextPage(s)))
    BY <1>3 DEF Page
  <2>2. NextPage(s) \in Seq(Entries) /\ Len(NextPage(s)) \in 0 .. Len(NextPage(s))
    <3>1. NextPage(s) \in Seq(Entries)
      BY <1>0, <2>1, NextPageType
    <3> QED
      BY <3>1
  <2>3. Written(s, NextPage(s))
    BY <1>0, <2>1, <2>2, WritesDo
  <2> QED
    BY <2>3, WrittenDeletes DEF Written
<1>4. ASSUME NEW s \in Sources, Step(s) PROVE DeletesUnlisted
  <2>1. CASE Launch(s) \/ PageError(s)
    BY <1>1, <2>1 DEF Launch, PageError, tables
  <2>2. CASE Complete(s) \/ CompleteError(s)
    BY <2>2, ReconciledDeletes DEF Complete, CompleteError
  <2>3. CASE WriteError(s)
    BY <1>2, <2>3 DEF WriteError
  <2>4. CASE Page(s)
    BY <1>3, <2>4
  <2> QED
    BY <1>4, <2>1, <2>2, <2>3, <2>4 DEF Step
<1>5. ASSUME Crash PROVE DeletesUnlisted
  BY <1>1, <1>2, <1>5, ReconciledDeletes DEF Crash, tables
<1>6. ASSUME NEW s \in Sources, NEW b \in Boards, Deactivate(s, b) PROVE DeletesUnlisted
  <2>1. routes' = [routes EXCEPT ![<<s, b>>] = "disabled"]
    BY <1>6 DEF Deactivate
  <2> QED
    BY <1>0, <2>1, WrittenDeletes DEF RouteTables
<1>7. ASSUME ApplyProbe PROVE DeletesUnlisted
  <2>1. \A sb \in DOMAIN routes : routes'[sb] = "ready" \/ routes'[sb] = routes[sb]
    BY <1>7 DEF ApplyProbe
  <2>2. DOMAIN routes = Sources \X Boards
    BY <1>0 DEF RouteTables
  <2> QED
    BY <2>1, <2>2, WrittenDeletes
<1>8. ASSUME Sync PROVE DeletesUnlisted
  BY <1>1, <1>4, <1>5, <1>6, <1>8 DEF Sync, BeginSync, Close, Interrupt, tables
<1> QED
  BY <1>1, <1>7, <1>8 DEF Next, tables, vars

\* Routes are deleted only at the end of a listing that has hints, and every board
\* of these keeps another route.
THEOREM DeletionsAreUnlisted == Spec => DeletedWhenUnlisted
<1>1. [Next]_vars /\ IInv => [DeletesUnlisted]_vars
  BY StepDeletes
<1> QED
  BY <1>1, Invariance, PTL DEF Spec, DeletedWhenUnlisted
=============================================================================
