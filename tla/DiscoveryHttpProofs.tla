------------------------- MODULE DiscoveryHttpProofs -------------------------
(***************************************************************************)
(* What TLAPS proves of DiscoveryHttp, for any number of fetches, origins and *)
(* limits: the ledger of requests tells what the callers were told            *)
(* (LedgerExact), no slot is lost and a fetch that has its slots is never     *)
(* refused one (SlotsSuffice), and an open circuit lets nobody in             *)
(* (OpenAdmitsNobody).                                                        *)
(***************************************************************************)
EXTENDS DiscoveryHttp, FiniteSetTheorems, WellFoundedInduction, TLAPS

(***************************************************************************)
(* Finite sums.  SumFunction folds a function in the order of CHOOSE; its     *)
(* partial sums are shown to exist, and to change with one term, by the        *)
(* smallest set of indices that would lack them.                               *)
(***************************************************************************)

Chosen(s) == CHOOSE x \in s : TRUE
IsSum(g, f, D) == g = [s \in D |-> IF s = {} THEN 0 ELSE f[Chosen(s)] + g[s \ {Chosen(s)}]]
Sum(f) == CHOOSE g : IsSum(g, f, SUBSET DOMAIN f)

\* The sum of the library is the last of the partial sums.
LEMMA SumIs == ASSUME NEW f PROVE SumFunction(f) = Sum(f)[DOMAIN f]
BY DEF SumFunction, SumFunctionOnSet, FoldFunctionOnSet, MapThenFoldSet, Sum, IsSum, Chosen

\* What some number lacks, a smallest one lacks.
LEMMA Smallest ==
    ASSUME NEW T, T \subseteq Nat, T # {}
    PROVE  \E n \in T : \A k \in T : n <= k
<1>1. PICK n \in T : \A k \in T : ~(<<k, n>> \in OpToRel(<, Nat))
  BY WFMin, NatLessThanWellFounded
<1>2. \A k \in T : ~(k < n)
  BY <1>1 DEF OpToRel
<1> QED
  BY <1>2

LEMMA SmallerSets ==
    ASSUME NEW s, IsFiniteSet(s), s # {}
    PROVE  /\ Chosen(s) \in s /\ IsFiniteSet(s \ {Chosen(s)})
           /\ Cardinality(s) \in Nat /\ Cardinality(s \ {Chosen(s)}) = Cardinality(s) - 1
<1>1. Chosen(s) \in s
  BY DEF Chosen
<1> QED
  BY <1>1, FS_RemoveElement, FS_CardinalityType

\* A finite sum exists: the partial sums of at most n terms do, for every n.
LEMMA SumExists ==
    ASSUME NEW f, IsFiniteSet(DOMAIN f)
    PROVE  IsSum(Sum(f), f, SUBSET DOMAIN f)
<1> DEFINE D == DOMAIN f
           Upto(n) == {s \in SUBSET D : Cardinality(s) <= n}
           Lacking == {n \in Nat : ~\E g : IsSum(g, f, Upto(n))}
<1>0. \A s \in SUBSET D : IsFiniteSet(s) /\ Cardinality(s) \in Nat /\ Cardinality(s) <= Cardinality(D)
  BY FS_Subset, FS_CardinalityType
<1>1. Lacking = {}
  <2> SUFFICES ASSUME Lacking # {} PROVE FALSE
    OBVIOUS
  <2>1. PICK n \in Lacking : \A k \in Lacking : n <= k
    <3> HIDE DEF Lacking
    <3>1. Lacking \subseteq Nat
      BY DEF Lacking
    <3> QED
      BY <3>1, Smallest
  <2>2. CASE n = 0
    <3>1. \A s \in Upto(0) : s = {}
      BY <1>0, FS_EmptySet
    <3>2. IsSum([s \in Upto(0) |-> 0], f, Upto(0))
      BY <3>1 DEF IsSum
    <3> QED
      BY <2>2, <3>2
  <2>3. CASE n # 0
    <3>1. n - 1 \in Nat /\ n - 1 \notin Lacking
      <4>1. n \in Nat
        OBVIOUS
      <4> HIDE DEF Lacking
      <4> QED
        BY <2>1, <2>3, <4>1
    <3>2. PICK g : IsSum(g, f, Upto(n - 1))
      BY <3>1
    <3> DEFINE h == [s \in Upto(n) |-> IF s = {} THEN 0 ELSE f[Chosen(s)] + g[s \ {Chosen(s)}]]
    <3>3. ASSUME NEW s \in Upto(n), s # {}
          PROVE  s \ {Chosen(s)} \in Upto(n - 1) /\ s \ {Chosen(s)} \in Upto(n)
      <4>1. s \ {Chosen(s)} \in SUBSET D /\ Cardinality(s \ {Chosen(s)}) = Cardinality(s) - 1
        BY <1>0, <3>3, SmallerSets
      <4> QED
        BY <1>0, <4>1
    <3>4. \A t \in Upto(n - 1) : t \in Upto(n) => h[t] = g[t]
      BY <3>2 DEF IsSum
    <3>5. ASSUME NEW s \in Upto(n), s # {} PROVE h[s \ {Chosen(s)}] = g[s \ {Chosen(s)}]
      BY <3>3, <3>4, <3>5
    <3>6. IsSum(h, f, Upto(n))
      <4>1. h = [s \in Upto(n) |-> IF s = {} THEN 0 ELSE f[Chosen(s)] + h[s \ {Chosen(s)}]]
        <5>1. ASSUME NEW s \in Upto(n)
              PROVE  (IF s = {} THEN 0 ELSE f[Chosen(s)] + g[s \ {Chosen(s)}])
                        = (IF s = {} THEN 0 ELSE f[Chosen(s)] + h[s \ {Chosen(s)}])
          BY <3>5
        <5> QED
          BY <5>1, Zenon
      <4> QED
        BY <4>1 DEF IsSum
    <3> QED
      BY <2>1, <3>6
  <2> QED
    BY <2>2, <2>3
<1>2. Cardinality(D) \in Nat /\ Upto(Cardinality(D)) = SUBSET D
  BY <1>0, FS_CardinalityType
<1>3. \E g : IsSum(g, f, SUBSET D)
  <2> HIDE DEF Upto
  <2>1. \E g : IsSum(g, f, Upto(Cardinality(D)))
    BY <1>1, <1>2
  <2> QED
    BY <1>2, <2>1
<1> QED
  BY <1>3 DEF Sum

LEMMA SumUnfolds ==
    ASSUME NEW f, IsFiniteSet(DOMAIN f)
    PROVE  /\ Sum(f)[{}] = 0
           /\ \A s \in SUBSET DOMAIN f : s # {} =>
                Sum(f)[s] = f[Chosen(s)] + Sum(f)[s \ {Chosen(s)}]
BY SumExists DEF IsSum

\* One term more.
LEMMA SumChanged ==
    ASSUME NEW S, IsFiniteSet(S), NEW f \in [S -> Int], NEW h \in [S -> Int], NEW x \in S,
           \A y \in S \ {x} : h[y] = f[y]
    PROVE  /\ SumFunction(f) \in Int
           /\ SumFunction(h) = SumFunction(f) + (h[x] - f[x])
<1> DEFINE Rest(s) == s \ {Chosen(s)}
           Right(s) == /\ Sum(f)[s] \in Int
                       /\ Sum(h)[s] = Sum(f)[s] + (IF x \in s THEN h[x] - f[x] ELSE 0)
           Wrong == {n \in Nat : \E s \in SUBSET S : Cardinality(s) = n /\ ~Right(s)}
<1>0. \A s \in SUBSET S : IsFiniteSet(s) /\ Cardinality(s) \in Nat
  BY FS_Subset, FS_CardinalityType
<1>1. /\ Sum(f)[{}] = 0 /\ Sum(h)[{}] = 0
      /\ \A s \in SUBSET S : s # {} => Sum(f)[s] = f[Chosen(s)] + Sum(f)[Rest(s)]
      /\ \A s \in SUBSET S : s # {} => Sum(h)[s] = h[Chosen(s)] + Sum(h)[Rest(s)]
  <2>1. DOMAIN f = S /\ DOMAIN h = S
    OBVIOUS
  <2> QED
    BY <2>1, SumUnfolds
<1>2. Wrong = {}
  <2> SUFFICES ASSUME Wrong # {} PROVE FALSE
    OBVIOUS
  <2>1. PICK n \in Wrong : \A k \in Wrong : n <= k
    <3> HIDE DEF Wrong
    <3>1. Wrong \subseteq Nat
      BY DEF Wrong
    <3> QED
      BY <3>1, Smallest
  <2>2. PICK s \in SUBSET S : Cardinality(s) = n /\ ~Right(s)
    BY <2>1
  <2>3. CASE s = {}
    BY <1>1, <2>2, <2>3
  <2>4. CASE s # {}
    <3>1. /\ Chosen(s) \in s /\ Cardinality(Rest(s)) = n - 1 /\ n - 1 \in Nat
          /\ Rest(s) \in SUBSET S
      BY <1>0, <2>2, <2>4, SmallerSets
    <3>2. Right(Rest(s))
      <4> HIDE DEF Right, Rest
      <4>1. n - 1 \notin Wrong
        <5>1. n \in Nat
          BY <3>1, <1>0, <2>2
        <5> HIDE DEF Wrong
        <5> QED
          BY <2>1, <5>1
      <4> QED
        BY <3>1, <4>1
    <3>3. /\ Sum(f)[s] = f[Chosen(s)] + Sum(f)[Rest(s)]
          /\ Sum(h)[s] = h[Chosen(s)] + Sum(h)[Rest(s)]
      BY <1>1, <2>4
    <3>4. f[Chosen(s)] \in Int /\ h[Chosen(s)] \in Int /\ f[x] \in Int /\ h[x] \in Int
      BY <3>1
    <3>5. CASE Chosen(s) = x
      <4>1. x \in s /\ x \notin Rest(s)
        BY <3>1, <3>5
      <4>2. Sum(f)[Rest(s)] \in Int /\ Sum(h)[Rest(s)] = Sum(f)[Rest(s)]
        BY <3>2, <4>1
      <4>3. Sum(f)[s] = f[x] + Sum(f)[Rest(s)] /\ Sum(h)[s] = h[x] + Sum(f)[Rest(s)]
        BY <3>3, <3>5, <4>2
      <4>4. Sum(f)[s] \in Int /\ Sum(h)[s] = Sum(f)[s] + (h[x] - f[x])
        <5> HIDE DEF Rest
        <5> QED
          BY <3>4, <4>2, <4>3
      <4> QED
        BY <2>2, <4>1, <4>4
    <3>6. CASE Chosen(s) # x
      <4>1. h[Chosen(s)] = f[Chosen(s)] /\ (x \in s <=> x \in Rest(s))
        BY <3>1, <3>6
      <4> DEFINE d == IF x \in s THEN h[x] - f[x] ELSE 0
      <4>2. d \in Int
        BY <3>4
      <4>3. Sum(f)[Rest(s)] \in Int /\ Sum(h)[Rest(s)] = Sum(f)[Rest(s)] + d
        BY <3>2, <4>1
      <4>4. Sum(f)[s] \in Int /\ Sum(h)[s] = Sum(f)[s] + d
        <5> HIDE DEF Rest, d
        <5> QED
          BY <3>3, <3>4, <4>1, <4>2, <4>3
      <4> QED
        BY <2>2, <4>4
    <3> QED
      BY <3>5, <3>6
  <2> QED
    BY <2>3, <2>4
<1>3. Right(S)
  <2> HIDE DEF Right
  <2>1. Cardinality(S) \in Nat
    BY <1>0
  <2> QED
    BY <1>2, <2>1
<1>4. SumFunction(f) = Sum(f)[S] /\ SumFunction(h) = Sum(h)[S]
  BY SumIs
<1> QED
  BY <1>3, <1>4

LEMMA SumOfNone ==
    ASSUME NEW S, IsFiniteSet(S)
    PROVE  SumFunction([x \in S |-> 0]) = 0
<1> DEFINE f == [x \in S |-> 0]
           Wrong == {n \in Nat : \E s \in SUBSET S : Cardinality(s) = n /\ Sum(f)[s] # 0}
<1>0. \A s \in SUBSET S : IsFiniteSet(s) /\ Cardinality(s) \in Nat
  BY FS_Subset, FS_CardinalityType
<1>1. /\ Sum(f)[{}] = 0
      /\ \A s \in SUBSET S : s # {} => Sum(f)[s] = f[Chosen(s)] + Sum(f)[s \ {Chosen(s)}]
  <2>1. DOMAIN f = S
    OBVIOUS
  <2> HIDE DEF f
  <2> QED
    BY <2>1, SumUnfolds
<1>2. ASSUME Wrong # {} PROVE FALSE
  <2>1. PICK n \in Wrong : \A k \in Wrong : n <= k
    <3> HIDE DEF Wrong
    <3>1. Wrong \subseteq Nat
      BY DEF Wrong
    <3> QED
      BY <1>2, <3>1, Smallest
  <2>2. PICK s \in SUBSET S : Cardinality(s) = n /\ Sum(f)[s] # 0
    BY <2>1
  <2>3. s # {}
    BY <1>1, <2>2
  <2> DEFINE rest == s \ {Chosen(s)}
  <2>4. /\ Chosen(s) \in S /\ Cardinality(rest) = n - 1 /\ n - 1 \in Nat /\ n \in Nat
        /\ rest \in SUBSET S
    BY <1>0, <2>2, <2>3, SmallerSets
  <2>5. Sum(f)[rest] = 0
    <3>1. n - 1 \notin Wrong
      <4> HIDE DEF Wrong
      <4> QED
        BY <2>1, <2>4
    <3> HIDE DEF f, rest
    <3> QED
      BY <2>4, <3>1
  <2>6. f[Chosen(s)] = 0
    BY <2>4
  <2>7. Sum(f)[s] = f[Chosen(s)] + Sum(f)[rest]
    <3> HIDE DEF f
    <3> QED
      BY <1>1, <2>3
  <2> QED
    <3> HIDE DEF f, rest
    <3> QED
      BY <2>2, <2>5, <2>6, <2>7
<1>3. Sum(f)[S] = 0
  <2> HIDE DEF f
  <2> QED
    BY <1>0, <1>2
<1>4. SumFunction(f) = Sum(f)[S]
  BY SumIs
<1> QED
  BY <1>3, <1>4

(***************************************************************************)
(* The inductive invariant.                                                  *)
(***************************************************************************)

Sent(o) == {t \in Fetches : fetch[t].origin = o /\ UnderWay(t)}
AllSent == {t \in Fetches : UnderWay(t)}
Receipts == [t \in Fetches |-> fetch[t].receipts]
Sizings == [t \in Fetches |-> fetch[t].admitted]

\* The ledger counts the attempts that stand between their request and their answer.
SentCounted ==
    /\ \A o \in Origins : ledger.inFlight[o] = Cardinality(Sent(o))
    /\ InFlight = Cardinality(AllSent)

\* What the callers hold receipts for.
ReceiptsCounted ==
    /\ ledger.consumed = SumFunction(Receipts)
    /\ bytes = ledger.admitted
    /\ bytes = SumFunction(Sizings)

LimitsKept ==
    /\ ledger.consumed + InFlight <= limits.requests /\ bytes <= limits.bytes
    /\ Cardinality(ledger.origins) <= limits.origins
    /\ \A k \in Limited : ledger.kinds[k] <= limits[k]

\* What is known of a fetch from where it stands.
StageOK(t) ==
    /\ At(t, "backoff") => fetch[t].attempt < limits.attempts
    /\ At(t, "redirected") => fetch[t].hops < limits.redirect
    /\ fetch[t].admitted # 0 => At(t, "succeeded") \/ At(t, "done")
    /\ fetch[t].outcome # "no_slot"

StagesOK == \A t \in Fetches : StageOK(t)

IInv == SlotsKept /\ SentCounted /\ ReceiptsCounted /\ LimitsKept /\ StagesOK /\ OpenAdmitsNobody

(***************************************************************************)
(* What a step does to the calls: one of them changes.                        *)
(***************************************************************************)

Only(t) == \A q \in Fetches \ {t} : fetch'[q] = fetch[q]
SameRequest(t) ==
    /\ fetch'[t].origin = fetch[t].origin /\ fetch'[t].kind = fetch[t].kind
    /\ fetch'[t].attempt = fetch[t].attempt /\ fetch'[t].hops = fetch[t].hops
SameReceipts(t) ==
    fetch'[t].receipts = fetch[t].receipts /\ fetch'[t].admitted = fetch[t].admitted

\* A call that moves on.
LEMMA CallGoes ==
    ASSUME TypeOK, NEW t \in Fetches, NEW pc \in Points, Goes(t, pc)
    PROVE  /\ fetch' \in [Fetches -> Calls] /\ Only(t) /\ SameRequest(t) /\ SameReceipts(t)
           /\ fetch'[t].pc = pc /\ fetch'[t].outcome = fetch[t].outcome
BY DEF TypeOK, Goes, Calls, Only, SameRequest, SameReceipts

\* A call that ends.
LEMMA CallEnds ==
    ASSUME TypeOK, NEW t \in Fetches, NEW outcome \in Outcomes, Ends(t, outcome)
    PROVE  /\ fetch' \in [Fetches -> Calls] /\ Only(t) /\ SameRequest(t) /\ SameReceipts(t)
           /\ fetch'[t].pc = "done" /\ fetch'[t].outcome = outcome
<1>1. "done" \in Points
  BY DEF Points
<1> QED
  BY <1>1 DEF TypeOK, Ends, Calls, Only, SameRequest, SameReceipts

\* A call whose attempt is finished without a body.
LEMMA CallReceives ==
    ASSUME TypeOK, NEW t \in Fetches, NEW pc \in Points, NEW outcome \in Outcomes,
           Receives(t, pc, outcome)
    PROVE  /\ fetch' \in [Fetches -> Calls] /\ Only(t) /\ SameRequest(t)
           /\ fetch'[t].pc = pc /\ fetch'[t].outcome = outcome
           /\ fetch'[t].receipts = fetch[t].receipts + 1
           /\ fetch'[t].admitted = fetch[t].admitted
<1> DEFINE n == fetch[t].receipts + 1
           new == [fetch[t] EXCEPT !.pc = pc, !.outcome = outcome, !.receipts = n]
<1>2. fetch' = [fetch EXCEPT ![t] = new] /\ fetch \in [Fetches -> Calls]
  BY DEF TypeOK, Receives
<1>3. fetch[t] \in Calls
  BY <1>2
<1>4. new \in Calls
  <2>1. n \in Nat
    BY <1>3 DEF Calls
  <2> HIDE DEF n
  <2> QED
    BY <1>3, <2>1 DEF Calls
<1>5. /\ new.origin = fetch[t].origin /\ new.kind = fetch[t].kind /\ new.attempt = fetch[t].attempt
      /\ new.hops = fetch[t].hops /\ new.admitted = fetch[t].admitted
  BY <1>3 DEF Calls
<1>6. new.pc = pc /\ new.outcome = outcome /\ new.receipts = fetch[t].receipts + 1
  BY <1>3 DEF Calls
<1> HIDE DEF new
<1>7. fetch'[t] = new /\ fetch' \in [Fetches -> Calls] /\ Only(t)
  BY <1>2, <1>4 DEF Only
<1> QED
  BY <1>5, <1>6, <1>7 DEF SameRequest, SameReceipts

\* A call whose body was read.
LEMMA CallReads ==
    ASSUME TypeOK, NEW t \in Fetches, NEW size \in Sizes, Body(t, size)
    PROVE  /\ fetch' \in [Fetches -> Calls] /\ Only(t) /\ SameRequest(t)
           /\ fetch'[t].pc = "succeeded" /\ fetch'[t].outcome = fetch[t].outcome
           /\ fetch'[t].receipts = fetch[t].receipts + 1
           /\ fetch'[t].admitted = size
<1>1. "succeeded" \in Points /\ size \in Nat
  BY DiscoveryHttpAssumption DEF Points
<1> DEFINE n == fetch[t].receipts + 1
           new == [fetch[t] EXCEPT !.pc = "succeeded", !.receipts = n, !.admitted = size]
<1>2. fetch' = [fetch EXCEPT ![t] = new] /\ fetch \in [Fetches -> Calls]
  BY DEF TypeOK, Body
<1>3. fetch[t] \in Calls
  BY <1>2
<1>4. new \in Calls
  <2>1. n \in Nat
    BY <1>3 DEF Calls
  <2> HIDE DEF n
  <2> QED
    BY <1>1, <1>3, <2>1 DEF Calls
<1>5. /\ new.origin = fetch[t].origin /\ new.kind = fetch[t].kind /\ new.attempt = fetch[t].attempt
      /\ new.hops = fetch[t].hops /\ new.outcome = fetch[t].outcome
  BY <1>3 DEF Calls
<1>6. new.pc = "succeeded" /\ new.admitted = size /\ new.receipts = fetch[t].receipts + 1
  BY <1>3 DEF Calls
<1> HIDE DEF new
<1>7. fetch'[t] = new /\ fetch' \in [Fetches -> Calls] /\ Only(t)
  BY <1>2, <1>4 DEF Only
<1> QED
  BY <1>5, <1>6, <1>7 DEF SameRequest, SameReceipts

\* A call that is redirected.
LEMMA CallFollows ==
    ASSUME TypeOK, NEW t \in Fetches, NEW o \in Origins, Follow(t, o)
    PROVE  /\ fetch' \in [Fetches -> Calls] /\ Only(t) /\ SameReceipts(t)
           /\ fetch'[t].pc = "wait" /\ fetch'[t].outcome = fetch[t].outcome
           /\ fetch'[t].origin = o /\ fetch'[t].attempt = 1
           /\ fetch'[t].hops = fetch[t].hops + 1
<1>1. "wait" \in Points /\ "redirect" \in Kinds
  BY DEF Points, Kinds
<1> DEFINE n == fetch[t].hops + 1
           new == [fetch[t] EXCEPT !.pc = "wait", !.origin = o, !.kind = "redirect",
                                       !.attempt = 1, !.hops = n]
<1>2. fetch' = [fetch EXCEPT ![t] = new] /\ fetch \in [Fetches -> Calls]
  BY DEF TypeOK, Follow
<1>3. fetch[t] \in Calls
  BY <1>2
<1>4. new \in Calls
  <2>1. n \in Nat
    BY <1>3 DEF Calls
  <2> HIDE DEF n
  <2> QED
    BY <1>1, <1>3, <2>1 DEF Calls
<1>5. /\ new.origin = o /\ new.attempt = 1 /\ new.hops = fetch[t].hops + 1
  BY <1>3 DEF Calls
<1>6. /\ new.pc = "wait" /\ new.outcome = fetch[t].outcome
      /\ new.receipts = fetch[t].receipts /\ new.admitted = fetch[t].admitted
  BY <1>3 DEF Calls
<1> HIDE DEF new
<1>7. fetch'[t] = new /\ fetch' \in [Fetches -> Calls] /\ Only(t)
  BY <1>2, <1>4 DEF Only
<1> QED
  BY <1>5, <1>6, <1>7 DEF SameRequest, SameReceipts

\* A call that tries again.
LEMMA CallRetries ==
    ASSUME TypeOK, NEW t \in Fetches,
           fetch' = [fetch EXCEPT ![t].pc = "wait", ![t].kind = "retry", ![t].attempt = @ + 1]
    PROVE  /\ fetch' \in [Fetches -> Calls] /\ Only(t) /\ SameReceipts(t)
           /\ fetch'[t].pc = "wait" /\ fetch'[t].outcome = fetch[t].outcome
           /\ fetch'[t].origin = fetch[t].origin /\ fetch'[t].hops = fetch[t].hops
           /\ fetch'[t].attempt = fetch[t].attempt + 1
<1>1. "wait" \in Points /\ "retry" \in Kinds
  BY DEF Points, Kinds
<1> DEFINE n == fetch[t].attempt + 1
           new == [fetch[t] EXCEPT !.pc = "wait", !.kind = "retry", !.attempt = n]
<1>2. fetch' = [fetch EXCEPT ![t] = new] /\ fetch \in [Fetches -> Calls]
  BY DEF TypeOK
<1>3. fetch[t] \in Calls
  BY <1>2
<1>4. new \in Calls
  <2>1. n \in Nat
    BY <1>3 DEF Calls
  <2> HIDE DEF n
  <2> QED
    BY <1>1, <1>3, <2>1 DEF Calls
<1>5. /\ new.origin = fetch[t].origin /\ new.hops = fetch[t].hops
      /\ new.attempt = fetch[t].attempt + 1
  BY <1>3 DEF Calls
<1>6. /\ new.pc = "wait" /\ new.outcome = fetch[t].outcome
      /\ new.receipts = fetch[t].receipts /\ new.admitted = fetch[t].admitted
  BY <1>3 DEF Calls
<1> HIDE DEF new
<1>7. fetch'[t] = new /\ fetch' \in [Fetches -> Calls] /\ Only(t)
  BY <1>2, <1>4 DEF Only
<1> QED
  BY <1>5, <1>6, <1>7 DEF SameRequest, SameReceipts

(***************************************************************************)
(* Counting: sets of fetches that differ in one.                              *)
(***************************************************************************)

One(b) == IF b THEN 1 ELSE 0

\* Two finite sets that differ at most in one member.
LEMMA CountOne ==
    ASSUME NEW S, NEW T, IsFiniteSet(S), IsFiniteSet(T), NEW t, S \ {t} = T \ {t}
    PROVE  /\ Cardinality(S) \in Nat /\ Cardinality(T) \in Nat
           /\ Cardinality(T) + One(t \in S) = Cardinality(S) + One(t \in T)
<1> DEFINE R == S \ {t}
<1>1. IsFiniteSet(R) /\ Cardinality(R) \in Nat /\ t \notin R
  BY FS_Subset, FS_CardinalityType
<1>2. ASSUME NEW U, U \ {t} = R PROVE Cardinality(U) = Cardinality(R) + One(t \in U)
  <2>1. CASE t \in U
    <3>1. U = R \cup {t}
      BY <1>2, <2>1
    <3> HIDE DEF R
    <3> QED
      BY <1>1, <2>1, <3>1, FS_AddElement DEF One
  <2>2. CASE t \notin U
    <3>1. U = R
      BY <1>2, <2>2
    <3> QED
      BY <1>1, <2>2, <3>1 DEF One
  <2> QED
    BY <2>1, <2>2
<1>3. Cardinality(S) = Cardinality(R) + One(t \in S)
  BY <1>2
<1>4. Cardinality(T) = Cardinality(R) + One(t \in T)
  BY <1>2
<1>5. One(t \in S) \in Nat /\ One(t \in T) \in Nat
  BY DEF One
<1> HIDE DEF R
<1> QED
  BY <1>1, <1>3, <1>4, <1>5

\* What is counted are finite sets, in every state.
LEMMA Countable ==
    /\ IsFiniteSet(Running) /\ IsFiniteSet(AllSent)
    /\ \A o \in Origins : IsFiniteSet(Holders(o)) /\ IsFiniteSet(Sent(o))
<1>1. Running \subseteq Fetches /\ AllSent \subseteq Fetches
  BY DEF Running, AllSent
<1>2. \A o \in Origins : Holders(o) \subseteq Fetches /\ Sent(o) \subseteq Fetches
  BY DEF Holders, Sent
<1> QED
  BY <1>1, <1>2, FS_Subset, DiscoveryHttpAssumption

\* The sets change at most in the fetch that steps.
LEMMA OthersCount ==
    ASSUME NEW t \in Fetches, Only(t)
    PROVE  /\ Running' \ {t} = Running \ {t} /\ AllSent' \ {t} = AllSent \ {t}
           /\ \A o \in Origins : /\ Holders(o)' \ {t} = Holders(o) \ {t}
                                 /\ Sent(o)' \ {t} = Sent(o) \ {t}
BY DEF Only, Running, AllSent, Holders, Sent, HoldsGlobal, HoldsOrigin, UnderWay

\* The slots go to and come from the fetch that steps.
LEMMA SlotsMove ==
    ASSUME TypeOK, SlotsKept, NEW t \in Fetches, Only(t), limits' = limits,
           originFree' \in [Origins -> Nat], globalFree' \in Nat,
           \A o \in Origins : originFree'[o] + One(t \in Holders(o)')
                                  = originFree[o] + One(t \in Holders(o)),
           globalFree' + One(t \in Running') = globalFree + One(t \in Running)
    PROVE  SlotsKept'
<1>0. /\ IsFiniteSet(Running') /\ IsFiniteSet(Running)
      /\ \A o \in Origins : IsFiniteSet(Holders(o)') /\ IsFiniteSet(Holders(o))
  <2>1. \A S : S \subseteq Fetches => IsFiniteSet(S)
    BY FS_Subset, DiscoveryHttpAssumption
  <2>2. Running' \subseteq Fetches /\ \A o \in Origins : Holders(o)' \subseteq Fetches
    BY DEF Running, Holders
  <2> QED
    BY <2>1, <2>2, Countable
<1>1. \A b \in BOOLEAN : One(b) \in Nat
  BY DEF One
<1>2. ASSUME NEW o \in Origins PROVE originFree'[o] + Cardinality(Holders(o)') = limits.perOrigin
  <2>1. /\ Cardinality(Holders(o)) \in Nat /\ Cardinality(Holders(o)') \in Nat
        /\ Cardinality(Holders(o)') + One(t \in Holders(o))
              = Cardinality(Holders(o)) + One(t \in Holders(o)')
    BY <1>0, CountOne, OthersCount
  <2>2. One(t \in Holders(o)) \in Nat /\ One(t \in Holders(o)') \in Nat
    BY DEF One
  <2>3. originFree[o] \in Nat /\ originFree'[o] \in Nat
    BY DEF TypeOK
  <2>4. originFree[o] + Cardinality(Holders(o)) = limits.perOrigin
    BY DEF SlotsKept
  <2> QED
    BY <2>1, <2>2, <2>3, <2>4
<1>3. globalFree' + Cardinality(Running') = limits.concurrency
  <2>1. /\ Cardinality(Running) \in Nat /\ Cardinality(Running') \in Nat
        /\ Cardinality(Running') + One(t \in Running) = Cardinality(Running) + One(t \in Running')
    BY <1>0, CountOne, OthersCount
  <2>2. One(t \in Running) \in Nat /\ One(t \in Running') \in Nat
    BY DEF One
  <2>3. globalFree + Cardinality(Running) = limits.concurrency /\ globalFree \in Nat
    BY DEF SlotsKept, TypeOK
  <2> QED
    BY <2>1, <2>2, <2>3
<1> QED
  BY <1>2, <1>3 DEF SlotsKept

\* A fetch that leaves gives back what it holds.
LEMMA SlotsReleased ==
    ASSUME TypeOK, SlotsKept, NEW t \in Fetches, Only(t), limits' = limits, Released(t),
           fetch'[t].pc \in {"wait", "backoff", "done"}
    PROVE  SlotsKept' /\ originFree' \in [Origins -> Nat] /\ globalFree' \in Nat
<1>0. fetch[t].origin \in Origins /\ originFree \in [Origins -> Nat] /\ globalFree \in Nat
  BY DEF TypeOK, Calls
<1> DEFINE d == IF HoldsOrigin(t) THEN 1 ELSE 0
           e == IF HoldsGlobal(t) THEN 1 ELSE 0
<1>1. /\ originFree' = [originFree EXCEPT ![fetch[t].origin] = @ + d]
      /\ globalFree' = globalFree + e
  BY DEF Released
<1>2. t \notin Running' /\ \A o \in Origins : t \notin Holders(o)'
  BY DEF Running, Holders, HoldsGlobal, HoldsOrigin
<1>3. d \in Nat /\ e \in Nat
  OBVIOUS
<1>4. \A o \in Origins : One(t \in Holders(o)) = IF o = fetch[t].origin THEN d ELSE 0
  BY DEF One, Holders
<1>5. One(t \in Running) = e
  BY DEF One, Running
<1> HIDE DEF d, e
<1>6. originFree' \in [Origins -> Nat] /\ globalFree' \in Nat
  BY <1>0, <1>1, <1>3
<1>7. \A o \in Origins : One(t \in Holders(o)') = 0
  BY <1>2 DEF One
<1>8. ASSUME NEW o \in Origins
      PROVE  originFree'[o] + One(t \in Holders(o)') = originFree[o] + One(t \in Holders(o))
  <2>1. originFree'[o] = originFree[o] + (IF o = fetch[t].origin THEN d ELSE 0)
    BY <1>0, <1>1, <1>3
  <2>2. originFree'[o] \in Nat /\ One(t \in Holders(o)') = 0
    BY <1>6, <1>7
  <2> QED
    BY <2>1, <2>2, <1>4
<1>9. globalFree' + One(t \in Running') = globalFree + One(t \in Running)
  <2>1. One(t \in Running') = 0
    BY <1>2 DEF One
  <2>2. globalFree' = globalFree + e /\ globalFree' \in Nat /\ One(t \in Running) = e
    BY <1>1, <1>5, <1>6
  <2> QED
    BY <2>1, <2>2
<1> QED
  BY <1>6, <1>8, <1>9, SlotsMove

\* A fetch that holds what it held.
LEMMA SlotsStay ==
    ASSUME TypeOK, SlotsKept, NEW t \in Fetches, Only(t), limits' = limits, UNCHANGED slots,
           HoldsOrigin(t)' <=> HoldsOrigin(t), HoldsGlobal(t)' <=> HoldsGlobal(t),
           HoldsOrigin(t) => fetch'[t].origin = fetch[t].origin
    PROVE  SlotsKept' /\ originFree' \in [Origins -> Nat] /\ globalFree' \in Nat
<1>1. originFree' = originFree /\ globalFree' = globalFree
  BY DEF slots
<1>2. /\ t \in Running' <=> t \in Running
      /\ \A o \in Origins : t \in Holders(o)' <=> t \in Holders(o)
  BY DEF Running, Holders
<1>3. originFree' \in [Origins -> Nat] /\ globalFree' \in Nat
  BY <1>1 DEF TypeOK
<1>4. \A o \in Origins : originFree'[o] + One(t \in Holders(o)')
                             = originFree[o] + One(t \in Holders(o))
  BY <1>1, <1>2 DEF One
<1>5. globalFree' + One(t \in Running') = globalFree + One(t \in Running)
  BY <1>1, <1>2 DEF One
<1> QED
  BY <1>3, <1>4, <1>5, SlotsMove

\* The attempts under way are those that were, but for the one of the fetch that steps.
LEMMA SentMove ==
    ASSUME TypeOK, SentCounted, NEW t \in Fetches, Only(t), NEW d \in Int, NEW o \in Origins,
           ledger'.inFlight \in [Origins -> Int],
           \A p \in Origins : ledger'.inFlight[p] = ledger.inFlight[p] + IF p = o THEN d ELSE 0,
           \A p \in Origins : One(t \in Sent(p)')
                                  = One(t \in Sent(p)) + IF p = o THEN d ELSE 0,
           One(t \in AllSent') = One(t \in AllSent) + d
    PROVE  SentCounted' /\ InFlight' = InFlight + d /\ InFlight' \in Nat
<1>0. /\ IsFiniteSet(AllSent') /\ IsFiniteSet(AllSent)
      /\ \A p \in Origins : IsFiniteSet(Sent(p)') /\ IsFiniteSet(Sent(p))
  <2>1. \A S : S \subseteq Fetches => IsFiniteSet(S)
    BY FS_Subset, DiscoveryHttpAssumption
  <2>2. AllSent' \subseteq Fetches /\ \A p \in Origins : Sent(p)' \subseteq Fetches
    BY DEF AllSent, Sent
  <2> QED
    BY <2>1, <2>2, Countable
<1>1. ledger.inFlight \in [Origins -> Nat]
  BY DEF TypeOK, Ledgers
<1>2. ASSUME NEW p \in Origins PROVE ledger'.inFlight[p] = Cardinality(Sent(p)')
  <2> DEFINE c == IF p = o THEN d ELSE 0
  <2>1. /\ Cardinality(Sent(p)) \in Nat /\ Cardinality(Sent(p)') \in Nat
        /\ Cardinality(Sent(p)') + One(t \in Sent(p)) = Cardinality(Sent(p)) + One(t \in Sent(p)')
    BY <1>0, CountOne, OthersCount
  <2>2. One(t \in Sent(p)) \in Nat /\ One(t \in Sent(p)') \in Nat
    BY DEF One
  <2>3. c \in Int /\ One(t \in Sent(p)') = One(t \in Sent(p)) + c
    OBVIOUS
  <2>4. ledger'.inFlight[p] = ledger.inFlight[p] + c
    OBVIOUS
  <2>5. ledger.inFlight[p] = Cardinality(Sent(p))
    BY DEF SentCounted
  <2> HIDE DEF c
  <2> QED
    BY <2>1, <2>2, <2>3, <2>4, <2>5
<1>3. InFlight' = InFlight + d
  <2>1. \A p \in Origins \ {o} : ledger'.inFlight[p] = ledger.inFlight[p]
    BY <1>1
  <2>2. ledger.inFlight \in [Origins -> Int]
    BY <1>1
  <2>3. /\ SumFunction(ledger.inFlight) \in Int
        /\ SumFunction(ledger'.inFlight)
              = SumFunction(ledger.inFlight) + (ledger'.inFlight[o] - ledger.inFlight[o])
    BY <2>1, <2>2, SumChanged, DiscoveryHttpAssumption
  <2>4. ledger'.inFlight[o] = ledger.inFlight[o] + d /\ ledger.inFlight[o] \in Int
    BY <2>2
  <2> QED
    BY <2>3, <2>4 DEF InFlight
<1>4. InFlight' = Cardinality(AllSent')
  <2>1. /\ Cardinality(AllSent) \in Nat /\ Cardinality(AllSent') \in Nat
        /\ Cardinality(AllSent') + One(t \in AllSent) = Cardinality(AllSent) + One(t \in AllSent')
    BY <1>0, CountOne, OthersCount
  <2>2. One(t \in AllSent) \in Nat /\ One(t \in AllSent') \in Nat
    BY DEF One
  <2>3. InFlight = Cardinality(AllSent)
    BY DEF SentCounted
  <2> QED
    BY <1>3, <2>1, <2>2, <2>3
<1>5. Cardinality(AllSent') \in Nat
  BY <1>0, FS_CardinalityType
<1> QED
  BY <1>2, <1>3, <1>4, <1>5 DEF SentCounted

\* A step that neither reserves nor finishes.
LEMMA SentStays ==
    ASSUME TypeOK, SentCounted, NEW t \in Fetches, Only(t), ledger' = ledger,
           UnderWay(t)' <=> UnderWay(t),
           UnderWay(t) => fetch'[t].origin = fetch[t].origin
    PROVE  SentCounted' /\ InFlight' = InFlight /\ InFlight \in Nat
<1>1. fetch[t].origin \in Origins /\ ledger.inFlight \in [Origins -> Nat]
  BY DEF TypeOK, Calls, Ledgers
<1>2. \A p \in Origins : One(t \in Sent(p)') = One(t \in Sent(p))
  BY DEF One, Sent
<1>3. One(t \in AllSent') = One(t \in AllSent)
  BY DEF One, AllSent
<1>4. One(t \in AllSent) \in Nat /\ \A p \in Origins : One(t \in Sent(p)) \in Nat
  BY DEF One
<1> DEFINE o == fetch[t].origin
<1>5. \A p \in Origins : ledger'.inFlight[p] = ledger.inFlight[p] + IF p = o THEN 0 ELSE 0
  BY <1>1
<1>6. \A p \in Origins : One(t \in Sent(p)') = One(t \in Sent(p)) + IF p = o THEN 0 ELSE 0
  BY <1>2, <1>4
<1>7. One(t \in AllSent') = One(t \in AllSent) + 0
  BY <1>3, <1>4
<1>8. ledger'.inFlight \in [Origins -> Int]
  BY <1>1
<1>9. InFlight \in Nat
  BY Countable, FS_CardinalityType DEF SentCounted
<1>10. SentCounted' /\ InFlight' = InFlight + 0
  <2> HIDE DEF o
  <2>1. o \in Origins
    BY <1>1 DEF o
  <2> QED
    BY <1>5, <1>6, <1>7, <1>8, <2>1, SentMove
<1> QED
  BY <1>9, <1>10

\* An attempt is finished: it was counted until then.
LEMMA SentFinishes ==
    ASSUME TypeOK, SentCounted, NEW t \in Fetches, Only(t), NEW size \in Nat, Finished(t, size),
           UnderWay(t), ~UnderWay(t)'
    PROVE  /\ SentCounted' /\ ledger' \in Ledgers
           /\ InFlight \in Nat /\ InFlight' = InFlight - 1
           /\ ledger'.consumed = ledger.consumed + 1
           /\ ledger'.admitted = ledger.admitted + size
           /\ ledger'.origins = ledger.origins /\ ledger'.kinds = ledger.kinds
<1> DEFINE o == fetch[t].origin
<1>1. o \in Origins /\ ledger \in Ledgers /\ ledger.inFlight \in [Origins -> Nat]
  BY DEF TypeOK, Calls, Ledgers
<1>2. ledger.inFlight[o] >= 1
  <2>1. t \in Sent(o) /\ IsFiniteSet(Sent(o))
    BY <1>1, Countable DEF Sent
  <2>2. Cardinality(Sent(o)) \in Nat /\ Cardinality(Sent(o)) # 0
    BY <2>1, FS_EmptySet, FS_CardinalityType
  <2> QED
    BY <1>1, <2>2 DEF SentCounted
<1> DEFINE flying == [ledger.inFlight EXCEPT ![o] = @ - 1]
           new == [ledger EXCEPT !.consumed = @ + 1, !.admitted = @ + size, !.inFlight[o] = @ - 1]
<1>3. ledger' = new
  BY DEF Finished
<1>4. /\ new.consumed = ledger.consumed + 1 /\ new.admitted = ledger.admitted + size
      /\ new.origins = ledger.origins /\ new.kinds = ledger.kinds
  BY <1>1 DEF Ledgers
<1>5. new.inFlight = flying
  BY <1>1 DEF Ledgers
<1>6. flying \in [Origins -> Nat]
  BY <1>1, <1>2
<1>7. new \in Ledgers
  <2> DEFINE n == ledger.consumed + 1
             m == ledger.admitted + size
             g == [ledger EXCEPT !.consumed = n, !.admitted = m, !.inFlight = flying]
  <2>1. n \in Nat /\ m \in Nat
    BY <1>1 DEF Ledgers
  <2>2. g \in Ledgers
    <3> HIDE DEF n, m, flying
    <3> QED
      BY <1>1, <1>6, <2>1 DEF Ledgers
  <2>3. new = g
    BY <1>1 DEF Ledgers
  <2> QED
    BY <2>2, <2>3
<1>8. \A p \in Origins : ledger'.inFlight[p] = ledger.inFlight[p] + IF p = o THEN -1 ELSE 0
  <2>1. ledger'.inFlight = flying
    BY <1>3, <1>5
  <2>2. \A p \in Origins : flying[p] = ledger.inFlight[p] + IF p = o THEN -1 ELSE 0
    BY <1>1
  <2> QED
    BY <2>1, <2>2
<1>9. \A p \in Origins : One(t \in Sent(p)') = One(t \in Sent(p)) + IF p = o THEN -1 ELSE 0
  <2>1. \A p \in Origins : t \notin Sent(p)' /\ (t \in Sent(p) <=> p = o)
    BY DEF Sent
  <2> QED
    BY <2>1 DEF One
<1>10. One(t \in AllSent') = One(t \in AllSent) + (-1)
  <2>1. t \notin AllSent' /\ t \in AllSent
    BY DEF AllSent
  <2> QED
    BY <2>1 DEF One
<1>11. InFlight \in Nat
  BY Countable, FS_CardinalityType DEF SentCounted
<1>12. ledger'.inFlight \in [Origins -> Int]
  BY <1>3, <1>5, <1>6
<1>13. SentCounted' /\ InFlight' = InFlight + (-1)
  <2> HIDE DEF o
  <2> QED
    BY <1>1, <1>8, <1>9, <1>10, <1>12, SentMove
<1> HIDE DEF new
<1> QED
  BY <1>3, <1>4, <1>7, <1>11, <1>13

\* An attempt is reserved, and counted from then on.
LEMMA SentReserves ==
    ASSUME TypeOK, SentCounted, NEW t \in Fetches, Only(t), Reserve(t),
           fetch'[t].pc = "sent", fetch'[t].origin = fetch[t].origin
    PROVE  /\ SentCounted' /\ ledger' \in Ledgers
           /\ InFlight \in Nat /\ InFlight' = InFlight + 1
           /\ ledger'.consumed = ledger.consumed
           /\ ledger'.admitted = ledger.admitted
           /\ ledger'.origins = ledger.origins \cup {fetch[t].origin}
           /\ ledger'.kinds = [ledger.kinds EXCEPT ![fetch[t].kind] = @ + 1]
<1> DEFINE o == fetch[t].origin
           k == fetch[t].kind
<1>1. /\ o \in Origins /\ k \in Kinds /\ ledger \in Ledgers
      /\ ledger.inFlight \in [Origins -> Nat] /\ ledger.kinds \in [Kinds -> Nat]
      /\ ledger.origins \in SUBSET Origins
  BY DEF TypeOK, Calls, Ledgers
<1> DEFINE flying == [ledger.inFlight EXCEPT ![o] = @ + 1]
           counts == [ledger.kinds EXCEPT ![k] = @ + 1]
           known == ledger.origins \cup {o}
           new == [ledger EXCEPT !.origins = @ \cup {o}, !.inFlight[o] = @ + 1,
                                 !.kinds[k] = @ + 1]
<1>2. ledger' = new
  BY DEF Reserve
<1>3. /\ new.consumed = ledger.consumed /\ new.admitted = ledger.admitted
      /\ new.origins = known
  BY <1>1 DEF Ledgers
<1>4. new.inFlight = flying /\ new.kinds = counts
  BY <1>1 DEF Ledgers
<1>5. flying \in [Origins -> Nat] /\ counts \in [Kinds -> Nat] /\ known \in SUBSET Origins
  BY <1>1
<1>6. new \in Ledgers
  <2> DEFINE g == [ledger EXCEPT !.origins = known, !.inFlight = flying, !.kinds = counts]
  <2>1. g \in Ledgers
    <3> HIDE DEF known, flying, counts
    <3> QED
      BY <1>1, <1>5 DEF Ledgers
  <2>2. new = g
    BY <1>1 DEF Ledgers
  <2> QED
    BY <2>1, <2>2
<1>7. \A p \in Origins : ledger'.inFlight[p] = ledger.inFlight[p] + IF p = o THEN 1 ELSE 0
  <2>1. ledger'.inFlight = flying
    BY <1>2, <1>4
  <2>2. \A p \in Origins : flying[p] = ledger.inFlight[p] + IF p = o THEN 1 ELSE 0
    BY <1>1
  <2> QED
    BY <2>1, <2>2
<1>8. \A p \in Origins : One(t \in Sent(p)') = One(t \in Sent(p)) + IF p = o THEN 1 ELSE 0
  <2>1. \A p \in Origins : t \notin Sent(p) /\ (t \in Sent(p)' <=> p = o)
    BY DEF Sent, UnderWay, Reserve, At
  <2> QED
    BY <2>1 DEF One
<1>9. One(t \in AllSent') = One(t \in AllSent) + 1
  <2>1. t \in AllSent' /\ t \notin AllSent
    BY DEF AllSent, UnderWay, Reserve, At
  <2> QED
    BY <2>1 DEF One
<1>10. InFlight \in Nat
  BY Countable, FS_CardinalityType DEF SentCounted
<1>11. ledger'.inFlight \in [Origins -> Int]
  BY <1>2, <1>4, <1>5
<1>12. SentCounted' /\ InFlight' = InFlight + 1
  <2> HIDE DEF o
  <2> QED
    BY <1>1, <1>7, <1>8, <1>9, <1>11, SentMove
<1> HIDE DEF new
<1> QED
  BY <1>2, <1>3, <1>4, <1>6, <1>10, <1>12

\* What the receipts of the fetch that steps add is what the ledger adds.
LEMMA ReceiptsMove ==
    ASSUME TypeOK, ReceiptsCounted, NEW t \in Fetches, Only(t), fetch' \in [Fetches -> Calls],
           NEW n \in Nat, NEW size \in Nat,
           fetch'[t].receipts = fetch[t].receipts + n, ledger'.consumed = ledger.consumed + n,
           fetch'[t].admitted = fetch[t].admitted + size,
           ledger'.admitted = ledger.admitted + size, bytes' = bytes + size
    PROVE  ReceiptsCounted'
<1>0. \A q \in Fetches : fetch[q] \in Calls /\ fetch'[q] \in Calls
  BY DEF TypeOK
<1>1. Receipts \in [Fetches -> Int] /\ Receipts' \in [Fetches -> Int]
  <2>1. \A q \in Fetches : fetch[q].receipts \in Int /\ fetch'[q].receipts \in Int
    BY <1>0 DEF Calls
  <2> QED
    BY <2>1 DEF Receipts
<1>2. Sizings \in [Fetches -> Int] /\ Sizings' \in [Fetches -> Int]
  <2>1. \A q \in Fetches : fetch[q].admitted \in Int /\ fetch'[q].admitted \in Int
    BY <1>0 DEF Calls
  <2> QED
    BY <2>1 DEF Sizings
<1>3. /\ \A q \in Fetches \ {t} : Receipts'[q] = Receipts[q]
      /\ Receipts'[t] = Receipts[t] + n /\ Receipts[t] \in Int
  BY <1>1 DEF Receipts, Only
<1>4. /\ \A q \in Fetches \ {t} : Sizings'[q] = Sizings[q]
      /\ Sizings'[t] = Sizings[t] + size /\ Sizings[t] \in Int
  BY <1>2 DEF Sizings, Only
<1>5. /\ SumFunction(Receipts) \in Int
      /\ SumFunction(Receipts') = SumFunction(Receipts) + (Receipts'[t] - Receipts[t])
  BY <1>1, <1>3, SumChanged, DiscoveryHttpAssumption
<1>6. /\ SumFunction(Sizings) \in Int
      /\ SumFunction(Sizings') = SumFunction(Sizings) + (Sizings'[t] - Sizings[t])
  BY <1>2, <1>4, SumChanged, DiscoveryHttpAssumption
<1>7. ledger'.consumed = SumFunction(Receipts')
  BY <1>3, <1>5 DEF ReceiptsCounted
<1>8. bytes' = SumFunction(Sizings') /\ bytes' = ledger'.admitted
  <2>1. bytes = SumFunction(Sizings) /\ bytes = ledger.admitted
    BY DEF ReceiptsCounted
  <2>2. Sizings'[t] - Sizings[t] = size
    BY <1>4
  <2> QED
    BY <1>6, <2>1, <2>2
<1> QED
  BY <1>7, <1>8 DEF ReceiptsCounted

(***************************************************************************)
(* What a step does to the ledger, to the circuits and to the rest.           *)
(***************************************************************************)

\* The ledger stands still.
LEMMA LedgerStays ==
    ASSUME TypeOK, SentCounted, ReceiptsCounted, LimitsKept, NEW t \in Fetches, Only(t),
           limits' = limits, fetch' \in [Fetches -> Calls], UNCHANGED budget, SameReceipts(t),
           UnderWay(t)' <=> UnderWay(t),
           UnderWay(t) => fetch'[t].origin = fetch[t].origin
    PROVE  /\ SentCounted' /\ ReceiptsCounted' /\ LimitsKept'
           /\ ledger' \in Ledgers /\ bytes' \in Nat
<1>1. ledger' = ledger /\ bytes' = bytes
  BY DEF budget
<1>2. SentCounted' /\ InFlight' = InFlight
  BY <1>1, SentStays
<1>3. ReceiptsCounted'
  <2>1. fetch[t] \in Calls /\ ledger \in Ledgers /\ bytes \in Nat
    BY DEF TypeOK
  <2>2. /\ fetch'[t].receipts = fetch[t].receipts + 0 /\ fetch'[t].admitted = fetch[t].admitted + 0
        /\ ledger'.consumed = ledger.consumed + 0 /\ ledger'.admitted = ledger.admitted + 0
        /\ bytes' = bytes + 0
    BY <1>1, <2>1 DEF SameReceipts, Calls, Ledgers
  <2> QED
    BY <2>2, ReceiptsMove
<1>4. LimitsKept'
  BY <1>1, <1>2 DEF LimitsKept
<1> QED
  BY <1>1, <1>2, <1>3, <1>4 DEF TypeOK

\* What the limits are made of.
LEMMA LimitsType ==
    ASSUME TypeOK
    PROVE  /\ limits.requests \in Nat /\ limits.origins \in Nat /\ limits.bytes \in Nat
           /\ limits.concurrency \in Nat /\ limits.perOrigin \in Nat
           /\ limits.redirect \in Nat /\ limits.attempts \in Nat \ {0}
           /\ limits.retry \in Nat /\ limits.pagination \in Nat
BY DiscoveryHttpAssumption DEF TypeOK, Limits

\* An attempt is finished, with the bytes of its body or none.
LEMMA LedgerFinishes ==
    ASSUME TypeOK, SentCounted, ReceiptsCounted, LimitsKept, NEW t \in Fetches, Only(t),
           limits' = limits, fetch' \in [Fetches -> Calls], NEW size \in Nat, Finished(t, size),
           UnderWay(t), ~UnderWay(t)', fetch'[t].receipts = fetch[t].receipts + 1,
           fetch'[t].admitted = fetch[t].admitted + size, bytes' = bytes + size,
           bytes' <= limits.bytes
    PROVE  /\ SentCounted' /\ ReceiptsCounted' /\ LimitsKept'
           /\ ledger' \in Ledgers /\ bytes' \in Nat
<1>1. /\ SentCounted' /\ ledger' \in Ledgers
      /\ InFlight \in Nat /\ InFlight' = InFlight - 1
      /\ ledger'.consumed = ledger.consumed + 1
      /\ ledger'.admitted = ledger.admitted + size
      /\ ledger'.origins = ledger.origins /\ ledger'.kinds = ledger.kinds
  BY SentFinishes
<1>2. ReceiptsCounted'
  BY <1>1, ReceiptsMove
<1>3. ledger.consumed \in Nat
  BY DEF TypeOK, Ledgers
<1>4. ledger'.consumed + InFlight' <= limits.requests
  BY <1>1, <1>3, LimitsType DEF LimitsKept
<1>5. LimitsKept'
  BY <1>1, <1>4 DEF LimitsKept
<1>6. bytes' \in Nat
  <2>1. bytes \in Nat
    BY DEF TypeOK
  <2> QED
    BY <2>1
<1> QED
  BY <1>1, <1>2, <1>5, <1>6

\* An attempt is reserved: RequestBudgetLedger.reserve has looked at every limit.
LEMMA LedgerReserves ==
    ASSUME TypeOK, SentCounted, ReceiptsCounted, LimitsKept, NEW t \in Fetches, Only(t),
           limits' = limits, fetch' \in [Fetches -> Calls], Reserve(t), SameReceipts(t),
           fetch'[t].pc = "sent", fetch'[t].origin = fetch[t].origin
    PROVE  /\ SentCounted' /\ ReceiptsCounted' /\ LimitsKept'
           /\ ledger' \in Ledgers /\ bytes' \in Nat
<1> DEFINE o == fetch[t].origin
           k == fetch[t].kind
<1>1. /\ SentCounted' /\ ledger' \in Ledgers
      /\ InFlight \in Nat /\ InFlight' = InFlight + 1
      /\ ledger'.consumed = ledger.consumed
      /\ ledger'.admitted = ledger.admitted
      /\ ledger'.origins = ledger.origins \cup {o}
      /\ ledger'.kinds = [ledger.kinds EXCEPT ![k] = @ + 1]
  BY SentReserves
<1>0. /\ fetch[t] \in Calls /\ ledger \in Ledgers /\ bytes \in Nat /\ k \in Kinds
      /\ ledger.kinds \in [Kinds -> Nat] /\ bytes' = bytes /\ ledger.consumed \in Nat
      /\ ledger.origins \subseteq Origins
  BY DEF TypeOK, Reserve, Calls, Ledgers
<1>2. ReceiptsCounted'
  <2>1. /\ fetch'[t].receipts = fetch[t].receipts + 0 /\ fetch'[t].admitted = fetch[t].admitted + 0
        /\ ledger'.consumed = ledger.consumed + 0 /\ ledger'.admitted = ledger.admitted + 0
        /\ bytes' = bytes + 0
    BY <1>0, <1>1 DEF SameReceipts, Calls, Ledgers
  <2> QED
    BY <2>1, ReceiptsMove
<1>3. ~Spent /\ ~Barred(o, k)
  BY DEF Reserve, Admitted
<1>4. ledger'.consumed + InFlight' <= limits.requests
  BY <1>0, <1>1, <1>3, LimitsType DEF Spent
<1>5. Cardinality(ledger'.origins) <= limits.origins
  <2>1. IsFiniteSet(ledger.origins) /\ Cardinality(ledger.origins) \in Nat
    BY <1>0, FS_Subset, FS_CardinalityType, DiscoveryHttpAssumption
  <2>2. CASE o \in ledger.origins
    <3>1. ledger'.origins = ledger.origins
      BY <1>1, <2>2
    <3> QED
      BY <3>1 DEF LimitsKept
  <2>3. CASE o \notin ledger.origins
    <3>1. Cardinality(ledger'.origins) = Cardinality(ledger.origins) + 1
      <4>1. ledger'.origins = ledger.origins \cup {o}
        BY <1>1
      <4> HIDE DEF o
      <4> QED
        BY <2>1, <2>3, <4>1, FS_AddElement
    <3>2. Cardinality(ledger.origins) < limits.origins
      BY <1>3, <2>1, <2>3, LimitsType DEF Barred
    <3> QED
      BY <2>1, <3>1, <3>2, LimitsType
  <2> QED
    BY <2>2, <2>3
<1>6. ASSUME NEW l \in Limited PROVE ledger'.kinds[l] <= limits[l]
  <2>0. l \in Kinds /\ limits[l] \in Nat /\ ledger.kinds[l] \in Nat
    BY <1>0, LimitsType DEF Limited, Kinds
  <2>1. CASE l = k
    <3>1. ledger'.kinds[l] = ledger.kinds[l] + 1
      BY <1>0, <1>1, <2>1
    <3>2. ledger.kinds[l] < limits[l]
      BY <1>3, <2>0, <2>1 DEF Barred
    <3> QED
      BY <2>0, <3>1, <3>2
  <2>2. CASE l # k
    <3>1. ledger'.kinds[l] = ledger.kinds[l]
      BY <1>0, <1>1, <2>0, <2>2
    <3> QED
      BY <3>1 DEF LimitsKept
  <2> QED
    BY <2>1, <2>2
<1>7. bytes' <= limits.bytes
  BY <1>0 DEF LimitsKept
<1>8. LimitsKept'
  BY <1>4, <1>5, <1>6, <1>7 DEF LimitsKept
<1> QED
  BY <1>0, <1>1, <1>2, <1>8

\* The circuits.
BreakerType ==
    /\ circuits \subseteq Origins /\ failures \in [Origins -> Nat]
    /\ openUntil \in [Origins -> {"never", "open", "over"}]
    /\ early \in [Origins -> SUBSET Fetches]

\* Where a call is not past the check of the circuit of its origin.
Outside == {"wait", "backoff", "done"}

\* No circuit is touched, and the fetch gets past none that it was not past.
LEMMA BreakerStays ==
    ASSUME TypeOK, OpenAdmitsNobody, NEW t \in Fetches, Only(t), UNCHANGED breaker,
           \/ fetch'[t].pc \in Outside
           \/ fetch[t].pc \notin Outside /\ fetch'[t].origin = fetch[t].origin
    PROVE  BreakerType' /\ OpenAdmitsNobody'
<1>1. \A o \in Origins : PastCheck(o)' \subseteq PastCheck(o)
  BY DEF PastCheck, Only, Outside
<1>2. openUntil' = openUntil /\ early' = early
  BY DEF breaker
<1>3. OpenAdmitsNobody'
  BY <1>1, <1>2 DEF OpenAdmitsNobody
<1>4. BreakerType'
  BY DEF breaker, TypeOK, BreakerType
<1> QED
  BY <1>3, <1>4

\* The circuit of the origin of a fetch is closed, and the fetch gets past that one at most.
LEMMA BreakerResets ==
    ASSUME TypeOK, OpenAdmitsNobody, NEW t \in Fetches, Only(t),
           Checked(fetch[t].origin) \/ Closed(t),
           fetch'[t].pc \in Outside \/ fetch'[t].origin = fetch[t].origin
    PROVE  BreakerType' /\ OpenAdmitsNobody'
<1> DEFINE o == fetch[t].origin
<1>0. o \in Origins /\ BreakerType
  BY DEF TypeOK, Calls, BreakerType
<1>1. /\ circuits' = circuits \cup {o}
      /\ openUntil' = [openUntil EXCEPT ![o] = "never"]
      /\ early' = [early EXCEPT ![o] = {}]
  BY DEF Checked, Closed
<1>2. failures' \in [Origins -> Nat]
  <2>1. failures' = [failures EXCEPT ![o] = IF openUntil[o] = "over" THEN 0 ELSE @]
        \/ failures' = [failures EXCEPT ![o] = 0]
    BY DEF Checked, Closed
  <2> HIDE DEF o
  <2> QED
    BY <1>0, <2>1 DEF BreakerType
<1>3. \A p \in Origins \ {o} : PastCheck(p)' \subseteq PastCheck(p)
  BY DEF PastCheck, Only, Outside
<1> HIDE DEF o
<1>4. BreakerType'
  BY <1>0, <1>1, <1>2 DEF BreakerType
<1>5. ASSUME NEW p \in Origins, openUntil'[p] = "open" PROVE PastCheck(p)' \subseteq early'[p]
  <2>1. p # o
    BY <1>0, <1>1, <1>5 DEF BreakerType
  <2>2. openUntil'[p] = openUntil[p] /\ early'[p] = early[p]
    BY <1>0, <1>1, <2>1 DEF BreakerType
  <2> QED
    BY <1>3, <1>5, <2>1, <2>2 DEF OpenAdmitsNobody
<1>6. OpenAdmitsNobody'
  BY <1>5 DEF OpenAdmitsNobody
<1> QED
  BY <1>4, <1>6

\* A failure is recorded: the circuit may open, with those past the check written down.
LEMMA BreakerRecords ==
    ASSUME TypeOK, OpenAdmitsNobody, NEW t \in Fetches, Only(t), Recorded(t),
           fetch'[t].pc \in Outside
    PROVE  BreakerType' /\ OpenAdmitsNobody'
<1> DEFINE o == fetch[t].origin
<1>0. o \in Origins /\ BreakerType
  BY DEF TypeOK, Calls, BreakerType
<1>1. /\ circuits' = circuits \cup {o}
      /\ failures' = [failures EXCEPT ![o] = @ + 1]
      /\ \/ /\ openUntil' = [openUntil EXCEPT ![o] = "open"]
            /\ early' = [early EXCEPT ![o] = PastCheck(o)]
         \/ openUntil' = openUntil /\ early' = early
  BY DEF Recorded
<1>2. \A p \in Origins : PastCheck(p)' \subseteq PastCheck(p)
  BY DEF PastCheck, Only, Outside
<1>3. PastCheck(o) \subseteq Fetches
  BY DEF PastCheck
<1> HIDE DEF o
<1>4. BreakerType'
  <2>1. circuits' \subseteq Origins /\ failures' \in [Origins -> Nat]
    BY <1>0, <1>1 DEF BreakerType
  <2>2. openUntil' \in [Origins -> {"never", "open", "over"}]
    BY <1>0, <1>1 DEF BreakerType
  <2>3. early' \in [Origins -> SUBSET Fetches]
    BY <1>0, <1>1, <1>3 DEF BreakerType
  <2> QED
    BY <2>1, <2>2, <2>3 DEF BreakerType
<1>5. ASSUME NEW p \in Origins, openUntil'[p] = "open" PROVE PastCheck(p)' \subseteq early'[p]
  <2>1. CASE early' = [early EXCEPT ![o] = PastCheck(o)]
             /\ openUntil' = [openUntil EXCEPT ![o] = "open"]
    <3>1. CASE p = o
      BY <1>0, <1>2, <2>1, <3>1 DEF BreakerType
    <3>2. CASE p # o
      <4>1. openUntil'[p] = openUntil[p] /\ early'[p] = early[p]
        BY <1>0, <2>1, <3>2 DEF BreakerType
      <4> QED
        BY <1>2, <1>5, <4>1 DEF OpenAdmitsNobody
    <3> QED
      BY <3>1, <3>2
  <2>2. CASE openUntil' = openUntil /\ early' = early
    BY <1>2, <1>5, <2>2 DEF OpenAdmitsNobody
  <2> QED
    BY <1>1, <2>1, <2>2
<1>6. OpenAdmitsNobody'
  BY <1>5 DEF OpenAdmitsNobody
<1> QED
  BY <1>4, <1>6

\* The parts together.
CallOK(t) ==
    /\ fetch[t].attempt \in 1 .. limits.attempts /\ fetch[t].hops <= limits.redirect
    /\ At(t, "done") <=> fetch[t].outcome # ""

LEMMA Together ==
    ASSUME TypeOK, IInv, NEW t \in Fetches, Only(t), limits' = limits,
           fetch' \in [Fetches -> Calls], CallOK(t)', StageOK(t)',
           SlotsKept' /\ originFree' \in [Origins -> Nat] /\ globalFree' \in Nat,
           /\ SentCounted' /\ ReceiptsCounted' /\ LimitsKept'
           /\ ledger' \in Ledgers /\ bytes' \in Nat,
           BreakerType' /\ OpenAdmitsNobody',
           paced' \in [Origins -> BOOLEAN], expired' \in BOOLEAN
    PROVE  TypeOK' /\ IInv'
<1>1. \A q \in Fetches : CallOK(q)'
  BY DEF TypeOK, CallOK, Only, At
<1>2. StagesOK'
  <2>1. \A q \in Fetches \ {t} : StageOK(q)'
    BY DEF IInv, StagesOK, StageOK, Only, At
  <2> QED
    BY <2>1 DEF StagesOK
<1>3. limits' \in Configurations
  BY DEF TypeOK
<1>4. TypeOK'
  BY <1>1, <1>3 DEF TypeOK, CallOK, BreakerType
<1> QED
  BY <1>2, <1>4 DEF IInv

(***************************************************************************)
(* The steps of a fetch.                                                     *)
(***************************************************************************)

\* What is known of the fetch that steps.
LEMMA WhatIsKnown ==
    ASSUME TypeOK, IInv, NEW t \in Fetches
    PROVE  /\ SlotsKept /\ SentCounted /\ ReceiptsCounted /\ LimitsKept /\ OpenAdmitsNobody
           /\ fetch[t] \in Calls /\ CallOK(t) /\ StageOK(t)
           /\ originFree \in [Origins -> Nat] /\ globalFree \in Nat
           /\ paced \in [Origins -> BOOLEAN] /\ expired \in BOOLEAN
           /\ limits.attempts \in Nat \ {0} /\ limits.redirect \in Nat
BY LimitsType DEF TypeOK, IInv, StagesOK, CallOK


\* No request: the circuit or the deadline.
LEMMA StepWaitRefused ==
    ASSUME TypeOK, IInv, NEW t \in Fetches, WaitRefused(t)
    PROVE  TypeOK' /\ IInv'
<1>0. limits' = limits /\ fetch[t] \in Calls
  BY WhatIsKnown DEF WaitRefused
<1>1. /\ fetch' \in [Fetches -> Calls] /\ Only(t) /\ SameRequest(t) /\ SameReceipts(t)
      /\ fetch'[t].pc = "done" /\ fetch'[t].outcome = "refused"
  <2>1. "refused" \in Outcomes /\ Ends(t, "refused")
    BY DEF Outcomes, WaitRefused
  <2> QED
    BY <2>1, CallEnds
<1>2. CallOK(t)' /\ StageOK(t)'
  BY <1>0, <1>1, WhatIsKnown DEF CallOK, StageOK, At, SameRequest, SameReceipts, UnderWay, WaitRefused, Calls
<1>3. SlotsKept' /\ originFree' \in [Origins -> Nat] /\ globalFree' \in Nat
  BY <1>0, <1>1, WhatIsKnown, SlotsStay DEF WaitRefused, At, HoldsOrigin, HoldsGlobal, SameRequest
<1>4. /\ SentCounted' /\ ReceiptsCounted' /\ LimitsKept'
      /\ ledger' \in Ledgers /\ bytes' \in Nat
  BY <1>0, <1>1, WhatIsKnown, LedgerStays DEF WaitRefused, budget, At, UnderWay, SameRequest
<1>5. BreakerType' /\ OpenAdmitsNobody'
  BY <1>0, <1>1, WhatIsKnown, BreakerStays DEF WaitRefused, At, UnderWay, Outside, SameRequest
<1>6. paced' \in [Origins -> BOOLEAN] /\ expired' \in BOOLEAN
  BY WhatIsKnown DEF WaitRefused
<1> QED
  BY <1>0, <1>1, <1>2, <1>3, <1>4, <1>5, <1>6, Together

\* The turn of the fetch.
LEMMA StepTakeTurn ==
    ASSUME TypeOK, IInv, NEW t \in Fetches, TakeTurn(t)
    PROVE  TypeOK' /\ IInv'
<1>0. limits' = limits /\ fetch[t] \in Calls
  BY WhatIsKnown DEF TakeTurn
<1>1. /\ fetch' \in [Fetches -> Calls] /\ Only(t) /\ SameRequest(t) /\ SameReceipts(t)
      /\ fetch'[t].pc = "origin" /\ fetch'[t].outcome = fetch[t].outcome
  <2>1. "origin" \in Points /\ Goes(t, "origin")
    BY DEF Points, TakeTurn
  <2> QED
    BY <2>1, CallGoes
<1>2. CallOK(t)' /\ StageOK(t)'
  BY <1>0, <1>1, WhatIsKnown DEF CallOK, StageOK, At, SameRequest, SameReceipts, UnderWay, TakeTurn, Calls
<1>3. SlotsKept' /\ originFree' \in [Origins -> Nat] /\ globalFree' \in Nat
  BY <1>0, <1>1, WhatIsKnown, SlotsStay DEF TakeTurn, At, HoldsOrigin, HoldsGlobal, SameRequest
<1>4. /\ SentCounted' /\ ReceiptsCounted' /\ LimitsKept'
      /\ ledger' \in Ledgers /\ bytes' \in Nat
  BY <1>0, <1>1, WhatIsKnown, LedgerStays DEF TakeTurn, budget, At, UnderWay, SameRequest
<1>5. BreakerType' /\ OpenAdmitsNobody'
  BY <1>0, <1>1, WhatIsKnown, BreakerResets DEF TakeTurn, At, Outside, SameRequest
<1>6. paced' \in [Origins -> BOOLEAN] /\ expired' \in BOOLEAN
  BY WhatIsKnown DEF TakeTurn
<1> QED
  BY <1>0, <1>1, <1>2, <1>3, <1>4, <1>5, <1>6, Together

\* Another's turn: the fetch waits or gives up.
LEMMA StepWaitTurn ==
    ASSUME TypeOK, IInv, NEW t \in Fetches, WaitTurn(t)
    PROVE  TypeOK' /\ IInv'
<1>0. limits' = limits /\ fetch[t] \in Calls
  BY WhatIsKnown DEF WaitTurn
<1>1. /\ fetch' \in [Fetches -> Calls] /\ Only(t) /\ SameRequest(t) /\ SameReceipts(t)
      /\ \/ fetch'[t].pc = "wait" /\ fetch'[t].outcome = fetch[t].outcome
         \/ fetch'[t].pc = "done" /\ fetch'[t].outcome = "refused"
  <2>1. CASE UNCHANGED fetch
    BY <2>1, <1>0 DEF TypeOK, Only, SameRequest, SameReceipts, WaitTurn, At
  <2>2. CASE Ends(t, "refused")
    <3>1. "refused" \in Outcomes
      BY DEF Outcomes
    <3> QED
      BY <2>2, <3>1, CallEnds
  <2> QED
    BY <2>1, <2>2 DEF WaitTurn
<1>2. CallOK(t)' /\ StageOK(t)'
  BY <1>0, <1>1, WhatIsKnown DEF CallOK, StageOK, At, SameRequest, SameReceipts, UnderWay, WaitTurn, Calls
<1>3. SlotsKept' /\ originFree' \in [Origins -> Nat] /\ globalFree' \in Nat
  BY <1>0, <1>1, WhatIsKnown, SlotsStay DEF WaitTurn, At, HoldsOrigin, HoldsGlobal, SameRequest
<1>4. /\ SentCounted' /\ ReceiptsCounted' /\ LimitsKept'
      /\ ledger' \in Ledgers /\ bytes' \in Nat
  BY <1>0, <1>1, WhatIsKnown, LedgerStays DEF WaitTurn, budget, At, UnderWay, SameRequest
<1>5. BreakerType' /\ OpenAdmitsNobody'
  BY <1>0, <1>1, WhatIsKnown, BreakerResets DEF WaitTurn, At, Outside, SameRequest
<1>6. paced' \in [Origins -> BOOLEAN] /\ expired' \in BOOLEAN
  BY WhatIsKnown DEF WaitTurn
<1> QED
  BY <1>0, <1>1, <1>2, <1>3, <1>4, <1>5, <1>6, Together

\* A slot of the origin.
LEMMA StepAcquireOrigin ==
    ASSUME TypeOK, IInv, NEW t \in Fetches, AcquireOrigin(t)
    PROVE  TypeOK' /\ IInv'
<1>0. limits' = limits /\ fetch[t] \in Calls
  BY WhatIsKnown DEF AcquireOrigin
<1>1. /\ fetch' \in [Fetches -> Calls] /\ Only(t) /\ SameRequest(t) /\ SameReceipts(t)
      /\ fetch'[t].pc = "global" /\ fetch'[t].outcome = fetch[t].outcome
  <2>1. "global" \in Points /\ Goes(t, "global")
    BY DEF Points, AcquireOrigin
  <2> QED
    BY <2>1, CallGoes
<1>2. CallOK(t)' /\ StageOK(t)'
  BY <1>0, <1>1, WhatIsKnown DEF CallOK, StageOK, At, SameRequest, SameReceipts, UnderWay, AcquireOrigin, Calls
<1>3. SlotsKept' /\ originFree' \in [Origins -> Nat] /\ globalFree' \in Nat
  <2> DEFINE o == fetch[t].origin
  <2>1. /\ o \in Origins /\ originFree \in [Origins -> Nat] /\ globalFree \in Nat
        /\ originFree[o] > 0 /\ originFree' = [originFree EXCEPT ![o] = @ - 1]
        /\ globalFree' = globalFree
    BY <1>0, WhatIsKnown DEF AcquireOrigin, Calls
  <2>2. t \notin Running /\ t \notin Running' /\ \A p \in Origins : t \notin Holders(p)
    BY <1>1 DEF Running, Holders, HoldsGlobal, HoldsOrigin, AcquireOrigin, At
  <2>3. \A p \in Origins : t \in Holders(p)' <=> p = o
    BY <1>1 DEF Holders, HoldsOrigin, SameRequest
  <2> HIDE DEF o
  <2>4. originFree' \in [Origins -> Nat] /\ globalFree' \in Nat
    BY <2>1
  <2>5. \A p \in Origins : originFree'[p] + One(t \in Holders(p)') = originFree[p] + One(t \in Holders(p))
    BY <2>1, <2>2, <2>3 DEF One
  <2>6. globalFree' + One(t \in Running') = globalFree + One(t \in Running)
    BY <2>1, <2>2 DEF One
  <2> QED
    BY <1>0, <1>1, <2>4, <2>5, <2>6, WhatIsKnown, SlotsMove
<1>4. /\ SentCounted' /\ ReceiptsCounted' /\ LimitsKept'
      /\ ledger' \in Ledgers /\ bytes' \in Nat
  BY <1>0, <1>1, WhatIsKnown, LedgerStays DEF AcquireOrigin, budget, At, UnderWay, SameRequest
<1>5. BreakerType' /\ OpenAdmitsNobody'
  BY <1>0, <1>1, WhatIsKnown, BreakerStays DEF AcquireOrigin, At, UnderWay, Outside, SameRequest
<1>6. paced' \in [Origins -> BOOLEAN] /\ expired' \in BOOLEAN
  BY WhatIsKnown DEF AcquireOrigin
<1> QED
  BY <1>0, <1>1, <1>2, <1>3, <1>4, <1>5, <1>6, Together

\* A slot of the runtime.
LEMMA StepAcquireGlobal ==
    ASSUME TypeOK, IInv, NEW t \in Fetches, AcquireGlobal(t)
    PROVE  TypeOK' /\ IInv'
<1>0. limits' = limits /\ fetch[t] \in Calls
  BY WhatIsKnown DEF AcquireGlobal
<1>1. /\ fetch' \in [Fetches -> Calls] /\ Only(t) /\ SameRequest(t) /\ SameReceipts(t)
      /\ fetch'[t].pc = "reserve" /\ fetch'[t].outcome = fetch[t].outcome
  <2>1. "reserve" \in Points /\ Goes(t, "reserve")
    BY DEF Points, AcquireGlobal
  <2> QED
    BY <2>1, CallGoes
<1>2. CallOK(t)' /\ StageOK(t)'
  BY <1>0, <1>1, WhatIsKnown DEF CallOK, StageOK, At, SameRequest, SameReceipts, UnderWay, AcquireGlobal, Calls
<1>3. SlotsKept' /\ originFree' \in [Origins -> Nat] /\ globalFree' \in Nat
  <2>1. /\ originFree \in [Origins -> Nat] /\ globalFree \in Nat /\ globalFree > 0
        /\ originFree' = originFree /\ globalFree' = globalFree - 1
    BY WhatIsKnown DEF AcquireGlobal
  <2>2. t \notin Running /\ t \in Running' /\ \A p \in Origins : t \in Holders(p)' <=> t \in Holders(p)
    BY <1>1 DEF Running, Holders, HoldsGlobal, HoldsOrigin, AcquireGlobal, At, SameRequest
  <2>3. originFree' \in [Origins -> Nat] /\ globalFree' \in Nat
    BY <2>1
  <2>4. \A p \in Origins : originFree'[p] + One(t \in Holders(p)') = originFree[p] + One(t \in Holders(p))
    BY <2>1, <2>2 DEF One
  <2>5. globalFree' + One(t \in Running') = globalFree + One(t \in Running)
    BY <2>1, <2>2 DEF One
  <2> QED
    BY <1>0, <1>1, <2>3, <2>4, <2>5, WhatIsKnown, SlotsMove
<1>4. /\ SentCounted' /\ ReceiptsCounted' /\ LimitsKept'
      /\ ledger' \in Ledgers /\ bytes' \in Nat
  BY <1>0, <1>1, WhatIsKnown, LedgerStays DEF AcquireGlobal, budget, At, UnderWay, SameRequest
<1>5. BreakerType' /\ OpenAdmitsNobody'
  BY <1>0, <1>1, WhatIsKnown, BreakerStays DEF AcquireGlobal, At, UnderWay, Outside, SameRequest
<1>6. paced' \in [Origins -> BOOLEAN] /\ expired' \in BOOLEAN
  BY WhatIsKnown DEF AcquireGlobal
<1> QED
  BY <1>0, <1>1, <1>2, <1>3, <1>4, <1>5, <1>6, Together

\* No slot before the deadline.
LEMMA StepAcquireTimesOut ==
    ASSUME TypeOK, IInv, NEW t \in Fetches, AcquireTimesOut(t)
    PROVE  TypeOK' /\ IInv'
<1>0. limits' = limits /\ fetch[t] \in Calls
  BY WhatIsKnown DEF AcquireTimesOut
<1>1. /\ fetch' \in [Fetches -> Calls] /\ Only(t) /\ SameRequest(t) /\ SameReceipts(t)
      /\ fetch'[t].pc = "done" /\ fetch'[t].outcome = "refused"
  <2>1. "refused" \in Outcomes /\ Ends(t, "refused")
    BY DEF Outcomes, AcquireTimesOut
  <2> QED
    BY <2>1, CallEnds
<1>2. CallOK(t)' /\ StageOK(t)'
  BY <1>0, <1>1, WhatIsKnown DEF CallOK, StageOK, At, SameRequest, SameReceipts, UnderWay, AcquireTimesOut, Calls
<1>3. SlotsKept' /\ originFree' \in [Origins -> Nat] /\ globalFree' \in Nat
  BY <1>0, <1>1, WhatIsKnown, SlotsReleased DEF AcquireTimesOut
<1>4. /\ SentCounted' /\ ReceiptsCounted' /\ LimitsKept'
      /\ ledger' \in Ledgers /\ bytes' \in Nat
  BY <1>0, <1>1, WhatIsKnown, LedgerStays DEF AcquireTimesOut, budget, At, UnderWay, SameRequest
<1>5. BreakerType' /\ OpenAdmitsNobody'
  BY <1>0, <1>1, WhatIsKnown, BreakerStays DEF AcquireTimesOut, At, UnderWay, Outside, SameRequest
<1>6. paced' \in [Origins -> BOOLEAN] /\ expired' \in BOOLEAN
  BY WhatIsKnown DEF AcquireTimesOut
<1> QED
  BY <1>0, <1>1, <1>2, <1>3, <1>4, <1>5, <1>6, Together

\* A fetch that is about to reserve has its slots, and the ledger counts only others: it is
\* never turned away for want of one.
LEMMA SlotsAreEnough ==
    ASSUME TypeOK, IInv, NEW t \in Fetches, At(t, "reserve")
    PROVE  ~NoSlot(fetch[t].origin)
<1> DEFINE o == fetch[t].origin
<1>1. o \in Origins /\ originFree \in [Origins -> Nat] /\ globalFree \in Nat
  BY WhatIsKnown DEF Calls
<1>2. /\ originFree[o] + Cardinality(Holders(o)) = limits.perOrigin
      /\ globalFree + Cardinality(Running) = limits.concurrency
      /\ ledger.inFlight[o] = Cardinality(Sent(o)) /\ InFlight = Cardinality(AllSent)
  BY <1>1, WhatIsKnown DEF SlotsKept, SentCounted
<1>3. /\ t \in Holders(o) /\ Sent(o) \subseteq Holders(o) \ {t}
      /\ t \in Running /\ AllSent \subseteq Running \ {t}
  BY DEF At, Holders, Sent, Running, AllSent, HoldsOrigin, HoldsGlobal, UnderWay
<1>4. ASSUME NEW S, NEW T, IsFiniteSet(T), t \in T, S \subseteq T \ {t}
      PROVE  Cardinality(S) \in Nat /\ Cardinality(T) \in Nat /\ Cardinality(S) < Cardinality(T)
  <2>1. /\ IsFiniteSet(T \ {t}) /\ Cardinality(T \ {t}) = Cardinality(T) - 1
        /\ Cardinality(T) \in Nat
    BY <1>4, FS_RemoveElement, FS_CardinalityType
  <2>2. IsFiniteSet(S) /\ Cardinality(S) <= Cardinality(T \ {t}) /\ Cardinality(S) \in Nat
    BY <1>4, <2>1, FS_Subset, FS_CardinalityType
  <2> QED
    BY <2>1, <2>2
<1>5. /\ Cardinality(Sent(o)) \in Nat /\ Cardinality(Holders(o)) \in Nat
      /\ Cardinality(Sent(o)) < Cardinality(Holders(o))
  BY <1>1, <1>3, <1>4, Countable
<1>6. /\ Cardinality(AllSent) \in Nat /\ Cardinality(Running) \in Nat
      /\ Cardinality(AllSent) < Cardinality(Running)
  BY <1>3, <1>4, Countable
<1>7. originFree[o] \in Nat
  BY <1>1
<1>8. ledger.inFlight[o] < limits.perOrigin /\ InFlight < limits.concurrency
  BY <1>1, <1>2, <1>5, <1>6, <1>7
<1>9. ledger.inFlight[o] \in Nat /\ InFlight \in Nat /\ limits.perOrigin \in Nat
      /\ limits.concurrency \in Nat
  BY <1>2, <1>5, <1>6, LimitsType
<1> QED
  BY <1>8, <1>9 DEF NoSlot

\* The ledger refuses: the slots are given back.
LEMMA StepRefused ==
    ASSUME TypeOK, IInv, NEW t \in Fetches, Refused(t)
    PROVE  TypeOK' /\ IInv'
<1>0. limits' = limits /\ fetch[t] \in Calls
  BY WhatIsKnown DEF Refused
<1>1. /\ fetch' \in [Fetches -> Calls] /\ Only(t) /\ SameRequest(t) /\ SameReceipts(t)
      /\ fetch'[t].pc = "done" /\ fetch'[t].outcome = "refused"
  <2>1. "refused" \in Outcomes /\ Ends(t, "refused")
    BY SlotsAreEnough DEF Outcomes, Refused
  <2> QED
    BY <2>1, CallEnds
<1>2. CallOK(t)' /\ StageOK(t)'
  BY <1>0, <1>1, WhatIsKnown DEF CallOK, StageOK, At, SameRequest, SameReceipts, UnderWay, Refused, Calls
<1>3. SlotsKept' /\ originFree' \in [Origins -> Nat] /\ globalFree' \in Nat
  BY <1>0, <1>1, WhatIsKnown, SlotsReleased DEF Refused
<1>4. /\ SentCounted' /\ ReceiptsCounted' /\ LimitsKept'
      /\ ledger' \in Ledgers /\ bytes' \in Nat
  BY <1>0, <1>1, WhatIsKnown, LedgerStays DEF Refused, budget, At, UnderWay, SameRequest
<1>5. BreakerType' /\ OpenAdmitsNobody'
  BY <1>0, <1>1, WhatIsKnown, BreakerStays DEF Refused, At, UnderWay, Outside, SameRequest
<1>6. paced' \in [Origins -> BOOLEAN] /\ expired' \in BOOLEAN
  BY WhatIsKnown DEF Refused
<1> QED
  BY <1>0, <1>1, <1>2, <1>3, <1>4, <1>5, <1>6, Together

\* The ledger admits the attempt.
LEMMA StepReserve ==
    ASSUME TypeOK, IInv, NEW t \in Fetches, Reserve(t)
    PROVE  TypeOK' /\ IInv'
<1>0. limits' = limits /\ fetch[t] \in Calls
  BY WhatIsKnown DEF Reserve
<1>1. /\ fetch' \in [Fetches -> Calls] /\ Only(t) /\ SameRequest(t) /\ SameReceipts(t)
      /\ fetch'[t].pc = "sent" /\ fetch'[t].outcome = fetch[t].outcome
  <2>1. "sent" \in Points /\ Goes(t, "sent")
    BY DEF Points, Reserve
  <2> QED
    BY <2>1, CallGoes
<1>2. CallOK(t)' /\ StageOK(t)'
  BY <1>0, <1>1, WhatIsKnown DEF CallOK, StageOK, At, SameRequest, SameReceipts, UnderWay, Reserve, Calls
<1>3. SlotsKept' /\ originFree' \in [Origins -> Nat] /\ globalFree' \in Nat
  BY <1>0, <1>1, WhatIsKnown, SlotsStay DEF Reserve, At, HoldsOrigin, HoldsGlobal, SameRequest
<1>4. /\ SentCounted' /\ ReceiptsCounted' /\ LimitsKept'
      /\ ledger' \in Ledgers /\ bytes' \in Nat
  <2>1. fetch'[t].origin = fetch[t].origin
    BY <1>1 DEF SameRequest
  <2> QED
    BY <1>0, <1>1, <2>1, WhatIsKnown, LedgerReserves
<1>5. BreakerType' /\ OpenAdmitsNobody'
  BY <1>0, <1>1, WhatIsKnown, BreakerStays DEF Reserve, At, UnderWay, Outside, SameRequest
<1>6. paced' \in [Origins -> BOOLEAN] /\ expired' \in BOOLEAN
  BY WhatIsKnown DEF Reserve
<1> QED
  BY <1>0, <1>1, <1>2, <1>3, <1>4, <1>5, <1>6, Together

\* The head of a response.
LEMMA StepHead ==
    ASSUME TypeOK, IInv, NEW t \in Fetches, Head(t)
    PROVE  TypeOK' /\ IInv'
<1>0. limits' = limits /\ fetch[t] \in Calls
  BY WhatIsKnown DEF Head
<1>1. /\ fetch' \in [Fetches -> Calls] /\ Only(t) /\ SameRequest(t) /\ SameReceipts(t)
      /\ fetch'[t].pc = "body" /\ fetch'[t].outcome = fetch[t].outcome
  <2>1. "body" \in Points /\ Goes(t, "body")
    BY DEF Points, Head
  <2> QED
    BY <2>1, CallGoes
<1>2. CallOK(t)' /\ StageOK(t)'
  BY <1>0, <1>1, WhatIsKnown DEF CallOK, StageOK, At, SameRequest, SameReceipts, UnderWay, Head, Calls
<1>3. SlotsKept' /\ originFree' \in [Origins -> Nat] /\ globalFree' \in Nat
  BY <1>0, <1>1, WhatIsKnown, SlotsStay DEF Head, At, HoldsOrigin, HoldsGlobal, SameRequest
<1>4. /\ SentCounted' /\ ReceiptsCounted' /\ LimitsKept'
      /\ ledger' \in Ledgers /\ bytes' \in Nat
  BY <1>0, <1>1, WhatIsKnown, LedgerStays DEF Head, budget, At, UnderWay, SameRequest
<1>5. BreakerType' /\ OpenAdmitsNobody'
  BY <1>0, <1>1, WhatIsKnown, BreakerStays DEF Head, At, UnderWay, Outside, SameRequest
<1>6. paced' \in [Origins -> BOOLEAN] /\ expired' \in BOOLEAN
  BY WhatIsKnown DEF Head
<1> QED
  BY <1>0, <1>1, <1>2, <1>3, <1>4, <1>5, <1>6, Together

\* A body is read and charged.
LEMMA StepBody ==
    ASSUME TypeOK, IInv, NEW t \in Fetches, NEW size \in Sizes, Body(t, size)
    PROVE  TypeOK' /\ IInv'
<1>0. limits' = limits /\ fetch[t] \in Calls
  BY WhatIsKnown DEF Body
<1>1. /\ fetch' \in [Fetches -> Calls] /\ Only(t) /\ SameRequest(t)
      /\ fetch'[t].pc = "succeeded" /\ fetch'[t].outcome = fetch[t].outcome
      /\ fetch'[t].receipts = fetch[t].receipts + 1 /\ fetch'[t].admitted = size
  BY CallReads
<1>2. CallOK(t)' /\ StageOK(t)'
  BY <1>0, <1>1, WhatIsKnown DEF CallOK, StageOK, At, SameRequest, SameReceipts, UnderWay, Body, Calls
<1>3. SlotsKept' /\ originFree' \in [Origins -> Nat] /\ globalFree' \in Nat
  BY <1>0, <1>1, WhatIsKnown, SlotsStay DEF Body, At, HoldsOrigin, HoldsGlobal, SameRequest
<1>4. /\ SentCounted' /\ ReceiptsCounted' /\ LimitsKept'
      /\ ledger' \in Ledgers /\ bytes' \in Nat
  <2>1. /\ size \in Nat /\ Finished(t, size) /\ UnderWay(t) /\ ~UnderWay(t)'
        /\ bytes' = bytes + size /\ bytes' <= limits.bytes
    BY <1>0, <1>1, DiscoveryHttpAssumption DEF Body, At, UnderWay
  <2>2. fetch[t].admitted = 0
    BY WhatIsKnown DEF StageOK, Body, At
  <2>3. fetch'[t].admitted = fetch[t].admitted + size
    BY <1>1, <2>1, <2>2
  <2> QED
    BY <1>0, <1>1, <2>1, <2>3, WhatIsKnown, LedgerFinishes
<1>5. BreakerType' /\ OpenAdmitsNobody'
  BY <1>0, <1>1, WhatIsKnown, BreakerStays DEF Body, At, UnderWay, Outside, SameRequest
<1>6. paced' \in [Origins -> BOOLEAN] /\ expired' \in BOOLEAN
  BY WhatIsKnown DEF Body
<1> QED
  BY <1>0, <1>1, <1>2, <1>3, <1>4, <1>5, <1>6, Together

\* A body that exceeds the budget.
LEMMA StepBodyTooLarge ==
    ASSUME TypeOK, IInv, NEW t \in Fetches, BodyTooLarge(t)
    PROVE  TypeOK' /\ IInv'
<1>0. limits' = limits /\ fetch[t] \in Calls
  BY WhatIsKnown DEF BodyTooLarge
<1>1. /\ fetch' \in [Fetches -> Calls] /\ Only(t) /\ SameRequest(t)
      /\ fetch'[t].pc = "done" /\ fetch'[t].outcome = "failed"
      /\ fetch'[t].receipts = fetch[t].receipts + 1 /\ fetch'[t].admitted = fetch[t].admitted
  <2>1. "done" \in Points /\ "failed" \in Outcomes /\ Receives(t, "done", "failed")
    BY DEF Points, Outcomes, BodyTooLarge
  <2> QED
    BY <2>1, CallReceives
<1>2. CallOK(t)' /\ StageOK(t)'
  BY <1>0, <1>1, WhatIsKnown DEF CallOK, StageOK, At, SameRequest, SameReceipts, UnderWay, BodyTooLarge, Calls
<1>3. SlotsKept' /\ originFree' \in [Origins -> Nat] /\ globalFree' \in Nat
  BY <1>0, <1>1, WhatIsKnown, SlotsReleased DEF BodyTooLarge
<1>4. /\ SentCounted' /\ ReceiptsCounted' /\ LimitsKept'
      /\ ledger' \in Ledgers /\ bytes' \in Nat
  <2>1. /\ Finished(t, 0) /\ UnderWay(t) /\ ~UnderWay(t)' /\ bytes' = bytes /\ bytes \in Nat
        /\ bytes <= limits.bytes /\ fetch[t].admitted \in Nat
    BY <1>0, <1>1, WhatIsKnown DEF BodyTooLarge, At, UnderWay, TypeOK, LimitsKept, Calls
  <2>2. bytes' = bytes + 0
    BY <2>1
  <2>4. fetch'[t].admitted = fetch[t].admitted + 0
    <3>1. fetch[t].admitted \in Nat
      BY <2>1
    <3>2. fetch'[t].admitted = fetch[t].admitted
      BY <1>1
    <3> QED
      BY <3>1, <3>2
  <2>3. bytes' <= limits.bytes
    BY <2>1
  <2> QED
    BY <1>0, <1>1, <2>1, <2>2, <2>3, <2>4, WhatIsKnown, LedgerFinishes
<1>5. BreakerType' /\ OpenAdmitsNobody'
  BY <1>0, <1>1, WhatIsKnown, BreakerStays DEF BodyTooLarge, At, UnderWay, Outside, SameRequest
<1>6. paced' \in [Origins -> BOOLEAN] /\ expired' \in BOOLEAN
  BY WhatIsKnown DEF BodyTooLarge
<1> QED
  BY <1>0, <1>1, <1>2, <1>3, <1>4, <1>5, <1>6, Together

\* A `304`.
LEMMA StepNotModified ==
    ASSUME TypeOK, IInv, NEW t \in Fetches, NotModified(t)
    PROVE  TypeOK' /\ IInv'
<1>0. limits' = limits /\ fetch[t] \in Calls
  BY WhatIsKnown DEF NotModified
<1>1. /\ fetch' \in [Fetches -> Calls] /\ Only(t) /\ SameRequest(t)
      /\ fetch'[t].pc = "succeeded" /\ fetch'[t].outcome = ""
      /\ fetch'[t].receipts = fetch[t].receipts + 1 /\ fetch'[t].admitted = fetch[t].admitted
  <2>1. "succeeded" \in Points /\ "" \in Outcomes /\ Receives(t, "succeeded", "")
    BY DEF Points, Outcomes, NotModified
  <2> QED
    BY <2>1, CallReceives
<1>2. CallOK(t)' /\ StageOK(t)'
  BY <1>0, <1>1, WhatIsKnown DEF CallOK, StageOK, At, SameRequest, SameReceipts, UnderWay, NotModified, Calls
<1>3. SlotsKept' /\ originFree' \in [Origins -> Nat] /\ globalFree' \in Nat
  BY <1>0, <1>1, WhatIsKnown, SlotsStay DEF NotModified, UnderWay, At, HoldsOrigin, HoldsGlobal, SameRequest
<1>4. /\ SentCounted' /\ ReceiptsCounted' /\ LimitsKept'
      /\ ledger' \in Ledgers /\ bytes' \in Nat
  <2>1. /\ Finished(t, 0) /\ UnderWay(t) /\ ~UnderWay(t)' /\ bytes' = bytes /\ bytes \in Nat
        /\ bytes <= limits.bytes /\ fetch[t].admitted \in Nat
    BY <1>0, <1>1, WhatIsKnown DEF NotModified, At, UnderWay, TypeOK, LimitsKept, Calls
  <2>2. bytes' = bytes + 0
    BY <2>1
  <2>4. fetch'[t].admitted = fetch[t].admitted + 0
    <3>1. fetch[t].admitted \in Nat
      BY <2>1
    <3>2. fetch'[t].admitted = fetch[t].admitted
      BY <1>1
    <3> QED
      BY <3>1, <3>2
  <2>3. bytes' <= limits.bytes
    BY <2>1
  <2> QED
    BY <1>0, <1>1, <2>1, <2>2, <2>3, <2>4, WhatIsKnown, LedgerFinishes
<1>5. BreakerType' /\ OpenAdmitsNobody'
  BY <1>0, <1>1, WhatIsKnown, BreakerStays DEF NotModified, At, UnderWay, Outside, SameRequest
<1>6. paced' \in [Origins -> BOOLEAN] /\ expired' \in BOOLEAN
  BY WhatIsKnown DEF NotModified
<1> QED
  BY <1>0, <1>1, <1>2, <1>3, <1>4, <1>5, <1>6, Together

\* A redirect.
LEMMA StepRedirect ==
    ASSUME TypeOK, IInv, NEW t \in Fetches, Redirect(t)
    PROVE  TypeOK' /\ IInv'
<1>0. limits' = limits /\ fetch[t] \in Calls
  BY WhatIsKnown DEF Redirect
<1>1. /\ fetch' \in [Fetches -> Calls] /\ Only(t) /\ SameRequest(t)
      /\ fetch'[t].pc = "redirected" /\ fetch'[t].outcome = ""
      /\ fetch'[t].receipts = fetch[t].receipts + 1 /\ fetch'[t].admitted = fetch[t].admitted
  <2>1. "redirected" \in Points /\ "" \in Outcomes /\ Receives(t, "redirected", "")
    BY DEF Points, Outcomes, Redirect
  <2> QED
    BY <2>1, CallReceives
<1>2. CallOK(t)' /\ StageOK(t)'
  BY <1>0, <1>1, WhatIsKnown DEF CallOK, StageOK, At, SameRequest, SameReceipts, UnderWay, Redirect, Calls
<1>3. SlotsKept' /\ originFree' \in [Origins -> Nat] /\ globalFree' \in Nat
  BY <1>0, <1>1, WhatIsKnown, SlotsStay DEF Redirect, UnderWay, At, HoldsOrigin, HoldsGlobal, SameRequest
<1>4. /\ SentCounted' /\ ReceiptsCounted' /\ LimitsKept'
      /\ ledger' \in Ledgers /\ bytes' \in Nat
  <2>1. /\ Finished(t, 0) /\ UnderWay(t) /\ ~UnderWay(t)' /\ bytes' = bytes /\ bytes \in Nat
        /\ bytes <= limits.bytes /\ fetch[t].admitted \in Nat
    BY <1>0, <1>1, WhatIsKnown DEF Redirect, At, UnderWay, TypeOK, LimitsKept, Calls
  <2>2. bytes' = bytes + 0
    BY <2>1
  <2>4. fetch'[t].admitted = fetch[t].admitted + 0
    <3>1. fetch[t].admitted \in Nat
      BY <2>1
    <3>2. fetch'[t].admitted = fetch[t].admitted
      BY <1>1
    <3> QED
      BY <3>1, <3>2
  <2>3. bytes' <= limits.bytes
    BY <2>1
  <2> QED
    BY <1>0, <1>1, <2>1, <2>2, <2>3, <2>4, WhatIsKnown, LedgerFinishes
<1>5. BreakerType' /\ OpenAdmitsNobody'
  BY <1>0, <1>1, WhatIsKnown, BreakerStays DEF Redirect, At, UnderWay, Outside, SameRequest
<1>6. paced' \in [Origins -> BOOLEAN] /\ expired' \in BOOLEAN
  BY WhatIsKnown DEF Redirect
<1> QED
  BY <1>0, <1>1, <1>2, <1>3, <1>4, <1>5, <1>6, Together

\* An answer that is rejected.
LEMMA StepRejected ==
    ASSUME TypeOK, IInv, NEW t \in Fetches, Rejected(t)
    PROVE  TypeOK' /\ IInv'
<1>0. limits' = limits /\ fetch[t] \in Calls
  BY WhatIsKnown DEF Rejected
<1>1. /\ fetch' \in [Fetches -> Calls] /\ Only(t) /\ SameRequest(t)
      /\ fetch'[t].pc = "done" /\ fetch'[t].outcome = "failed"
      /\ fetch'[t].receipts = fetch[t].receipts + 1 /\ fetch'[t].admitted = fetch[t].admitted
  <2>1. "done" \in Points /\ "failed" \in Outcomes /\ Receives(t, "done", "failed")
    BY DEF Points, Outcomes, Rejected
  <2> QED
    BY <2>1, CallReceives
<1>2. CallOK(t)' /\ StageOK(t)'
  BY <1>0, <1>1, WhatIsKnown DEF CallOK, StageOK, At, SameRequest, SameReceipts, UnderWay, Rejected, Calls
<1>3. SlotsKept' /\ originFree' \in [Origins -> Nat] /\ globalFree' \in Nat
  BY <1>0, <1>1, WhatIsKnown, SlotsReleased DEF Rejected
<1>4. /\ SentCounted' /\ ReceiptsCounted' /\ LimitsKept'
      /\ ledger' \in Ledgers /\ bytes' \in Nat
  <2>1. /\ Finished(t, 0) /\ UnderWay(t) /\ ~UnderWay(t)' /\ bytes' = bytes /\ bytes \in Nat
        /\ bytes <= limits.bytes /\ fetch[t].admitted \in Nat
    BY <1>0, <1>1, WhatIsKnown DEF Rejected, At, UnderWay, TypeOK, LimitsKept, Calls
  <2>2. bytes' = bytes + 0
    BY <2>1
  <2>4. fetch'[t].admitted = fetch[t].admitted + 0
    <3>1. fetch[t].admitted \in Nat
      BY <2>1
    <3>2. fetch'[t].admitted = fetch[t].admitted
      BY <1>1
    <3> QED
      BY <3>1, <3>2
  <2>3. bytes' <= limits.bytes
    BY <2>1
  <2> QED
    BY <1>0, <1>1, <2>1, <2>2, <2>3, <2>4, WhatIsKnown, LedgerFinishes
<1>5. BreakerType' /\ OpenAdmitsNobody'
  BY <1>0, <1>1, WhatIsKnown, BreakerStays DEF Rejected, At, UnderWay, Outside, SameRequest
<1>6. paced' \in [Origins -> BOOLEAN] /\ expired' \in BOOLEAN
  BY WhatIsKnown DEF Rejected
<1> QED
  BY <1>0, <1>1, <1>2, <1>3, <1>4, <1>5, <1>6, Together

\* A failure that may pass.
LEMMA StepTransient ==
    ASSUME TypeOK, IInv, NEW t \in Fetches, Transient(t)
    PROVE  TypeOK' /\ IInv'
<1>0. limits' = limits /\ fetch[t] \in Calls
  BY WhatIsKnown DEF Transient
<1>1. /\ fetch' \in [Fetches -> Calls] /\ Only(t) /\ SameRequest(t)
      /\ fetch'[t].pc = "transient" /\ fetch'[t].outcome = ""
      /\ fetch'[t].receipts = fetch[t].receipts + 1 /\ fetch'[t].admitted = fetch[t].admitted
  <2>1. "transient" \in Points /\ "" \in Outcomes /\ Receives(t, "transient", "")
    BY DEF Points, Outcomes, Transient
  <2> QED
    BY <2>1, CallReceives
<1>2. CallOK(t)' /\ StageOK(t)'
  BY <1>0, <1>1, WhatIsKnown DEF CallOK, StageOK, At, SameRequest, SameReceipts, UnderWay, Transient, Calls
<1>3. SlotsKept' /\ originFree' \in [Origins -> Nat] /\ globalFree' \in Nat
  BY <1>0, <1>1, WhatIsKnown, SlotsStay DEF Transient, UnderWay, At, HoldsOrigin, HoldsGlobal, SameRequest
<1>4. /\ SentCounted' /\ ReceiptsCounted' /\ LimitsKept'
      /\ ledger' \in Ledgers /\ bytes' \in Nat
  <2>1. /\ Finished(t, 0) /\ UnderWay(t) /\ ~UnderWay(t)' /\ bytes' = bytes /\ bytes \in Nat
        /\ bytes <= limits.bytes /\ fetch[t].admitted \in Nat
    BY <1>0, <1>1, WhatIsKnown DEF Transient, At, UnderWay, TypeOK, LimitsKept, Calls
  <2>2. bytes' = bytes + 0
    BY <2>1
  <2>4. fetch'[t].admitted = fetch[t].admitted + 0
    <3>1. fetch[t].admitted \in Nat
      BY <2>1
    <3>2. fetch'[t].admitted = fetch[t].admitted
      BY <1>1
    <3> QED
      BY <3>1, <3>2
  <2>3. bytes' <= limits.bytes
    BY <2>1
  <2> QED
    BY <1>0, <1>1, <2>1, <2>2, <2>3, <2>4, WhatIsKnown, LedgerFinishes
<1>5. BreakerType' /\ OpenAdmitsNobody'
  BY <1>0, <1>1, WhatIsKnown, BreakerStays DEF Transient, At, UnderWay, Outside, SameRequest
<1>6. paced' \in [Origins -> BOOLEAN] /\ expired' \in BOOLEAN
  BY WhatIsKnown DEF Transient
<1> QED
  BY <1>0, <1>1, <1>2, <1>3, <1>4, <1>5, <1>6, Together

\* The success is recorded, and the result returned.
LEMMA StepSucceed ==
    ASSUME TypeOK, IInv, NEW t \in Fetches, Succeed(t)
    PROVE  TypeOK' /\ IInv'
<1>0. limits' = limits /\ fetch[t] \in Calls
  BY WhatIsKnown DEF Succeed
<1>1. /\ fetch' \in [Fetches -> Calls] /\ Only(t) /\ SameRequest(t) /\ SameReceipts(t)
      /\ fetch'[t].pc = "done" /\ fetch'[t].outcome = "fetched"
  <2>1. "fetched" \in Outcomes /\ Ends(t, "fetched")
    BY DEF Outcomes, Succeed
  <2> QED
    BY <2>1, CallEnds
<1>2. CallOK(t)' /\ StageOK(t)'
  BY <1>0, <1>1, WhatIsKnown DEF CallOK, StageOK, At, SameRequest, SameReceipts, UnderWay, Succeed, Calls
<1>3. SlotsKept' /\ originFree' \in [Origins -> Nat] /\ globalFree' \in Nat
  BY <1>0, <1>1, WhatIsKnown, SlotsReleased DEF Succeed
<1>4. /\ SentCounted' /\ ReceiptsCounted' /\ LimitsKept'
      /\ ledger' \in Ledgers /\ bytes' \in Nat
  BY <1>0, <1>1, WhatIsKnown, LedgerStays DEF Succeed, budget, At, UnderWay, SameRequest
<1>5. BreakerType' /\ OpenAdmitsNobody'
  BY <1>0, <1>1, WhatIsKnown, BreakerResets DEF Succeed, At, Outside, SameRequest
<1>6. paced' \in [Origins -> BOOLEAN] /\ expired' \in BOOLEAN
  BY WhatIsKnown DEF Succeed
<1> QED
  BY <1>0, <1>1, <1>2, <1>3, <1>4, <1>5, <1>6, Together

\* The next hop.
LEMMA StepFollow ==
    ASSUME TypeOK, IInv, NEW t \in Fetches, NEW o \in Origins, Follow(t, o)
    PROVE  TypeOK' /\ IInv'
<1>0. limits' = limits /\ fetch[t] \in Calls
  BY WhatIsKnown DEF Follow
<1>1. /\ fetch' \in [Fetches -> Calls] /\ Only(t) /\ SameReceipts(t)
      /\ fetch'[t].pc = "wait" /\ fetch'[t].outcome = fetch[t].outcome
      /\ fetch'[t].attempt = 1 /\ fetch'[t].hops = fetch[t].hops + 1
  BY CallFollows
<1>2. CallOK(t)' /\ StageOK(t)'
  <2>1. /\ fetch[t].hops \in Nat /\ fetch[t].hops < limits.redirect /\ limits.redirect \in Nat
        /\ limits.attempts \in Nat \ {0} /\ fetch[t].outcome = "" /\ fetch[t].admitted = 0
    BY <1>0, WhatIsKnown DEF CallOK, StageOK, At, Follow, Calls
  <2>2. fetch'[t].attempt \in 1 .. limits'.attempts /\ fetch'[t].hops <= limits'.redirect
    <3>1. limits'.attempts = limits.attempts /\ limits'.redirect = limits.redirect
      BY <1>0
    <3>2. fetch'[t].attempt \in 1 .. limits.attempts
      <4>1. \A n \in Nat \ {0} : 1 \in 1 .. n
        OBVIOUS
      <4>2. fetch'[t].attempt = 1 /\ limits.attempts \in Nat \ {0}
        BY <1>1, <2>1
      <4> QED
        BY <4>1, <4>2
    <3>3. fetch'[t].hops <= limits.redirect
      <4>1. \A h, n \in Nat : h < n => h + 1 <= n
        OBVIOUS
      <4>2. fetch'[t].hops = fetch[t].hops + 1
        BY <1>1
      <4> QED
        BY <2>1, <4>1, <4>2
    <3> QED
      BY <3>1, <3>2, <3>3
  <2>3. CallOK(t)'
    BY <1>1, <2>1, <2>2 DEF CallOK, At
  <2>4. StageOK(t)'
    BY <1>1, <2>1 DEF StageOK, At, SameReceipts
  <2> QED
    BY <2>3, <2>4
<1>3. SlotsKept' /\ originFree' \in [Origins -> Nat] /\ globalFree' \in Nat
  BY <1>0, <1>1, WhatIsKnown, SlotsReleased DEF Follow
<1>4. /\ SentCounted' /\ ReceiptsCounted' /\ LimitsKept'
      /\ ledger' \in Ledgers /\ bytes' \in Nat
  BY <1>0, <1>1, WhatIsKnown, LedgerStays DEF Follow, budget, At, UnderWay, SameRequest
<1>5. BreakerType' /\ OpenAdmitsNobody'
  BY <1>0, <1>1, WhatIsKnown, BreakerResets DEF Follow, At, Outside, SameRequest
<1>6. paced' \in [Origins -> BOOLEAN] /\ expired' \in BOOLEAN
  BY WhatIsKnown DEF Follow
<1> QED
  BY <1>0, <1>1, <1>2, <1>3, <1>4, <1>5, <1>6, Together

\* The failure is recorded, and the fetch sleeps or ends.
LEMMA StepRecord ==
    ASSUME TypeOK, IInv, NEW t \in Fetches, Record(t)
    PROVE  TypeOK' /\ IInv'
<1>0. limits' = limits /\ fetch[t] \in Calls
  BY WhatIsKnown DEF Record
<1>1. /\ fetch' \in [Fetches -> Calls] /\ Only(t) /\ SameRequest(t) /\ SameReceipts(t)
      /\ \/ /\ fetch'[t].pc = "backoff" /\ fetch'[t].outcome = fetch[t].outcome
            /\ fetch[t].attempt < limits.attempts
         \/ fetch'[t].pc = "done" /\ fetch'[t].outcome = "failed"
  <2>1. CASE fetch[t].attempt < limits.attempts
    <3>1. "backoff" \in Points /\ Goes(t, "backoff")
      BY <2>1 DEF Points, Record
    <3> QED
      BY <2>1, <3>1, CallGoes
  <2>2. CASE ~(fetch[t].attempt < limits.attempts)
    <3>1. "failed" \in Outcomes /\ Ends(t, "failed")
      BY <2>2 DEF Outcomes, Record
    <3> QED
      BY <3>1, CallEnds
  <2> QED
    BY <2>1, <2>2
<1>2. CallOK(t)' /\ StageOK(t)'
  BY <1>0, <1>1, WhatIsKnown DEF CallOK, StageOK, At, SameRequest, SameReceipts, UnderWay, Record, Calls
<1>3. SlotsKept' /\ originFree' \in [Origins -> Nat] /\ globalFree' \in Nat
  BY <1>0, <1>1, WhatIsKnown, SlotsReleased DEF Record
<1>4. /\ SentCounted' /\ ReceiptsCounted' /\ LimitsKept'
      /\ ledger' \in Ledgers /\ bytes' \in Nat
  BY <1>0, <1>1, WhatIsKnown, LedgerStays DEF Record, budget, At, UnderWay, SameRequest
<1>5. BreakerType' /\ OpenAdmitsNobody'
  BY <1>0, <1>1, WhatIsKnown, BreakerRecords DEF Record, Outside
<1>6. paced' \in [Origins -> BOOLEAN] /\ expired' \in BOOLEAN
  BY WhatIsKnown DEF Record
<1> QED
  BY <1>0, <1>1, <1>2, <1>3, <1>4, <1>5, <1>6, Together

\* The fetch tries again, or gives up.
LEMMA StepRetry ==
    ASSUME TypeOK, IInv, NEW t \in Fetches, Retry(t)
    PROVE  TypeOK' /\ IInv'
<1>0. limits' = limits /\ fetch[t] \in Calls
  BY WhatIsKnown DEF Retry
<1>1. /\ fetch' \in [Fetches -> Calls] /\ Only(t) /\ SameReceipts(t)
      /\ fetch'[t].origin = fetch[t].origin /\ fetch'[t].hops = fetch[t].hops
      /\ \/ /\ fetch'[t].pc = "wait" /\ fetch'[t].outcome = fetch[t].outcome
            /\ fetch'[t].attempt = fetch[t].attempt + 1
         \/ /\ fetch'[t].pc = "done" /\ fetch'[t].outcome = "refused"
            /\ fetch'[t].attempt = fetch[t].attempt
  <2>1. CASE Ends(t, "refused")
    <3>1. "refused" \in Outcomes
      BY DEF Outcomes
    <3> QED
      BY <2>1, <3>1, CallEnds DEF SameRequest
  <2>2. CASE ~Ends(t, "refused")
    BY <2>2, CallRetries DEF Retry
  <2> QED
    BY <2>1, <2>2
<1>2. CallOK(t)' /\ StageOK(t)'
  <2>1. /\ fetch[t].attempt \in 1 .. limits.attempts /\ fetch[t].attempt < limits.attempts
        /\ limits.attempts \in Nat \ {0} /\ fetch[t].outcome = "" /\ fetch[t].admitted = 0
        /\ fetch[t].hops <= limits.redirect
    BY <1>0, WhatIsKnown DEF CallOK, StageOK, At, Retry, Calls
  <2>2. fetch'[t].attempt \in 1 .. limits'.attempts /\ fetch'[t].hops <= limits'.redirect
    <3>1. limits'.attempts = limits.attempts /\ limits'.redirect = limits.redirect
      BY <1>0
    <3>2. fetch'[t].attempt \in 1 .. limits.attempts
      <4>1. \A n \in Nat : \A a \in 1 .. n : a < n => a + 1 \in 1 .. n
        OBVIOUS
      <4>2. \/ fetch'[t].attempt = fetch[t].attempt + 1
            \/ fetch'[t].attempt = fetch[t].attempt
        BY <1>1
      <4>3. limits.attempts \in Nat
        BY <2>1
      <4> QED
        BY <2>1, <4>1, <4>2, <4>3
    <3>3. fetch'[t].hops <= limits.redirect
      BY <1>1, <2>1
    <3> QED
      BY <3>1, <3>2, <3>3
  <2>3. CallOK(t)'
    BY <1>1, <2>1, <2>2 DEF CallOK, At
  <2>4. StageOK(t)'
    BY <1>1, <2>1 DEF StageOK, At, SameReceipts
  <2> QED
    BY <2>3, <2>4
<1>3. SlotsKept' /\ originFree' \in [Origins -> Nat] /\ globalFree' \in Nat
  BY <1>0, <1>1, WhatIsKnown, SlotsStay DEF Retry, At, HoldsOrigin, HoldsGlobal, SameRequest
<1>4. /\ SentCounted' /\ ReceiptsCounted' /\ LimitsKept'
      /\ ledger' \in Ledgers /\ bytes' \in Nat
  BY <1>0, <1>1, WhatIsKnown, LedgerStays DEF Retry, budget, At, UnderWay, SameRequest
<1>5. BreakerType' /\ OpenAdmitsNobody'
  BY <1>0, <1>1, WhatIsKnown, BreakerStays DEF Retry, At, UnderWay, Outside, SameRequest
<1>6. paced' \in [Origins -> BOOLEAN] /\ expired' \in BOOLEAN
  BY WhatIsKnown DEF Retry
<1> QED
  BY <1>0, <1>1, <1>2, <1>3, <1>4, <1>5, <1>6, Together

\* A cancellation of an attempt under way.
LEMMA StepCancelSent ==
    ASSUME TypeOK, IInv, NEW t \in Fetches, Cancel(t), UnderWay(t)
    PROVE  TypeOK' /\ IInv'
<1>0. limits' = limits /\ fetch[t] \in Calls
  BY WhatIsKnown DEF Cancel
<1>1. /\ fetch' \in [Fetches -> Calls] /\ Only(t) /\ SameRequest(t)
      /\ fetch'[t].pc = "done" /\ fetch'[t].outcome = "cancelled"
      /\ fetch'[t].receipts = fetch[t].receipts + 1 /\ fetch'[t].admitted = fetch[t].admitted
  <2>1. "done" \in Points /\ "cancelled" \in Outcomes /\ Receives(t, "done", "cancelled")
    BY DEF Points, Outcomes, Cancel
  <2> QED
    BY <2>1, CallReceives
<1>2. CallOK(t)' /\ StageOK(t)'
  BY <1>0, <1>1, WhatIsKnown DEF CallOK, StageOK, At, SameRequest, SameReceipts, UnderWay, Cancel, Calls
<1>3. SlotsKept' /\ originFree' \in [Origins -> Nat] /\ globalFree' \in Nat
  BY <1>0, <1>1, WhatIsKnown, SlotsReleased DEF Cancel
<1>4. /\ SentCounted' /\ ReceiptsCounted' /\ LimitsKept'
      /\ ledger' \in Ledgers /\ bytes' \in Nat
  <2>1. /\ Finished(t, 0) /\ UnderWay(t) /\ ~UnderWay(t)' /\ bytes' = bytes /\ bytes \in Nat
        /\ bytes <= limits.bytes /\ fetch[t].admitted \in Nat
    BY <1>0, <1>1, WhatIsKnown DEF Cancel, At, UnderWay, TypeOK, LimitsKept, Calls
  <2>2. bytes' = bytes + 0
    BY <2>1
  <2>4. fetch'[t].admitted = fetch[t].admitted + 0
    <3>1. fetch[t].admitted \in Nat
      BY <2>1
    <3>2. fetch'[t].admitted = fetch[t].admitted
      BY <1>1
    <3> QED
      BY <3>1, <3>2
  <2>3. bytes' <= limits.bytes
    BY <2>1
  <2> QED
    BY <1>0, <1>1, <2>1, <2>2, <2>3, <2>4, WhatIsKnown, LedgerFinishes
<1>5. BreakerType' /\ OpenAdmitsNobody'
  BY <1>0, <1>1, WhatIsKnown, BreakerStays DEF Cancel, At, UnderWay, Outside, SameRequest
<1>6. paced' \in [Origins -> BOOLEAN] /\ expired' \in BOOLEAN
  BY WhatIsKnown DEF Cancel
<1> QED
  BY <1>0, <1>1, <1>2, <1>3, <1>4, <1>5, <1>6, Together

\* A cancellation anywhere else.
LEMMA StepCancelIdle ==
    ASSUME TypeOK, IInv, NEW t \in Fetches, Cancel(t), ~UnderWay(t)
    PROVE  TypeOK' /\ IInv'
<1>0. limits' = limits /\ fetch[t] \in Calls
  BY WhatIsKnown DEF Cancel
<1>1. /\ fetch' \in [Fetches -> Calls] /\ Only(t) /\ SameRequest(t) /\ SameReceipts(t)
      /\ fetch'[t].pc = "done" /\ fetch'[t].outcome = "cancelled"
  <2>1. "cancelled" \in Outcomes /\ Ends(t, "cancelled")
    BY DEF Outcomes, Cancel
  <2> QED
    BY <2>1, CallEnds
<1>2. CallOK(t)' /\ StageOK(t)'
  BY <1>0, <1>1, WhatIsKnown DEF CallOK, StageOK, At, SameRequest, SameReceipts, UnderWay, Cancel, Calls
<1>3. SlotsKept' /\ originFree' \in [Origins -> Nat] /\ globalFree' \in Nat
  BY <1>0, <1>1, WhatIsKnown, SlotsReleased DEF Cancel
<1>4. /\ SentCounted' /\ ReceiptsCounted' /\ LimitsKept'
      /\ ledger' \in Ledgers /\ bytes' \in Nat
  <2>1. UNCHANGED budget /\ ~UnderWay(t)'
    BY <1>1 DEF Cancel, budget, UnderWay
  <2> QED
    BY <1>0, <1>1, <2>1, WhatIsKnown, LedgerStays
<1>5. BreakerType' /\ OpenAdmitsNobody'
  BY <1>0, <1>1, WhatIsKnown, BreakerStays DEF Cancel, At, UnderWay, Outside, SameRequest
<1>6. paced' \in [Origins -> BOOLEAN] /\ expired' \in BOOLEAN
  BY WhatIsKnown DEF Cancel
<1> QED
  BY <1>0, <1>1, <1>2, <1>3, <1>4, <1>5, <1>6, Together

(***************************************************************************)
(* The invariant is inductive.                                               *)
(***************************************************************************)

LEMMA FetchSteps ==
    ASSUME TypeOK, IInv, NEW t \in Fetches, Before(t) \/ After(t) \/ Cancel(t)
    PROVE  TypeOK' /\ IInv'
<1>1. CASE Before(t)
  BY <1>1, StepWaitRefused, StepTakeTurn, StepWaitTurn, StepAcquireOrigin, StepAcquireGlobal,
     StepAcquireTimesOut, StepRefused, StepReserve DEF Before
<1>2. CASE After(t)
  BY <1>2, StepHead, StepBody, StepBodyTooLarge, StepNotModified, StepRedirect, StepRejected,
     StepTransient, StepSucceed, StepFollow, StepRecord, StepRetry DEF After
<1>3. CASE Cancel(t)
  BY <1>3, StepCancelSent, StepCancelIdle
<1> QED
  BY <1>1, <1>2, <1>3

\* Time passes, and nobody moves.
LEMMA NobodyMoves ==
    ASSUME TypeOK, IInv, UNCHANGED <<limits, fetch, slots, budget>>,
           BreakerType', paced' \in [Origins -> BOOLEAN], expired' \in BOOLEAN,
           \A o \in Origins : openUntil'[o] = "open" => openUntil[o] = "open",
           early' = early
    PROVE  TypeOK' /\ IInv'
<1>1. /\ limits' = limits /\ fetch' = fetch /\ originFree' = originFree
      /\ globalFree' = globalFree /\ ledger' = ledger /\ bytes' = bytes
  BY DEF slots, budget
<1>2. TypeOK'
  BY <1>1 DEF TypeOK, BreakerType, At
<1>3. /\ Running' = Running /\ AllSent' = AllSent /\ InFlight' = InFlight
      /\ \A o \in Origins : Holders(o)' = Holders(o) /\ Sent(o)' = Sent(o)
  BY <1>1 DEF Running, AllSent, InFlight, Holders, Sent, HoldsGlobal, HoldsOrigin, UnderWay
<1>4. SlotsKept' /\ SentCounted'
  BY <1>1, <1>3 DEF IInv, SlotsKept, SentCounted
<1>5. Receipts' = Receipts /\ Sizings' = Sizings
  BY <1>1 DEF Receipts, Sizings
<1>6. ReceiptsCounted' /\ LimitsKept'
  BY <1>1, <1>3, <1>5 DEF IInv, ReceiptsCounted, LimitsKept
<1>7. StagesOK'
  BY <1>1 DEF IInv, StagesOK, StageOK, At
<1>8. OpenAdmitsNobody'
  BY <1>1 DEF IInv, OpenAdmitsNobody, PastCheck
<1> QED
  BY <1>2, <1>4, <1>6, <1>7, <1>8 DEF IInv

LEMMA NextInv ==
    ASSUME TypeOK, IInv, [Next]_vars
    PROVE  TypeOK' /\ IInv'
<1>0. /\ BreakerType /\ paced \in [Origins -> BOOLEAN] /\ expired \in BOOLEAN
      /\ openUntil \in [Origins -> {"never", "open", "over"}]
  BY DEF TypeOK, BreakerType
<1>1. ASSUME NEW t \in Fetches, Before(t) \/ After(t) \/ Cancel(t) PROVE TypeOK' /\ IInv'
  BY <1>1, FetchSteps
<1>2. CASE Expire
  BY <1>0, <1>2, NobodyMoves DEF Expire, breaker, BreakerType
<1>3. ASSUME NEW o \in Origins, TurnComes(o) PROVE TypeOK' /\ IInv'
  BY <1>0, <1>3, NobodyMoves DEF TurnComes, breaker, BreakerType
<1>4. ASSUME NEW o \in Origins, CoolsDown(o) PROVE TypeOK' /\ IInv'
  <2>1. openUntil' = [openUntil EXCEPT ![o] = "over"]
    BY <1>4 DEF CoolsDown
  <2>2. openUntil' \in [Origins -> {"never", "open", "over"}]
    BY <1>0, <2>1
  <2>3. \A p \in Origins : openUntil'[p] = "open" => openUntil[p] = "open"
    BY <1>0, <2>1
  <2> QED
    BY <1>0, <1>4, <2>2, <2>3, NobodyMoves DEF CoolsDown, BreakerType
<1>5. CASE UNCHANGED vars
  BY <1>0, <1>5, NobodyMoves DEF vars, breaker, slots, budget, BreakerType
<1> QED
  BY <1>1, <1>2, <1>3, <1>4, <1>5 DEF Next

LEMMA InitInv == Init => TypeOK /\ IInv
<1> SUFFICES ASSUME Init PROVE TypeOK /\ IInv
  OBVIOUS
<1> DEFINE none == [consumed |-> 0, admitted |-> 0, origins |-> {},
                    inFlight |-> [o \in Origins |-> 0], kinds |-> [k \in Kinds |-> 0]]
<1>1. /\ limits \in Configurations /\ ledger = none /\ bytes = 0
  BY DEF Init
<1>2. none \in Ledgers
  BY DEF Ledgers
<1>3. \A t \in Fetches :
        /\ fetch[t].pc = "wait" /\ fetch[t].origin \in Origins /\ fetch[t].attempt = 1
        /\ fetch[t].hops = 0 /\ fetch[t].receipts = 0 /\ fetch[t].admitted = 0
        /\ fetch[t].outcome = ""
  BY DEF Init
<1>4. fetch \in [Fetches -> Calls]
  <2>1. "wait" \in Points /\ "initial" \in Kinds /\ "pagination" \in Kinds /\ "" \in Outcomes
    BY DEF Points, Kinds, Outcomes
  <2> DEFINE first == [pc : {"wait"}, origin : Origins, kind : {"initial", "pagination"},
                       attempt : {1}, hops : {0}, receipts : {0}, admitted : {0}, outcome : {""}]
  <2>2. ASSUME NEW c \in first PROVE c \in Calls
    <3>4. /\ c.pc = "wait" /\ c.origin \in Origins /\ (c.kind = "initial" \/ c.kind = "pagination")
          /\ c.attempt = 1 /\ c.hops = 0
      OBVIOUS
    <3>5. c.receipts = 0
      OBVIOUS
    <3>6. c.admitted = 0
      OBVIOUS
    <3>7. c.outcome = ""
      OBVIOUS
    <3>1. /\ c.pc \in Points /\ c.origin \in Origins /\ c.kind \in Kinds
          /\ c.attempt \in Nat /\ c.hops \in Nat
      <4> HIDE DEF first
      <4>1. c.pc \in Points /\ c.origin \in Origins
        BY <2>1, <3>4
      <4>2. c.kind \in Kinds
        BY <2>1, <3>4, Zenon
      <4>3. c.attempt \in Nat
        BY <3>4
      <4>4. c.hops \in Nat
        BY <3>4
      <4> QED
        BY <4>1, <4>2, <4>3, <4>4
    <3>2. c.receipts \in Nat /\ c.admitted \in Nat /\ c.outcome \in Outcomes
      <4> HIDE DEF first
      <4>1. c.receipts \in Nat
        BY <3>5
      <4>2. c.admitted \in Nat
        BY <3>6
      <4>3. c.outcome \in Outcomes
        BY <2>1, <3>7
      <4> QED
        BY <4>1, <4>2, <4>3
    <3>3. c = [pc |-> c.pc, origin |-> c.origin, kind |-> c.kind, attempt |-> c.attempt,
               hops |-> c.hops, receipts |-> c.receipts, admitted |-> c.admitted,
               outcome |-> c.outcome]
      OBVIOUS
    <3> HIDE DEF first
    <3> QED
      BY <3>1, <3>2, <3>3 DEF Calls
  <2>3. fetch \in [Fetches -> first]
    BY DEF Init
  <2> HIDE DEF first
  <2> QED
    BY <2>2, <2>3
<1>5. /\ limits.attempts \in Nat \ {0} /\ limits.redirect \in Nat /\ limits.requests \in Nat
      /\ limits.origins \in Nat /\ limits.bytes \in Nat /\ limits.perOrigin \in Nat
      /\ limits.concurrency \in Nat /\ limits.retry \in Nat /\ limits.pagination \in Nat
  BY <1>1, DiscoveryHttpAssumption DEF Limits
<1>6. \A t \in Fetches : CallOK(t) /\ StageOK(t)
  <2> SUFFICES ASSUME NEW t \in Fetches PROVE CallOK(t) /\ StageOK(t)
    OBVIOUS
  <2>1. 1 \in 1 .. limits.attempts /\ 0 <= limits.redirect
    BY <1>5
  <2>2. CallOK(t)
    BY <1>3, <2>1 DEF CallOK, At
  <2>3. StageOK(t)
    BY <1>3 DEF StageOK, At
  <2> QED
    BY <2>2, <2>3
<1>7. /\ originFree = [o \in Origins |-> limits.perOrigin] /\ globalFree = limits.concurrency
      /\ BreakerType /\ paced \in [Origins -> BOOLEAN] /\ expired \in BOOLEAN
      /\ \A o \in Origins : openUntil[o] = "never"
  BY DEF Init, BreakerType
<1>8. TypeOK
  BY <1>1, <1>2, <1>4, <1>5, <1>6, <1>7 DEF TypeOK, CallOK, BreakerType
<1>9. /\ Running = {} /\ AllSent = {} /\ \A o \in Origins : Holders(o) = {} /\ Sent(o) = {}
  BY <1>3 DEF Running, AllSent, Holders, Sent, HoldsGlobal, HoldsOrigin, UnderWay
<1>10. Cardinality({}) = 0
  BY FS_EmptySet
<1>11. SlotsKept
  <2>1. \A o \in Origins : originFree[o] = limits.perOrigin /\ Cardinality(Holders(o)) = 0
    BY <1>7, <1>9, <1>10
  <2>2. globalFree = limits.concurrency /\ Cardinality(Running) = 0
    BY <1>7, <1>9, <1>10
  <2> QED
    BY <1>5, <2>1, <2>2 DEF SlotsKept
<1>12. InFlight = 0 /\ \A o \in Origins : ledger.inFlight[o] = 0
  <2>1. ledger.inFlight = [o \in Origins |-> 0]
    BY <1>1
  <2> QED
    BY <2>1, SumOfNone, DiscoveryHttpAssumption DEF InFlight
<1>13. SentCounted
  BY <1>9, <1>10, <1>12 DEF SentCounted
<1>14. Receipts = [t \in Fetches |-> 0] /\ Sizings = [t \in Fetches |-> 0]
  BY <1>3 DEF Receipts, Sizings
<1>15. ReceiptsCounted
  BY <1>1, <1>14, SumOfNone, DiscoveryHttpAssumption DEF ReceiptsCounted
<1>16. LimitsKept
  <2>1. \A k \in Limited : ledger.kinds[k] = 0 /\ limits[k] \in Nat
    BY <1>1, <1>5 DEF Limited, Kinds
  <2>2. ledger.consumed = 0 /\ ledger.origins = {}
    BY <1>1
  <2> QED
    BY <1>1, <1>5, <1>10, <1>12, <2>1, <2>2 DEF LimitsKept
<1>17. OpenAdmitsNobody
  BY <1>7 DEF OpenAdmitsNobody
<1> QED
  BY <1>6, <1>8, <1>11, <1>13, <1>15, <1>16, <1>17 DEF IInv, StagesOK

LEMMA Invariance == Spec => [](TypeOK /\ IInv)
<1>1. Init => TypeOK /\ IInv
  BY InitInv
<1>2. TypeOK /\ IInv /\ [Next]_vars => (TypeOK /\ IInv)'
  BY NextInv
<1> QED
  BY <1>1, <1>2, PTL DEF Spec

(***************************************************************************)
(* The theorems.                                                             *)
(***************************************************************************)

\* The ledger of requests tells what the receipts of the callers tell, whichever way an
\* attempt ends, and no limit is passed (RequestBudgetLedger, ByteBudget).
THEOREM LedgersAreExact == Spec => []LedgerExact
<1>1. TypeOK /\ IInv => LedgerExact
  <2> SUFFICES ASSUME TypeOK, IInv PROVE LedgerExact
    OBVIOUS
  <2>1. /\ ledger.consumed = SumFunction([t \in Fetches |-> fetch[t].receipts])
        /\ bytes = ledger.admitted
        /\ bytes = SumFunction([t \in Fetches |-> fetch[t].admitted])
    BY DEF IInv, ReceiptsCounted, Receipts, Sizings
  <2>2. \A o \in Origins :
          ledger.inFlight[o] = Cardinality({t \in Fetches : fetch[t].origin = o /\ UnderWay(t)})
    BY DEF IInv, SentCounted, Sent
  <2> QED
    BY <2>1, <2>2 DEF IInv, LimitsKept, LedgerExact
<1> QED
  BY <1>1, Invariance, PTL

\* No slot is lost or given back twice, and a fetch that has both its slots is never turned
\* away for want of one (_acquire_concurrency, _release_concurrency, RequestBudgetLedger.reserve).
THEOREM SlotsAlwaysSuffice == Spec => []SlotsSuffice
<1>1. TypeOK /\ IInv => SlotsSuffice
  BY DEF IInv, StagesOK, StageOK, SlotsSuffice
<1> QED
  BY <1>1, Invariance, PTL

\* While a circuit is open, only those are past its check that were when it opened
\* (_wait_for_origin, _record_transient_failure).
THEOREM OpenCircuitsHold == Spec => []OpenAdmitsNobody
<1>1. TypeOK /\ IInv => OpenAdmitsNobody
  BY DEF IInv
<1> QED
  BY <1>1, Invariance, PTL
=============================================================================
