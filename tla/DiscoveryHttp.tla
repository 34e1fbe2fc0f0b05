--------------------------- MODULE DiscoveryHttp ---------------------------
(***************************************************************************)
(* The HTTP runtime of quarantined discovery                                  *)
(* (src/src/openopps/discovery/http_client.py, DiscoveryHttpRuntime, and the    *)
(* budgets of transport.py).  Concurrent fetches share one deadline, one ledger  *)
(* of requests, one budget of bytes, and for each origin a pace, a circuit        *)
(* breaker and a number of slots.  A fetch follows redirects and repeats what      *)
(* failed for a while, and may be cancelled wherever it awaits something.           *)
(***************************************************************************)
EXTENDS Naturals, FiniteSets, Functions

CONSTANTS
    Fetches,         \* calls of fetch
    Origins,         \* origins of locators
    Sizes,           \* sizes of response bodies
    Configurations   \* DiscoveryHttpLimits that a runtime may be given

Kinds == {"initial", "pagination", "redirect", "retry"}
Limited == Kinds \ {"initial"}

\* DiscoveryHttpLimits.__post_init__.  redirects also bounds the hops of a redirect policy.
Limits == [requests : Nat \ {0}, origins : Nat \ {0}, concurrency : Nat \ {0},
           perOrigin : Nat \ {0}, bytes : Nat \ {0}, redirect : Nat \ {0}, retry : Nat \ {0},
           pagination : Nat \ {0}, attempts : Nat \ {0}, failures : Nat \ {0}]

ASSUME DiscoveryHttpAssumption ==
    /\ Configurations \subseteq Limits
    /\ \A c \in Configurations : c.perOrigin <= c.concurrency /\ c.concurrency <= c.requests
    /\ Sizes \subseteq Nat
    /\ IsFiniteSet(Fetches) /\ IsFiniteSet(Origins)

VARIABLES
    limits,       \* the limits of the runtime, which never change
    fetch,        \* the calls
    expired,      \* the deadline of the runtime has passed
    circuits,     \* origins that have a circuit
    failures,     \* consecutive failures of an origin
    openUntil,    \* its circuit: never opened, open, or open until a time that has passed
    paced,        \* the next request to the origin must still wait
    originFree,   \* free slots of the semaphore of an origin
    globalFree,   \* free slots of the semaphore of the runtime
    ledger,       \* the ledger of requests
    bytes,        \* bytes consumed of the budget
    early         \* history: who was past the check when the circuit of an origin opened

vars == <<limits, fetch, expired, circuits, failures, openUntil, paced, originFree,
          globalFree, ledger, bytes, early>>
breaker == <<circuits, failures, openUntil, early>>
slots == <<originFree, globalFree>>
budget == <<ledger, bytes>>

\* How a call ended: before a request, for want of a slot, by its answer.
Outcomes == {"", "fetched", "failed", "refused", "no_slot", "cancelled"}
Points == {"wait", "origin", "global", "reserve", "sent", "body", "succeeded", "redirected",
           "transient", "backoff", "done"}

Init ==
    /\ limits \in Configurations
    /\ fetch \in [Fetches -> [pc : {"wait"}, origin : Origins, kind : {"initial", "pagination"},
                              attempt : {1}, hops : {0}, receipts : {0},
                              admitted : {0}, outcome : {""}]]
    /\ expired = FALSE /\ circuits = {}
    /\ failures = [o \in Origins |-> 0] /\ openUntil = [o \in Origins |-> "never"]
    /\ paced = [o \in Origins |-> FALSE]
    /\ originFree = [o \in Origins |-> limits.perOrigin] /\ globalFree = limits.concurrency
    /\ ledger = [consumed |-> 0, admitted |-> 0, origins |-> {},
                 inFlight |-> [o \in Origins |-> 0], kinds |-> [k \in Kinds |-> 0]]
    /\ bytes = 0
    /\ early = [o \in Origins |-> {}]

(***************************************************************************)
(* Helpers.                                                                   *)
(***************************************************************************)

InFlight == SumFunction(ledger.inFlight)
At(t, pc) == fetch[t].pc = pc
Goes(t, pc) == fetch' = [fetch EXCEPT ![t].pc = pc]
Ends(t, outcome) == fetch' = [fetch EXCEPT ![t].pc = "done", ![t].outcome = outcome]

\* _release_concurrency, and the release inside _acquire_concurrency.
HoldsOrigin(t) ==
    fetch[t].pc \in {"global", "reserve", "sent", "body", "succeeded", "redirected", "transient"}
HoldsGlobal(t) == HoldsOrigin(t) /\ fetch[t].pc # "global"
UnderWay(t) == fetch[t].pc \in {"sent", "body"}
Released(t) ==
    /\ originFree' = [originFree EXCEPT ![fetch[t].origin] = @ + IF HoldsOrigin(t) THEN 1 ELSE 0]
    /\ globalFree' = globalFree + IF HoldsGlobal(t) THEN 1 ELSE 0

\* RequestBudgetLedger.finish.
Finished(t, size) ==
    ledger' = [ledger EXCEPT !.consumed = @ + 1, !.admitted = @ + size,
                             !.inFlight[fetch[t].origin] = @ - 1]

\* The attempt is finished, and the fetch goes on or ends with the receipt of the attempt.
Receives(t, pc, outcome) ==
    fetch' = [fetch EXCEPT ![t].pc = pc, ![t].outcome = outcome, ![t].receipts = @ + 1]

\* RequestBudgetLedger.reserve, in this order: the deadline and the requests, the slots, the
\* origins and the kind of the attempt.
Spent == expired \/ ledger.consumed + InFlight >= limits.requests
NoSlot(o) == InFlight >= limits.concurrency \/ ledger.inFlight[o] >= limits.perOrigin
Barred(o, kind) ==
    \/ o \notin ledger.origins /\ Cardinality(ledger.origins) >= limits.origins
    \/ kind \in Limited /\ ledger.kinds[kind] >= limits[kind]
Admitted(t) ==
    ~(Spent \/ NoSlot(fetch[t].origin) \/ Barred(fetch[t].origin, fetch[t].kind))

(***************************************************************************)
(* Before a request: pace, circuit, slots, reservation.                         *)
(***************************************************************************)

Known(o) == o \in circuits \/ Cardinality(circuits) < limits.origins
Blocked(o) == ~Known(o) \/ openUntil[o] = "open"

\* _wait_for_origin, under the state lock: the circuit of an origin that has cooled down is
\* reset, also when the fetch must still wait for its turn.
Checked(o) ==
    /\ circuits' = circuits \cup {o}
    /\ openUntil' = [openUntil EXCEPT ![o] = "never"]
    /\ failures' = [failures EXCEPT ![o] = IF openUntil[o] = "over" THEN 0 ELSE @]
    /\ early' = [early EXCEPT ![o] = {}]

WaitRefused(t) ==
    /\ At(t, "wait")
    /\ expired \/ Blocked(fetch[t].origin)
    /\ Ends(t, "refused")
    /\ UNCHANGED <<limits, expired, breaker, paced, slots, budget>>

\* The turn of the fetch: the next one waits for the interval.
TakeTurn(t) ==
    LET o == fetch[t].origin IN
    /\ At(t, "wait") /\ ~expired /\ ~Blocked(o) /\ ~paced[o]
    /\ Checked(o)
    /\ paced' = [paced EXCEPT ![o] = TRUE]
    /\ Goes(t, "origin")
    /\ UNCHANGED <<limits, expired, slots, budget>>

\* It sleeps and looks again, unless its turn comes after the deadline.
WaitTurn(t) ==
    LET o == fetch[t].origin IN
    /\ At(t, "wait") /\ ~expired /\ ~Blocked(o) /\ paced[o]
    /\ Checked(o)
    /\ UNCHANGED fetch \/ Ends(t, "refused")
    /\ UNCHANGED <<limits, expired, paced, slots, budget>>

AcquireOrigin(t) ==
    /\ At(t, "origin") /\ originFree[fetch[t].origin] > 0
    /\ originFree' = [originFree EXCEPT ![fetch[t].origin] = @ - 1]
    /\ Goes(t, "global")
    /\ UNCHANGED <<limits, expired, breaker, paced, globalFree, budget>>

AcquireGlobal(t) ==
    /\ At(t, "global") /\ globalFree > 0
    /\ globalFree' = globalFree - 1
    /\ Goes(t, "reserve")
    /\ UNCHANGED <<limits, expired, breaker, paced, originFree, budget>>

AcquireTimesOut(t) ==
    /\ expired /\ (At(t, "origin") \/ At(t, "global"))
    /\ Released(t)
    /\ Ends(t, "refused")
    /\ UNCHANGED <<limits, expired, breaker, paced, budget>>

\* Mutant: a refused reservation keeps the slots.
Refused_Keeps(t) ==
    /\ At(t, "reserve") /\ ~Admitted(t)
    /\ Ends(t, IF ~Spent /\ NoSlot(fetch[t].origin) THEN "no_slot" ELSE "refused")
    /\ UNCHANGED <<limits, expired, breaker, paced, slots, budget>>

Refused(t) ==
    /\ At(t, "reserve") /\ ~Admitted(t)
    /\ Released(t)
    /\ Ends(t, IF ~Spent /\ NoSlot(fetch[t].origin) THEN "no_slot" ELSE "refused")
    /\ UNCHANGED <<limits, expired, breaker, paced, budget>>

Reserve(t) ==
    /\ At(t, "reserve") /\ Admitted(t)
    /\ ledger' = [ledger EXCEPT !.origins = @ \cup {fetch[t].origin},
                                !.inFlight[fetch[t].origin] = @ + 1,
                                !.kinds[fetch[t].kind] = @ + 1]
    /\ Goes(t, "sent")
    /\ UNCHANGED <<limits, expired, breaker, paced, slots, bytes>>

(***************************************************************************)
(* The answer.                                                                  *)
(***************************************************************************)

\* The head of a response whose body is wanted.
Head(t) ==
    /\ At(t, "sent")
    /\ Goes(t, "body")
    /\ UNCHANGED <<limits, expired, breaker, paced, slots, budget>>

\* read_bounded_response: the body is charged to the budget when all of it was read and found
\* to be well-formed; the result is returned after the success is recorded.
Body(t, size) ==
    /\ At(t, "body") /\ bytes + size <= limits.bytes
    /\ bytes' = bytes + size
    /\ Finished(t, size)
    /\ fetch' = [fetch EXCEPT ![t].pc = "succeeded", ![t].receipts = @ + 1, ![t].admitted = size]
    /\ UNCHANGED <<limits, expired, breaker, paced, slots>>

BodyTooLarge(t) ==
    /\ At(t, "body") /\ \E size \in Sizes : bytes + size > limits.bytes
    /\ Finished(t, 0) /\ Released(t)
    /\ Receives(t, "done", "failed")
    /\ UNCHANGED <<limits, expired, breaker, paced, bytes>>

\* 304, with nothing in its body: only the first hop of a fetch may carry validators.
NotModified(t) ==
    /\ At(t, "sent") /\ fetch[t].hops = 0
    /\ Finished(t, 0)
    /\ Receives(t, "succeeded", "")
    /\ UNCHANGED <<limits, expired, breaker, paced, slots, bytes>>

\* A redirect that prepare_redirect accepts, or refuses: too many, a loop, another origin.
Redirect(t) ==
    /\ At(t, "sent") /\ fetch[t].hops < limits.redirect
    /\ Finished(t, 0)
    /\ Receives(t, "redirected", "")
    /\ UNCHANGED <<limits, expired, breaker, paced, slots, bytes>>

\* A status, a body or a redirect that is rejected, or the deadline: the circuit is not told.
Rejected(t) ==
    /\ UnderWay(t)
    /\ Finished(t, 0) /\ Released(t)
    /\ Receives(t, "done", "failed")
    /\ UNCHANGED <<limits, expired, breaker, paced, bytes>>

\* A transient status, a failure of the network or a timeout of its own.
Transient(t) ==
    /\ UnderWay(t)
    /\ Finished(t, 0)
    /\ Receives(t, "transient", "")
    /\ UNCHANGED <<limits, expired, breaker, paced, slots, bytes>>

\* _record_success, under the state lock, and the return.
Closed(t) ==
    /\ circuits' = circuits \cup {fetch[t].origin}
    /\ failures' = [failures EXCEPT ![fetch[t].origin] = 0]
    /\ openUntil' = [openUntil EXCEPT ![fetch[t].origin] = "never"]
    /\ early' = [early EXCEPT ![fetch[t].origin] = {}]

Succeed(t) ==
    /\ At(t, "succeeded")
    /\ Closed(t) /\ Released(t)
    /\ Ends(t, "fetched")
    /\ UNCHANGED <<limits, expired, paced, budget>>

\* The next hop starts from the beginning, without the validators.
Follow(t, o) ==
    /\ At(t, "redirected")
    /\ Closed(t) /\ Released(t)
    /\ fetch' = [fetch EXCEPT ![t].pc = "wait", ![t].origin = o, ![t].kind = "redirect",
                              ![t].attempt = 1, ![t].hops = @ + 1]
    /\ UNCHANGED <<limits, expired, paced, budget>>

\* _record_transient_failure, under the state lock, and the release before the sleep.
PastCheck(o) == {t \in Fetches : fetch[t].origin = o /\ fetch[t].pc \notin {"wait", "backoff", "done"}}
Recorded(t) ==
    LET o == fetch[t].origin IN
    /\ circuits' = circuits \cup {o}
    /\ failures' = [failures EXCEPT ![o] = @ + 1]
    /\ IF failures[o] + 1 >= limits.failures
       THEN openUntil' = [openUntil EXCEPT ![o] = "open"] /\ early' = [early EXCEPT ![o] = PastCheck(o)]
       ELSE UNCHANGED <<openUntil, early>>

Record(t) ==
    /\ At(t, "transient")
    /\ Recorded(t) /\ Released(t)
    /\ IF fetch[t].attempt < limits.attempts THEN Goes(t, "backoff") ELSE Ends(t, "failed")
    /\ UNCHANGED <<limits, expired, paced, budget>>

\* Mutant: what was given back before the sleep is given back again when the attempt is left.
Retry_ReleasesAgain(t) ==
    /\ At(t, "backoff")
    /\ originFree' = [originFree EXCEPT ![fetch[t].origin] = @ + 1] /\ globalFree' = globalFree + 1
    /\ fetch' = [fetch EXCEPT ![t].pc = "wait", ![t].kind = "retry", ![t].attempt = @ + 1]
    /\ UNCHANGED <<limits, expired, breaker, paced, budget>>

\* Mutant: a retry keeps its place and does not look at the circuit again.
Retry_SkipsCheck(t) ==
    /\ At(t, "backoff")
    /\ fetch' = [fetch EXCEPT ![t].pc = "origin", ![t].kind = "retry", ![t].attempt = @ + 1]
    /\ UNCHANGED <<limits, expired, breaker, paced, slots, budget>>

\* _sleep_retry: without a slot, and not beyond the deadline or the longest delay.
Retry(t) ==
    /\ At(t, "backoff")
    /\ \/ Ends(t, "refused")
       \/ fetch' = [fetch EXCEPT ![t].pc = "wait", ![t].kind = "retry", ![t].attempt = @ + 1]
    /\ UNCHANGED <<limits, expired, breaker, paced, slots, budget>>

\* Mutant: a cancelled attempt is not given back to the ledger.
Cancel_Forgets(t) ==
    /\ ~At(t, "done")
    /\ Released(t)
    /\ Ends(t, "cancelled")
    /\ UNCHANGED <<limits, expired, breaker, paced, budget>>

\* A cancellation, wherever the fetch awaits: an attempt under way is finished as cancelled.
Cancel(t) ==
    /\ ~At(t, "done")
    /\ Released(t)
    /\ IF UnderWay(t)
       THEN Finished(t, 0) /\ Receives(t, "done", "cancelled")
       ELSE UNCHANGED ledger /\ Ends(t, "cancelled")
    /\ UNCHANGED <<limits, expired, breaker, paced, bytes>>

(***************************************************************************)
(* Time.                                                                        *)
(***************************************************************************)

Expire ==
    /\ ~expired
    /\ expired' = TRUE
    /\ UNCHANGED <<limits, fetch, breaker, paced, slots, budget>>

TurnComes(o) ==
    /\ paced[o]
    /\ paced' = [paced EXCEPT ![o] = FALSE]
    /\ UNCHANGED <<limits, fetch, expired, breaker, slots, budget>>

CoolsDown(o) ==
    /\ openUntil[o] = "open"
    /\ openUntil' = [openUntil EXCEPT ![o] = "over"]
    /\ UNCHANGED <<limits, fetch, expired, circuits, failures, early, paced, slots, budget>>

Before(t) ==
    \/ WaitRefused(t) \/ TakeTurn(t) \/ WaitTurn(t) \/ AcquireOrigin(t) \/ AcquireGlobal(t)
    \/ AcquireTimesOut(t) \/ Refused(t) \/ Reserve(t)

After(t) ==
    \/ Head(t) \/ BodyTooLarge(t) \/ NotModified(t) \/ Redirect(t) \/ Rejected(t) \/ Transient(t)
    \/ Succeed(t) \/ Record(t) \/ Retry(t)
    \/ \E size \in Sizes : Body(t, size)
    \/ \E o \in Origins : Follow(t, o)

Next ==
    \/ \E t \in Fetches : Before(t) \/ After(t) \/ Cancel(t)
    \/ Expire
    \/ \E o \in Origins : TurnComes(o) \/ CoolsDown(o)

\* Every connection, read and close has a timeout, sleeps end and semaphores serve those who
\* wait; nothing obliges the deadline to come or anyone to cancel.
Spec ==
    /\ Init /\ [][Next]_vars
    /\ \A t \in Fetches : WF_vars(Before(t)) /\ WF_vars(After(t))
    /\ \A o \in Origins : WF_vars(TurnComes(o))

(***************************************************************************)
(* Properties.                                                                 *)
(***************************************************************************)

Calls == [pc : Points, origin : Origins, kind : Kinds, attempt : Nat, hops : Nat,
          receipts : Nat, admitted : Nat, outcome : Outcomes]
Ledgers == [consumed : Nat, admitted : Nat, origins : SUBSET Origins,
            inFlight : [Origins -> Nat], kinds : [Kinds -> Nat]]

TypeOK ==
    /\ limits \in Configurations
    /\ fetch \in [Fetches -> Calls]
    /\ \A t \in Fetches :
        /\ fetch[t].attempt \in 1 .. limits.attempts /\ fetch[t].hops <= limits.redirect
        /\ At(t, "done") <=> fetch[t].outcome # ""
    /\ expired \in BOOLEAN /\ circuits \subseteq Origins
    /\ failures \in [Origins -> Nat] /\ openUntil \in [Origins -> {"never", "open", "over"}]
    /\ early \in [Origins -> SUBSET Fetches] /\ paced \in [Origins -> BOOLEAN]
    /\ originFree \in [Origins -> Nat] /\ globalFree \in Nat
    /\ ledger \in Ledgers /\ bytes \in Nat

\* The shared ledger and the receipts of the callers tell the same: each attempt is consumed
\* once, whichever way it ended, what is in flight is what has been sent, the bytes are those
\* of the results, and no limit is passed (RequestBudgetLedger, ByteBudget).
LedgerExact ==
    /\ TypeOK
    /\ ledger.consumed = SumFunction([t \in Fetches |-> fetch[t].receipts])
    /\ bytes = ledger.admitted
    /\ bytes = SumFunction([t \in Fetches |-> fetch[t].admitted])
    /\ \A o \in Origins :
        ledger.inFlight[o] = Cardinality({t \in Fetches : fetch[t].origin = o /\ UnderWay(t)})
    /\ ledger.consumed + InFlight <= limits.requests /\ bytes <= limits.bytes
    /\ Cardinality(ledger.origins) <= limits.origins
    /\ \A k \in Limited : ledger.kinds[k] <= limits[k]

Holders(o) == {t \in Fetches : fetch[t].origin = o /\ HoldsOrigin(t)}
Running == {t \in Fetches : HoldsGlobal(t)}

\* A slot of a semaphore is free or held by a fetch that stands where it holds one.
SlotsKept ==
    /\ \A o \in Origins : originFree[o] + Cardinality(Holders(o)) = limits.perOrigin
    /\ globalFree + Cardinality(Running) = limits.concurrency

\* Whichever way an attempt ends, its slots are given back once: none is lost, and a fetch that
\* has both its slots is never turned away for want of one by the ledger, which counts the same
\* limits (_acquire_concurrency, _release_concurrency, reserve).
SlotsSuffice == SlotsKept /\ \A t \in Fetches : fetch[t].outcome # "no_slot"

\* While the circuit of an origin is open, only those requests are under way there that had
\* passed the check before it opened: neither a retry nor a redirect gets around it, however
\* long the others waited for their slots (_wait_for_origin).
OpenAdmitsNobody ==
    \A o \in Origins : openUntil[o] = "open" => PastCheck(o) \subseteq early[o]

\* Every fetch ends, even if the deadline is far away: no slot is lost by a failure, a redirect
\* or a cancellation, and the retries and redirects are finite.
FetchEnds == \A t \in Fetches : <>At(t, "done")
=============================================================================
