----------------------------- MODULE HttpOperation -----------------------------
(***************************************************************************)
(* One HTTP operation and its budgets (HttpOperationBudget, the retrying   *)
(* request and the bounded response reader of src/src/openopps/http.py).   *)
(*                                                                         *)
(* The reads of the operation run in tasks of one event loop and share a   *)
(* number of requests, a number of decoded bytes and a deadline.  A read   *)
(* is charged before its cache lookup; every further request it makes, for *)
(* a redirect or a retry, is charged again, and what an attempt admitted   *)
(* of a body that breaks off stays charged.  The operation closes when its *)
(* scope is left, when the deadline passes or when a limit is exceeded;    *)
(* closing cancels the tasks that are registered with it.                  *)
(*                                                                         *)
(* An action is what a task does from one await to the next.  The network  *)
(* answers whenever and however it likes, or not at all.                   *)
(***************************************************************************)
EXTENDS Naturals, FiniteSets

CONSTANTS
    Task,           \* the tasks, each with one logical read
    MaxRequests,    \* maximum_requests
    MaxBytes,       \* maximum_response_bytes
    Sizes,          \* decoded sizes of a chunk or a cached body
    Attempts,       \* settings.retry_attempts
    Redirects,      \* redirects followed in one attempt
    HasDeadline     \* is there an absolute deadline?

ASSUME OperationAssumption ==
    /\ IsFiniteSet(Task)
    /\ MaxRequests \in Nat \ {0} /\ MaxBytes \in Nat \ {0}
    /\ Sizes \subseteq Nat
    /\ Attempts \in Nat \ {0} /\ Redirects \in Nat
    /\ HasDeadline \in BOOLEAN

VARIABLES
    reason,         \* "open", or why the operation was closed
    late,           \* has the deadline passed?
    armed,          \* is the deadline timer set?
    used,           \* requests_used
    bytes,          \* response_byte_budget.used_bytes
    sent,           \* requests that went out
    at,             \* where each task stands
    refs,           \* _active_tasks
    cancel,         \* the tasks with a cancellation to deliver
    expired,        \* the tasks whose cache lookup found an expired entry
    tries,          \* attempts each read has begun
    hops,           \* redirects its attempt has followed
    outcome,        \* how the read ended
    cut,            \* history: the reads whose body lacks a part of what came
    stored          \* the reads that wrote the cache

operationVars == <<reason, late, armed, used, bytes, sent, at, refs, cancel, expired,
                   tries, hops, outcome, cut, stored>>

Closures == {"closed", "expired", "requests", "bytes"}

OperationTypeOK ==
    /\ reason \in Closures \cup {"open"}
    /\ late \in BOOLEAN /\ (late => HasDeadline)
    /\ armed \in BOOLEAN /\ (armed => HasDeadline)
    /\ used \in Nat
    /\ bytes \in Nat
    /\ sent \in Nat
    /\ at \in [Task -> {"idle", "resolving", "sending", "backoff", "reading", "failing",
                        "closing", "done"}]
    /\ refs \in [Task -> 0 .. 2]
    /\ cancel \subseteq Task
    /\ expired \subseteq Task
    /\ tries \in [Task -> 0 .. Attempts]
    /\ hops \in [Task -> 0 .. Redirects]
    /\ outcome \in [Task -> Closures \cup {"none", "ok", "error", "cancelled"}]
    /\ cut \subseteq Task
    /\ stored \subseteq Task

\* A budget made outside the event loop arms its timer at the first request.
OperationInit ==
    /\ reason = "open"
    /\ late = FALSE
    /\ armed \in {FALSE, HasDeadline}
    /\ used = 0 /\ bytes = 0 /\ sent = 0
    /\ at = [t \in Task |-> "idle"]
    /\ refs = [t \in Task |-> 0]
    /\ cancel = {}
    /\ expired = {}
    /\ tries = [t \in Task |-> 0]
    /\ hops = [t \in Task |-> 0]
    /\ outcome = [t \in Task |-> "none"]
    /\ cut = {}
    /\ stored = {}

-----------------------------------------------------------------------------
(* The operation.                                                          *)

Unregistered(n) == n - 1

\* Mutant: closing leaves the tasks alone.
Cancelled_None(self) == cancel

\* The tasks cancelled when self closes the operation.
Cancelled(self) == cancel \cup {u \in Task \ self : refs[u] > 0}

\* Mutant: a limit is not kept as the reason.
Reason_NoLatch(why) == IF why = "expired" THEN "expired" ELSE "closed"

\* What later errors of the operation say.
Reason(why) == why

\* _mark_closed, the first time.
CloseFor(why, self) ==
    /\ reason' = Reason(why)
    /\ cancel' = Cancelled(self)

\* What ensure_open asks.
StillOpen == reason = "open" /\ ~late

\* Mutant: the timer is set only when the budget is made.
Armed_Before == armed

\* A request sets the timer if nothing has.
Armed == armed \/ (StillOpen /\ HasDeadline)

\* The read of t ends and t leaves the operation.
Ends(t, how) ==
    /\ at' = [at EXCEPT ![t] = "done"]
    /\ outcome' = [outcome EXCEPT ![t] = how]
    /\ refs' = [refs EXCEPT ![t] = 0]

\* The read ends with an error that also closes the operation.
Breaks(t, why) == CloseFor(why, {t}) /\ Ends(t, why)

\* A task that finds the operation closed, or its deadline passed.
Refused(t) ==
    /\ ~StillOpen
    /\ IF reason = "open" THEN Breaks(t, "expired")
       ELSE Ends(t, reason) /\ UNCHANGED <<reason, cancel>>

Keeps == UNCHANGED <<reason, cancel>>

\* Mutant: requests after the first one of a read are free.
Charge_First(n) == n

Charge(n) == n + 1

\* Mutant: the budget is looked at before the bytes are added.
Fits_Before(n) == bytes < MaxBytes

Fits(n) == bytes + n <= MaxBytes

\* Mutant: what comes is cut at what is left of the budget.
Decoded_AtLimit(n) == IF n > MaxBytes - bytes THEN MaxBytes - bytes ELSE n

\* What is decoded of n bytes that come: one byte too many shows that they do not fit.
Decoded(n) == IF n > MaxBytes - bytes THEN MaxBytes - bytes + 1 ELSE n

-----------------------------------------------------------------------------
(* A read.                                                                 *)

At(t, where) == at[t] = where /\ t \notin cancel

Goes(t, where, n) ==
    /\ at' = [at EXCEPT ![t] = where]
    /\ refs' = [refs EXCEPT ![t] = n]
    /\ UNCHANGED outcome

\* An entry of the cache is admitted and ends the read; or it exceeds the budget or
\* the limits of a response; or it holds nothing that the caller can read.
Delivers(t) ==
    \/ \E n \in Sizes : Fits(n) /\ bytes' = bytes + n /\ Ends(t, "ok") /\ Keeps
    \/ Breaks(t, "bytes") /\ UNCHANGED bytes
    \/ Ends(t, "error") /\ Keeps /\ UNCHANGED bytes

\* The read ends with an error of its own, unless the deadline has passed.
Fails(t) == Refused(t) \/ (StillOpen /\ Ends(t, "error") /\ Keeps)

\* The read is registered and charged; a cached body ends it, or its first
\* request is to be sent: its charge is the one of the read.
Begin(t) ==
    /\ At(t, "idle")
    /\ armed' = Armed
    /\ \/ /\ Refused(t)
          /\ UNCHANGED <<used, bytes, expired, tries>>
       \/ /\ StillOpen /\ used = MaxRequests
          /\ Breaks(t, "requests")
          /\ UNCHANGED <<used, bytes, expired, tries>>
       \/ /\ StillOpen /\ used < MaxRequests
          /\ used' = used + 1
          /\ \/ Delivers(t) /\ UNCHANGED <<expired, tries>>
             \/ /\ Goes(t, "resolving", 2)
                /\ expired' \in {expired, expired \cup {t}}
                /\ tries' = [tries EXCEPT ![t] = 1]
                /\ UNCHANGED <<bytes, reason, cancel>>
    /\ UNCHANGED <<late, sent, hops, cut, stored>>

\* The address is resolved and the request goes out, or it is rejected.
Send(t) ==
    /\ At(t, "resolving")
    /\ \/ sent' = sent + 1 /\ Goes(t, "sending", refs[t]) /\ Keeps
       \/ Fails(t) /\ UNCHANGED sent
    /\ UNCHANGED <<late, armed, used, bytes, expired, tries, hops, cut, stored>>

\* A further request of the read, after ensure_open: charged, or one too many.
Again(t) ==
    \/ /\ used < MaxRequests
       /\ used' = Charge(used)
       /\ Goes(t, "resolving", 2)
       /\ Keeps
    \/ /\ used = MaxRequests
       /\ Breaks(t, "requests")
       /\ UNCHANGED used

\* A redirect is followed, inside the nested request.
Redirected(t) ==
    /\ At(t, "sending") /\ hops[t] < Redirects
    /\ hops' = [hops EXCEPT ![t] = hops[t] + 1]
    /\ \/ Refused(t) /\ UNCHANGED used
       \/ StillOpen /\ Again(t)
    /\ UNCHANGED <<late, armed, bytes, sent, expired, tries, cut, stored>>

\* 200: the body is read chunk by chunk.
Answered(t) ==
    /\ At(t, "sending")
    /\ \/ Refused(t)
       \/ StillOpen /\ Goes(t, "reading", Unregistered(refs[t])) /\ Keeps
    /\ UNCHANGED <<late, armed, used, bytes, sent, expired, tries, hops, cut, stored>>

\* 304: the expired entry is renewed and its body delivered.
NotModified(t) ==
    /\ At(t, "sending") /\ t \in expired
    /\ \/ Refused(t) /\ UNCHANGED <<bytes, stored>>
       \/ StillOpen /\ stored' = stored \cup {t} /\ Delivers(t)
    /\ UNCHANGED <<late, armed, used, sent, expired, tries, hops, cut>>

\* 429, 5xx, no connection, a timeout, or a body that breaks off (what was admitted of
\* it stays charged): another attempt, or, after the last one, an old entry that is
\* there by now or the error.
Retryable(t) ==
    /\ At(t, "sending") \/ At(t, "reading")
    /\ \/ Refused(t) /\ UNCHANGED bytes
       \/ /\ tries[t] < Attempts
          /\ Goes(t, "backoff", 1) /\ Keeps
          /\ UNCHANGED bytes
       \/ StillOpen /\ tries[t] = Attempts /\ Delivers(t)
    /\ UNCHANGED <<late, armed, used, sent, expired, tries, hops, cut, stored>>

\* Any other status, too many redirects, a body that cannot be decoded.
Broken(t) ==
    /\ At(t, "sending") \/ At(t, "reading")
    /\ Fails(t)
    /\ UNCHANGED <<late, armed, used, bytes, sent, expired, tries, hops, cut, stored>>

\* The next attempt begins when its delay is over.
Retry(t) ==
    /\ At(t, "backoff")
    /\ tries' = [tries EXCEPT ![t] = tries[t] + 1]
    /\ hops' = [hops EXCEPT ![t] = 0]
    /\ cut' = cut \ {t}
    /\ \/ Refused(t) /\ UNCHANGED used
       \/ StillOpen /\ Again(t)
    /\ UNCHANGED <<late, armed, bytes, sent, expired, stored>>

\* A chunk is admitted; over a limit the response is closed first, which awaits.
Chunk(t) ==
    /\ At(t, "reading")
    /\ \/ Refused(t) /\ UNCHANGED <<bytes, cut>>
       \/ /\ StillOpen
          /\ \E n \in Sizes :
                /\ Fits(Decoded(n))
                /\ bytes' = bytes + Decoded(n)
                /\ cut' = IF Decoded(n) = n THEN cut ELSE cut \cup {t}
          /\ Goes(t, "reading", refs[t]) /\ Keeps
       \/ StillOpen /\ Goes(t, "failing", refs[t]) /\ Keeps /\ UNCHANGED <<bytes, cut>>
    /\ UNCHANGED <<late, armed, used, sent, expired, tries, hops, stored>>

\* The body is complete.
Completed(t) ==
    /\ At(t, "reading")
    /\ \/ Refused(t)
       \/ StillOpen /\ Goes(t, "closing", refs[t]) /\ Keeps
    /\ UNCHANGED <<late, armed, used, bytes, sent, expired, tries, hops, cut, stored>>

\* The response is closed: the limit that was exceeded closes the operation,
\* unless the deadline comes first, and a complete body is stored and delivered
\* or cannot be parsed.
Close(t) ==
    /\ \/ At(t, "failing") /\ (Refused(t) \/ (StillOpen /\ Breaks(t, "bytes"))) /\ UNCHANGED stored
       \/ At(t, "closing") /\ Fails(t) /\ UNCHANGED stored
       \/ At(t, "closing") /\ StillOpen /\ stored' = stored \cup {t} /\ Ends(t, "ok") /\ Keeps
    /\ UNCHANGED <<late, armed, used, bytes, sent, expired, tries, hops, cut>>

\* A cancellation is delivered at the await where the task stands, and turned
\* into the error of the operation if that is closed.
Deliver(t) ==
    /\ t \in cancel /\ refs[t] > 0
    /\ Ends(t, IF reason = "open" THEN "cancelled" ELSE reason)
    /\ UNCHANGED <<reason, cancel>>
    /\ UNCHANGED <<late, armed, used, bytes, sent, expired, tries, hops, cut, stored>>

-----------------------------------------------------------------------------
(* Around the reads.                                                       *)

\* Somebody else cancels a task: its group fails, or the operator interrupts.
CancelTask(t) ==
    /\ refs[t] > 0 /\ t \notin cancel
    /\ cancel' = cancel \cup {t}
    /\ UNCHANGED <<reason, late, armed, used, bytes, sent, at, refs, expired, tries, hops,
                   outcome, cut, stored>>

\* The deadline passes, and a little later the timer of the loop fires.
Deadline ==
    /\ HasDeadline /\ ~late
    /\ late' = TRUE
    /\ UNCHANGED <<reason, armed, used, bytes, sent, at, refs, cancel, expired, tries, hops,
                   outcome, cut, stored>>

Expire ==
    /\ armed /\ late /\ reason = "open"
    /\ CloseFor("expired", {})
    /\ UNCHANGED <<late, armed, used, bytes, sent, at, refs, expired, tries, hops, outcome, cut, stored>>

\* The scope of the operation is left, whatever its reads are doing.
Leave ==
    /\ reason = "open"
    /\ CloseFor("closed", {})
    /\ UNCHANGED <<late, armed, used, bytes, sent, at, refs, expired, tries, hops, outcome, cut, stored>>

Read(t) ==
    \/ Begin(t) \/ Send(t) \/ Redirected(t) \/ Answered(t) \/ NotModified(t) \/ Retryable(t)
    \/ Broken(t) \/ Retry(t) \/ Chunk(t) \/ Completed(t) \/ Close(t)

OperationNext ==
    \/ \E t \in Task : Read(t) \/ Deliver(t) \/ CancelTask(t)
    \/ Deadline \/ Expire \/ Leave

OperationSpec == OperationInit /\ [][OperationNext]_operationVars

\* The event loop delivers cancellations and fires its timer.  Nothing is assumed
\* of the network: a read may wait for ever.
OperationFairSpec ==
    /\ OperationSpec
    /\ WF_operationVars(Expire)
    /\ \A t \in Task : WF_operationVars(Deliver(t))

-----------------------------------------------------------------------------
(* Properties.                                                             *)

\* Every request that goes out has been charged before, also each redirect and
\* retry, whichever tasks make them: no more than maximum_requests ever go out.
Resolving == {t \in Task : at[t] = "resolving"}
SentIsCharged == sent + Cardinality(Resolving) <= used /\ used <= MaxRequests

\* The bodies that the reads have delivered or buffered never exceed the budget.
BytesWithin == bytes <= MaxBytes

\* A body is delivered as a whole: a chunk that did not fit is not cut until it does.
DeliveredWhole == \A t \in Task : outcome[t] = "ok" => t \notin cut

\* No limit of the operation is ever passed, and none is kept by giving less
\* (HttpOperationBudget, ResponseByteBudget, _read_bounded_response).
WithinLimits == OperationTypeOK /\ SentIsCharged /\ BytesWithin /\ DeliveredWhole

\* A closed operation does nothing more: no request goes out, no byte is
\* admitted, nothing is written to the cache and no read succeeds.
Silent ==
    reason # "open" =>
        /\ reason' = reason
        /\ UNCHANGED <<used, bytes, sent, stored>>
        /\ \A t \in Task : outcome'[t] = "ok" => outcome[t] = "ok"
SilentOnceClosed == [][Silent]_operationVars

\* A read that fails because of the operation says why the operation closed,
\* although another read may have closed it while this one was waiting.
OutcomeSaysWhy == \A t \in Task : outcome[t] \in Closures => outcome[t] = reason

\* A closed operation has cancelled every task that was working for it.
ClosedIsCancelled ==
    reason # "open" => \A t \in Task : refs[t] > 0 => t \in cancel

\* Every task leaves a closed operation, even when its network never answers,
\* and one that has registered a read is closed by its deadline.
OperationEnds ==
    /\ reason # "open" ~> \A t \in Task : at[t] \in {"idle", "done"}
    /\ late /\ (\E t \in Task : refs[t] > 0) ~> reason # "open" \/ \A t \in Task : refs[t] = 0
=============================================================================
