--------------------------- MODULE OutboxDelivery ---------------------------
(***************************************************************************)
(* Delivery of the shared outbox (backend/app/modules/outbox/delivery.py)  *)
(* by concurrent Celery workers over one PostgreSQL database.              *)
(*                                                                         *)
(* One event row and its delivery-attempt rows ("custody") are shared; a   *)
(* worker runs deliver(event): recover an expired claim, else claim, mark  *)
(* the invocation, run the handler without locks and finalize.  Every      *)
(* locked transaction is two steps, "checks passed and writes staged" and  *)
(* "committed", because row locks freeze the rows and not the clock.       *)
(***************************************************************************)
EXTENDS Integers, FiniteSets

CONSTANTS
    Events,               \* outbox events; an event stands for its type too
    Workers,              \* concurrent deliver_event executions
    Registered,           \* events whose (type, version) has a handler
    ReplaySafe,           \* registry.can_retry_unknown
    UnknownRetryAdmitted, \* types the projection trigger lets retry unknowns
    NotBefore,            \* not_before_at of each event
    MaxAttempts, Lease, HandlerTimeout, RetryBase, RetryCap,  \* DeliveryOptions
    NoWorker,             \* claim_owner IS NULL
    MaxFaults             \* bound: crashes, lost messages, failed transactions

ASSUME OptionsAssumption ==
    /\ MaxAttempts \in Nat \ {0} /\ Lease \in Nat \ {0}
    /\ HandlerTimeout \in 1..(Lease - 1)
    /\ RetryBase \in Nat \ {0} /\ RetryCap \in Nat /\ RetryBase <= RetryCap

ASSUME EventsAssumption ==
    /\ Registered \subseteq Events /\ ReplaySafe \subseteq Registered
    /\ UnknownRetryAdmitted \subseteq Events
    /\ NotBefore \in [Events -> Nat]
    /\ MaxFaults \in Nat
    /\ NoWorker \notin Workers

VARIABLES
    now,      \* database clock_timestamp()
    event,    \* outbox_events
    attempt,  \* outbox_delivery_attempts, one row per claim generation
    work,     \* program state of each worker
    queue,    \* deliver_event messages waiting at the broker
    handler,  \* the handler call of each generation
    effects,  \* generations whose feature transaction committed
    verdict,  \* what the handler call of each generation returned (history)
    calls,    \* handler calls started for each generation (history)
    faults

vars == <<now, event, attempt, work, queue, handler, effects, verdict, calls, faults>>
database == <<event, attempt>>
handlers == <<handler, effects, verdict, calls>>

NoTime == -1
Time == Nat \cup {NoTime}
Gens == 1..MaxAttempts
Claims == [gen : Gens \cup {0}, owner : Workers \cup {NoWorker}, claimedAt : Time, expiresAt : Time]
NoClaim == [gen |-> 0, owner |-> NoWorker, claimedAt |-> NoTime, expiresAt |-> NoTime]

Terminal == {"acknowledged", "dead_letter"}
Claimable == {"pending", "retryable"}
DeliveryStates == {"absent", "claimed"} \cup Claimable \cup Terminal
ErrorCodes == {"none", "HANDLER_REJECTED", "INVOKE_OUTCOME_UNKNOWN", "ATTEMPTS_EXHAUSTED",
               "RETRY_REQUESTED", "LEASE_EXPIRED_BEFORE_INVOKE"}
HandlerOutcomes == {"acknowledge", "retry", "reject"}
FinalizationCauses == HandlerOutcomes \cup {"expired", "unknown"}

\* The seven fields of outcome_json.
Outcomes == [state : DeliveryStates, error : ErrorCodes, next : Time, finalizedAt : Time,
             completedAt : Time, unknown : BOOLEAN, invokedAt : Time]
NoOutcome == [state |-> "absent", error |-> "none", next |-> NoTime, finalizedAt |-> NoTime,
              completedAt |-> NoTime, unknown |-> FALSE, invokedAt |-> NoTime]

EventRows == [state : DeliveryStates, gen : Gens \cup {0}, claim : Claims,
              next : Time, error : ErrorCodes, finalizedAt : Time]
AttemptRows == [stage : {"none", "claimed", "invoked", "completed"}, claim : Claims,
                invokedAt : Time, outcome : Outcomes]

\* Where a worker stands in deliver(); the *_commit places hold the row locks.
LockedPlaces == {"claim_commit", "begin_commit", "finalize_commit"}
Places == {"idle", "recover", "claim_read", "claim_lock", "begin_lock", "call", "invoke",
           "finalize_read", "finalize_lock"} \cup LockedPlaces
Works == [at : Places, event : Events, claim : Claims,
          cause : FinalizationCauses, receipt : Outcomes, deadline : Time]

TypeOK ==
    /\ now \in Nat
    /\ event \in [Events -> EventRows]
    /\ attempt \in [Events -> [Gens -> AttemptRows]]
    /\ work \in [Workers -> Works]
    /\ queue \in SUBSET Events
    /\ handler \in [Events -> [Gens -> {"none", "running", "fenced", "ended"}]]
    /\ effects \in [Events -> SUBSET Gens]
    /\ verdict \in [Events -> [Gens -> HandlerOutcomes \cup {"none"}]]
    /\ calls \in [Events -> [Gens -> Nat]]
    /\ faults \in 0..MaxFaults

Max2(a, b) == IF a >= b THEN a ELSE b

-----------------------------------------------------------------------------
(* Outcomes *)

\* min(retry_cap, retry_base * 2 ** min(generation - 1, 30)).
Backoff(g) ==
    LET d == RetryBase * 2^(IF g - 1 <= 30 THEN g - 1 ELSE 30)
    IN  IF d \in 1..RetryCap THEN d ELSE RetryCap

Expired(c, t) == t >= c.expiresAt

\* The causes _outcome accepts; it raises DeliveryUnavailable for the others.
OutcomeDefined(c, invokedAt, cause, t) ==
    /\ invokedAt = NoTime => cause = "expired"
    /\ cause = "expired" => Expired(c, t)

\* Mutant: an expired lease does not make an invoked call unknown.
UnknownIgnoringLease(c, invokedAt, cause, t) == invokedAt # NoTime /\ cause = "unknown"

Unknown(c, invokedAt, cause, t) ==
    invokedAt # NoTime /\ (Expired(c, t) \/ cause = "unknown")

OutcomeOf(state, code, c, invokedAt, t, unknown) ==
    [state |-> state, error |-> code,
     next |-> IF state = "retryable" THEN t + Backoff(c.gen) ELSE NoTime,
     finalizedAt |-> IF state = "retryable" THEN NoTime ELSE t,
     completedAt |-> t, unknown |-> unknown, invokedAt |-> invokedAt]

\* Mutant: the attempt budget is off by one.
OutcomeOverBudget(e, c, invokedAt, cause, t) ==
    IF ~Unknown(c, invokedAt, cause, t) /\ cause = "acknowledge"
    THEN OutcomeOf("acknowledged", "none", c, invokedAt, t, FALSE)
    ELSE IF ~Unknown(c, invokedAt, cause, t) /\ cause \in {"retry", "expired"} /\ c.gen <= MaxAttempts
         THEN OutcomeOf("retryable", "RETRY_REQUESTED", c, invokedAt, t, FALSE)
         ELSE OutcomeOf("dead_letter", "INVOKE_OUTCOME_UNKNOWN", c, invokedAt, t, TRUE)

Outcome(e, c, invokedAt, cause, t) ==
    LET retry == c.gen < MaxAttempts
    IN  CASE Unknown(c, invokedAt, cause, t) ->
                OutcomeOf(IF e \in ReplaySafe /\ retry THEN "retryable" ELSE "dead_letter",
                          "INVOKE_OUTCOME_UNKNOWN", c, invokedAt, t, TRUE)
          [] ~Unknown(c, invokedAt, cause, t) /\ cause = "acknowledge" ->
                OutcomeOf("acknowledged", "none", c, invokedAt, t, FALSE)
          [] ~Unknown(c, invokedAt, cause, t) /\ cause \in {"retry", "expired"} ->
                IF retry
                THEN OutcomeOf("retryable",
                               IF invokedAt = NoTime THEN "LEASE_EXPIRED_BEFORE_INVOKE"
                                                     ELSE "RETRY_REQUESTED",
                               c, invokedAt, t, FALSE)
                ELSE OutcomeOf("dead_letter", "ATTEMPTS_EXHAUSTED", c, invokedAt, t, FALSE)
          [] OTHER -> OutcomeOf("dead_letter", "HANDLER_REJECTED", c, invokedAt, t, FALSE)

-----------------------------------------------------------------------------
(* Row locks, workers and the broker *)

\* Mutant: the fence reads the rows without FOR UPDATE.
LockedByWorkers(e) == \E w \in Workers : work[w].event = e /\ work[w].at \in LockedPlaces

\* Some open transaction holds the event row FOR UPDATE.
Locked(e) ==
    \/ \E w \in Workers : work[w].event = e /\ work[w].at \in LockedPlaces
    \/ \E g \in Gens : handler[e][g] = "fenced"

\* matches_event: the event row still carries exactly this claim.
Matches(e, c) == event[e].state = "claimed" /\ event[e].gen = c.gen /\ event[e].claim = c

\* The attempt row of the claim, when the claim equals it (claim_from_attempt).
HasAttempt(e, c) == c.gen \in Gens /\ attempt[e][c.gen].stage # "none" /\ attempt[e][c.gen].claim = c

Goto(w, place) == work' = [work EXCEPT ![w] = [@ EXCEPT !.at = place]]

IdleWork(e) == [at |-> "idle", event |-> e, claim |-> NoClaim, cause |-> "unknown",
                receipt |-> NoOutcome, deadline |-> NoTime]

\* deliver() returned: Celery acknowledges the message.
Done(w) == work' = [work EXCEPT ![w] = IdleWork(work[w].event)]

\* deliver() raised: the task retries until its three retries are used up.
Raise(w) ==
    /\ Done(w)
    /\ queue' \in {queue, queue \cup {work[w].event}}

-----------------------------------------------------------------------------
Init ==
    /\ now = 0
    /\ event = [e \in Events |-> [state |-> "absent", gen |-> 0, claim |-> NoClaim, next |-> NoTime,
                                  error |-> "none", finalizedAt |-> NoTime]]
    /\ attempt = [e \in Events |-> [g \in Gens |->
                    [stage |-> "none", claim |-> NoClaim, invokedAt |-> NoTime, outcome |-> NoOutcome]]]
    /\ work \in [Workers -> {IdleWork(e) : e \in Events}]
    /\ queue = {}
    /\ handler = [e \in Events |-> [g \in Gens |-> "none"]]
    /\ effects = [e \in Events |-> {}]
    /\ verdict = [e \in Events |-> [g \in Gens |-> "none"]]
    /\ calls = [e \in Events |-> [g \in Gens |-> 0]]
    /\ faults = 0

\* OutboxService.append in a producer's transaction; the insert trigger starts
\* the row pending, eligible no sooner than not_before_at.  Appending the same
\* idempotency key again replays the row and changes nothing.
Append(e) ==
    /\ event[e].state = "absent"
    /\ event' = [event EXCEPT ![e] = [@ EXCEPT !.state = "pending", !.next = Max2(now, NotBefore[e])]]
    /\ UNCHANGED <<now, attempt, work, queue, handlers, faults>>

\* Mutant: the scan forgets expired claims.
CandidateDue(e) == event[e].state \in Claimable /\ event[e].next <= now /\ e \in Registered

\* The periodic scan: due registered work, and every expired claim.
Candidate(e) ==
    \/ event[e].state \in Claimable /\ event[e].next <= now /\ e \in Registered
    \/ event[e].state = "claimed" /\ event[e].claim.expiresAt <= now

ScanPending(e) ==
    /\ Candidate(e)
    /\ queue' = queue \cup {e}
    /\ UNCHANGED <<now, database, work, handlers, faults>>

\* deliver_event starts for a queued message.
Deliver(w, e) ==
    /\ work[w].at = "idle" /\ e \in queue
    /\ queue' = queue \ {e}
    /\ work' = [work EXCEPT ![w] = [IdleWork(e) EXCEPT !.at = "recover"]]
    /\ UNCHANGED <<now, database, handlers, faults>>

\* recover(): an unlocked read; expired custody is finalized, else claim() runs.
Recover(w) ==
    LET e == work[w].event IN
    /\ work[w].at = "recover"
    /\ IF event[e].state = "claimed" /\ event[e].claim.expiresAt <= now
       THEN work' = [work EXCEPT ![w] = [@ EXCEPT !.at = "finalize_read", !.claim = event[e].claim,
                                                    !.cause = "expired"]]
       ELSE Goto(w, "claim_read")
    /\ UNCHANGED <<now, database, queue, handlers, faults>>

\* claim(), first transaction: an unlocked read builds the proposed claim.
ClaimRead(w) ==
    LET e == work[w].event IN
    /\ work[w].at = "claim_read"
    /\ IF /\ e \in Registered
          /\ event[e].state \in Claimable /\ event[e].next <= now
          /\ event[e].gen < MaxAttempts
       THEN work' = [work EXCEPT ![w] = [@ EXCEPT !.at = "claim_lock",
                !.claim = [gen |-> event[e].gen + 1, owner |-> w,
                           claimedAt |-> now, expiresAt |-> now + Lease]]]
       ELSE Done(w)
    /\ UNCHANGED <<now, database, queue, handlers, faults>>

\* Mutant: the generation read before the lock is not compared again.
ClaimAdmittedStale(e, c) == event[e].state \in Claimable /\ event[e].next <= now /\ now < c.expiresAt

\* claim(), second transaction: the locked row must still admit the claim.
ClaimAdmitted(e, c) ==
    /\ event[e].state \in Claimable /\ event[e].next <= now
    /\ event[e].gen + 1 = c.gen
    /\ now < c.expiresAt

ClaimLock(w) ==
    LET e == work[w].event IN
    /\ work[w].at = "claim_lock" /\ ~Locked(e)
    /\ IF ClaimAdmitted(e, work[w].claim) THEN Goto(w, "claim_commit") ELSE Done(w)
    /\ UNCHANGED <<now, database, queue, handlers, faults>>

ClaimCommit(w) ==
    LET e == work[w].event
        c == work[w].claim IN
    /\ work[w].at = "claim_commit"
    /\ event' = [event EXCEPT ![e] = [@ EXCEPT !.state = "claimed", !.gen = c.gen, !.claim = c,
                                                  !.next = NoTime]]
    /\ attempt' = [attempt EXCEPT ![e][c.gen] = [@ EXCEPT !.stage = "claimed", !.claim = c]]
    /\ Goto(w, "begin_lock")
    /\ UNCHANGED <<now, queue, handlers, faults>>

\* _begin_invocation: the locked row and custody must be exactly this claim.
BeginAdmitted(e, c) ==
    /\ Matches(e, c) /\ HasAttempt(e, c)
    /\ attempt[e][c.gen].stage = "claimed"
    /\ now < c.expiresAt
    /\ e \in Registered

BeginLock(w) ==
    LET e == work[w].event IN
    /\ work[w].at = "begin_lock" /\ ~Locked(e)
    /\ IF BeginAdmitted(e, work[w].claim)
       THEN work' = [work EXCEPT ![w] = [@ EXCEPT !.at = "begin_commit", !.receipt = [work[w].receipt EXCEPT !.invokedAt = now]]]
       ELSE Done(w)
    /\ UNCHANGED <<now, database, queue, handlers, faults>>

\* The lease ran out while authority was consumed: the claim or invocation
\* transaction rolls back and deliver() raises.
LeaseLapsed(w) ==
    /\ work[w].at \in {"claim_lock", "begin_lock"} /\ ~Locked(work[w].event)
    /\ Expired(work[w].claim, now)
    /\ Raise(w)
    /\ UNCHANGED <<now, database, handlers, faults>>

BeginCommit(w) ==
    LET e == work[w].event
        g == work[w].claim.gen IN
    /\ work[w].at = "begin_commit"
    /\ attempt' = [attempt EXCEPT ![e][g] = [@ EXCEPT !.stage = "invoked",
                                                         !.invokedAt = work[w].receipt.invokedAt]]
    /\ Goto(w, "call")
    /\ UNCHANGED <<now, event, queue, handlers, faults>>
-----------------------------------------------------------------------------
(* The handler call: it runs without locks and fences its own transaction *)

CallHandler(w) ==
    LET e == work[w].event
        g == work[w].claim.gen IN
    /\ work[w].at = "call"
    /\ handler' = [handler EXCEPT ![e][g] = "running"]
    /\ calls' = [calls EXCEPT ![e][g] = @ + 1]
    /\ work' = [work EXCEPT ![w] = [@ EXCEPT !.at = "invoke", !.deadline = now + HandlerTimeout]]
    /\ UNCHANGED <<now, database, queue, effects, verdict, faults>>

\* Mutant: the effect transaction locks the rows and does not observe custody.
FenceUnobserved(e, g) ==
    /\ handler[e][g] = "running" /\ g \notin effects[e]
    /\ ~Locked(e)
    /\ handler' = [handler EXCEPT ![e][g] = "fenced"]
    /\ UNCHANGED <<now, database, work, queue, effects, verdict, calls, faults>>

\* fence_invocation: lock event and attempt, then observe live custody.
Fence(e, g) ==
    /\ handler[e][g] = "running" /\ g \notin effects[e]
    /\ ~Locked(e)
    /\ event[e].state = "claimed" /\ event[e].gen = g
    /\ attempt[e][g].stage = "invoked" /\ event[e].claim = attempt[e][g].claim
    /\ now < event[e].claim.expiresAt
    /\ handler' = [handler EXCEPT ![e][g] = "fenced"]
    /\ UNCHANGED <<now, database, work, queue, effects, verdict, calls, faults>>

EffectCommit(e, g) ==
    /\ handler[e][g] = "fenced"
    /\ handler' = [handler EXCEPT ![e][g] = "running"]
    /\ effects' = [effects EXCEPT ![e] = @ \cup {g}]
    /\ UNCHANGED <<now, database, work, queue, verdict, calls, faults>>

\* The call ends without a result: an exception, a cancellation or a killed
\* process; an open effect transaction rolls back.
HandlerFails(e, g) ==
    /\ handler[e][g] \in {"running", "fenced"}
    /\ handler' = [handler EXCEPT ![e][g] = "ended"]
    /\ UNCHANGED <<now, database, work, queue, effects, verdict, calls, faults>>

\* invoke(): the call ends in time.  "Only RETRY asserts that repeating the
\* feature operation is safe", so it is not returned after a commit.
HandlerReturns(w, v) ==
    LET e == work[w].event
        g == work[w].claim.gen IN
    /\ work[w].at = "invoke" /\ handler[e][g] = "running" /\ now < work[w].deadline
    /\ v = "retry" => g \notin effects[e]
    /\ handler' = [handler EXCEPT ![e][g] = "ended"]
    /\ verdict' = [verdict EXCEPT ![e][g] = v]
    /\ work' = [work EXCEPT ![w] = [@ EXCEPT !.at = "finalize_read", !.cause = v]]
    /\ UNCHANGED <<now, database, queue, effects, calls, faults>>

\* Mutant: a call without a result counts as acknowledged.
InvokeAcknowledged(w) ==
    LET e == work[w].event
        g == work[w].claim.gen IN
    /\ work[w].at = "invoke" /\ (now >= work[w].deadline \/ handler[e][g] = "ended")
    /\ work' = [work EXCEPT ![w] = [@ EXCEPT !.at = "finalize_read", !.cause = "acknowledge"]]
    /\ UNCHANGED <<now, database, queue, handlers, faults>>

\* invoke(): the timeout passed or the call failed; a timed-out call may still run.
InvokeUnknown(w) ==
    LET e == work[w].event
        g == work[w].claim.gen IN
    /\ work[w].at = "invoke" /\ (now >= work[w].deadline \/ handler[e][g] = "ended")
    /\ work' = [work EXCEPT ![w] = [@ EXCEPT !.at = "finalize_read", !.cause = "unknown"]]
    /\ UNCHANGED <<now, database, queue, handlers, faults>>

-----------------------------------------------------------------------------
(* Finalization *)

\* finalize(): an unlocked read proposes the outcome to be authorized.
FinalizeRead(w) ==
    LET e == work[w].event
        c == work[w].claim
        a == attempt[e][c.gen]
        t == IF a.stage = "completed" THEN a.outcome.completedAt ELSE now IN
    /\ work[w].at = "finalize_read"
    /\ IF HasAttempt(e, c) /\ OutcomeDefined(c, a.invokedAt, work[w].cause, t)
       THEN /\ work' = [work EXCEPT ![w] = [@ EXCEPT !.at = "finalize_lock",
                                       !.receipt = Outcome(e, c, a.invokedAt, work[w].cause, t)]]
            /\ UNCHANGED queue
       ELSE Raise(w)
    /\ UNCHANGED <<now, database, handlers, faults>>

\* Mutant: the proposal is not recomputed from the locked attempt row.
FinalizeAdmittedUnchecked(e, c, cause, r) ==
    Matches(e, c) /\ r.completedAt <= now /\ ~(r.completedAt < c.expiresAt /\ c.expiresAt <= now)

\* _finalize(): the checks under the row locks, before authority is consumed.
FinalizeAdmitted(e, c, cause, r) ==
    LET a == attempt[e][c.gen] IN
    /\ Matches(e, c)
    /\ r.completedAt <= now
    /\ OutcomeDefined(c, a.invokedAt, cause, r.completedAt)
    /\ r = Outcome(e, c, a.invokedAt, cause, r.completedAt)
    /\ ~(r.completedAt < c.expiresAt /\ c.expiresAt <= now)

\* Another finalizer of this claim won: its receipt must be what this cause
\* yields at the winner's time (_CompletedDuringFinalization).
SameReceipt(e, c, cause, r, stored) ==
    /\ OutcomeDefined(c, r.invokedAt, cause, stored.completedAt)
    /\ stored = Outcome(e, c, r.invokedAt, cause, stored.completedAt)

FinalizeLock(w) ==
    LET e == work[w].event
        c == work[w].claim
        r == work[w].receipt
        a == attempt[e][c.gen] IN
    /\ work[w].at = "finalize_lock" /\ ~Locked(e)
    /\ \/ /\ a.stage = "completed" /\ r = a.outcome
          /\ Done(w) /\ UNCHANGED queue
       \/ /\ a.stage = "completed" /\ r # a.outcome
          /\ SameReceipt(e, c, work[w].cause, r, a.outcome)
          /\ work' = [work EXCEPT ![w] = [@ EXCEPT !.receipt = a.outcome]] /\ UNCHANGED queue
       \/ /\ a.stage # "completed" /\ FinalizeAdmitted(e, c, work[w].cause, r)
          /\ Goto(w, "finalize_commit") /\ UNCHANGED queue
       \/ /\ IF a.stage = "completed"
             THEN r # a.outcome /\ ~SameReceipt(e, c, work[w].cause, r, a.outcome)
             ELSE ~FinalizeAdmitted(e, c, work[w].cause, r)
          /\ Raise(w)
    /\ UNCHANGED <<now, database, handlers, faults>>

\* check_outbox_delivery_projection: a deferred trigger, run by COMMIT.
ProjectionAdmits(e, r) == r.unknown /\ r.state = "retryable" => e \in UnknownRetryAdmitted

FinalizeCommit(w) ==
    LET e == work[w].event
        g == work[w].claim.gen
        r == work[w].receipt IN
    /\ work[w].at = "finalize_commit"
    /\ ProjectionAdmits(e, r)
    /\ attempt' = [attempt EXCEPT ![e][g] = [@ EXCEPT !.stage = "completed", !.outcome = r]]
    /\ event' = [event EXCEPT ![e] = [@ EXCEPT !.state = r.state, !.error = r.error, !.next = r.next,
                                                  !.finalizedAt = r.finalizedAt, !.claim = NoClaim]]
    /\ Done(w)
    /\ UNCHANGED <<now, queue, handlers, faults>>

FinalizeRefused(w) ==
    /\ work[w].at = "finalize_commit"
    /\ ~ProjectionAdmits(work[w].event, work[w].receipt)
    /\ Raise(w)
    /\ UNCHANGED <<now, database, handlers, faults>>

-----------------------------------------------------------------------------
(* Time and faults *)

\* A denied authority, a lost connection or a failed transaction.
Unavailable(w) ==
    /\ work[w].at \notin {"idle", "call", "invoke"} /\ faults < MaxFaults
    /\ Raise(w)
    /\ faults' = faults + 1
    /\ UNCHANGED <<now, database, handlers>>

\* reject_on_worker_lost: the message of a lost worker is delivered again.
WorkerLost(w) ==
    /\ work[w].at # "idle" /\ faults < MaxFaults
    /\ Done(w)
    /\ queue' = queue \cup {work[w].event}
    /\ faults' = faults + 1
    /\ UNCHANGED <<now, database, handlers>>

MessageLost(e) ==
    /\ e \in queue /\ faults < MaxFaults
    /\ queue' = queue \ {e}
    /\ faults' = faults + 1
    /\ UNCHANGED <<now, database, work, handlers>>

\* The clock moves while something retained waits for a later instant: between
\* such instants no comparison in the code changes its result.
Deadlines == {event[e].next : e \in Events} \cup {event[e].claim.expiresAt : e \in Events}
             \cup {work[w].deadline : w \in Workers}

Tick ==
    /\ \E d \in Deadlines : now < d
    /\ now' = now + 1
    /\ UNCHANGED <<database, work, queue, handlers, faults>>

\* The clock moves on while a worker stalls between reading and claiming.
Stall ==
    /\ \E w \in Workers : work[w].at = "claim_lock" /\ now < work[w].claim.expiresAt
    /\ faults < MaxFaults
    /\ now' = now + 1 /\ faults' = faults + 1
    /\ UNCHANGED <<database, work, queue, handlers>>

WorkerStep(w) ==
    \/ Recover(w) \/ ClaimRead(w) \/ ClaimLock(w) \/ ClaimCommit(w)
    \/ BeginLock(w) \/ LeaseLapsed(w) \/ BeginCommit(w) \/ CallHandler(w) \/ InvokeUnknown(w)
    \/ FinalizeRead(w) \/ FinalizeLock(w) \/ FinalizeCommit(w) \/ FinalizeRefused(w)

Next ==
    \/ \E e \in Events : Append(e) \/ ScanPending(e) \/ MessageLost(e)
    \/ \E w \in Workers, e \in Events : Deliver(w, e)
    \/ \E w \in Workers : WorkerStep(w) \/ Unavailable(w) \/ WorkerLost(w)
    \/ \E w \in Workers, v \in HandlerOutcomes : HandlerReturns(w, v)
    \/ \E e \in Events, g \in Gens : Fence(e, g) \/ EffectCommit(e, g) \/ HandlerFails(e, g)
    \/ Tick \/ Stall

Spec == Init /\ [][Next]_vars

\* Beat runs the scan every minute, workers take queued messages and run, the
\* hard task limit ends a call that holds the fence, and time passes.
Fairness ==
    /\ \A e \in Events : WF_vars(ScanPending(e) /\ e \notin queue)
    /\ \A e \in Events : WF_vars(\E w \in Workers : Deliver(w, e))
    /\ \A w \in Workers : WF_vars(WorkerStep(w))
    /\ \A e \in Events, g \in Gens : WF_vars(EffectCommit(e, g) \/ (handler[e][g] = "fenced" /\ HandlerFails(e, g)))
    /\ WF_vars(Tick)

FairSpec == Spec /\ Fairness

-----------------------------------------------------------------------------
(* Properties *)

\* The newest attempt row carries the event's claim, or the receipt the event
\* row mirrors.
NewestOK(e) ==
    LET a == attempt[e][event[e].gen] IN
    /\ event[e].state = "claimed" => a.stage \in {"claimed", "invoked"} /\ a.claim = event[e].claim
    /\ event[e].state # "claimed" =>
         /\ a.stage = "completed"
         /\ event[e].state = a.outcome.state /\ event[e].error = a.outcome.error
         /\ event[e].next = a.outcome.next
         /\ event[e].finalizedAt = a.outcome.finalizedAt

\* One attempt row per claimed generation, every earlier one completed.
GenerationOK(e, g) ==
    /\ attempt[e][g].stage # "none" <=> g <= event[e].gen
    /\ g < event[e].gen => attempt[e][g].stage = "completed"

\* Custody agrees with the event row, as check_outbox_delivery_projection
\* demands: one attempt row per claimed generation, every earlier one
\* completed, the newest mirrored by the event's state, times and error.
CustodyMatchesEvent ==
    \A e \in Events :
        /\ \A g \in Gens : GenerationOK(e, g)
        /\ event[e].gen > 0 => NewestOK(e)

\* A claim generation is handed to the handler at most once, whoever crashes
\* or delivers the message again (_begin_invocation).
OneCallPerGeneration == \A e \in Events, g \in Gens : calls[e][g] <= 1

\* After a handler was entered, the event is never handed out again unless that
\* call returned RETRY or the handler is registered replay safe: exceptions,
\* timeouts and crashes "are unknown, never an implicit safe retry" (invoke).
NoBlindRepeat ==
    \A e \in Events \ ReplaySafe : \A g \in Gens, h \in Gens :
        g < h /\ calls[e][g] > 0 /\ attempt[e][h].stage # "none" => verdict[e][g] = "retry"

\* Feature effects of an event that is not replay safe commit in one generation
\* at most, late and timed-out handler calls included (fence_invocation).
EffectOnce == \A e \in Events \ ReplaySafe : \A g, h \in effects[e] : g = h

\* An event is acknowledged only when its handler acknowledged it and the
\* outcome was fixed within the lease: recovery never acknowledges (_outcome).
AcknowledgedByHandler ==
    \A e \in Events : event[e].state = "acknowledged" =>
        /\ verdict[e][event[e].gen] = "acknowledge"
        /\ event[e].finalizedAt < attempt[e][event[e].gen].claim.expiresAt

\* An effect only commits while its own claim is the open custody of the event:
\* never for a finalized attempt and never under a newer claim.
EffectsUnderCustody ==
    [][\A e \in Events, g \in Gens : g \in effects'[e] \ effects[e] =>
            event[e].state = "claimed" /\ event[e].gen = g /\ attempt[e][g].stage = "invoked"]_vars

\* Receipts are immutable and finalized events stay finalized, whatever late
\* finalizers, recoverers and duplicate messages do.
SettledForever ==
    [][\A e \in Events :
        /\ \A g \in Gens : attempt[e][g].stage = "completed" => attempt'[e][g] = attempt[e][g]
        /\ event[e].state \in Terminal => event'[e] = event[e]]_vars

\* Every appended event with a handler is eventually acknowledged or dead
\* lettered: the scan finds lost, expired and due work again (scan_pending).
EventuallySettled ==
    \A e \in Registered : event[e].state = "pending" ~> event[e].state \in Terminal

\* recover: an expired claim is always resolved and never held forever.
ExpiredClaimResolved ==
    \A e \in Events : (event[e].state = "claimed" /\ event[e].claim.expiresAt <= now)
                        ~> event[e].state # "claimed"
-----------------------------------------------------------------------------
(* The inductive invariant behind the properties *)

\* What a transaction may rely on once it holds the locks.
AttemptOK(e, g) ==
    LET a == attempt[e][g] IN
    /\ a.stage = "none" <=> g > event[e].gen
    /\ a.stage # "none" => a.claim.gen = g
    /\ a.stage \in {"none", "claimed"} => a.invokedAt = NoTime
    /\ a.stage = "invoked" => a.invokedAt # NoTime
    /\ g < event[e].gen => a.stage = "completed" /\ a.outcome.state = "retryable"

RowOK(e) ==
    /\ event[e].state \in {"absent", "pending"} <=> event[e].gen = 0
    /\ \A g \in Gens : AttemptOK(e, g)
    /\ event[e].gen > 0 => NewestOK(e)

\* What the handler call of a generation leaves behind.
HistoryOK(e, g) ==
    LET a == attempt[e][g] IN
    /\ calls[e][g] <= 1
    /\ calls[e][g] = 0 <=> handler[e][g] = "none"
    /\ calls[e][g] > 0 => a.stage \in {"invoked", "completed"} /\ a.invokedAt # NoTime
    /\ verdict[e][g] # "none" => handler[e][g] = "ended"
    /\ g \in effects[e] => calls[e][g] > 0 /\ verdict[e][g] # "retry"
    /\ handler[e][g] = "fenced" =>
         event[e].state = "claimed" /\ event[e].gen = g /\ a.stage = "invoked"
    /\ a.stage = "completed" =>
         /\ a.outcome.state = "retryable" /\ a.invokedAt # NoTime /\ e \notin ReplaySafe
              => verdict[e][g] = "retry"
         /\ a.outcome.state = "acknowledged" =>
              verdict[e][g] = "acknowledge" /\ a.outcome.finalizedAt < a.claim.expiresAt

\* What a worker's private claim and proposal still say about the rows.
Holding == {"begin_lock", "begin_commit", "call", "invoke"}
Finalizing == {"finalize_read", "finalize_lock", "finalize_commit"}

WorkerOK(w) ==
    LET e == work[w].event
        c == work[w].claim
        a == attempt[e][c.gen] IN
    /\ work[w].at \in {"claim_lock", "claim_commit"} => c.gen \in Gens /\ c.owner = w
    /\ work[w].at = "claim_commit" => event[e].state \in Claimable /\ event[e].gen + 1 = c.gen
    /\ work[w].at \in Holding => HasAttempt(e, c) /\ c.owner = w
    /\ work[w].at = "begin_commit" =>
         Matches(e, c) /\ a.stage = "claimed" /\ work[w].receipt.invokedAt # NoTime
    /\ work[w].at \in {"call", "invoke"} => a.stage \in {"invoked", "completed"} /\ a.invokedAt # NoTime
    /\ work[w].at = "call" => calls[e][c.gen] = 0
    /\ work[w].at = "invoke" => verdict[e][c.gen] = "none"
    /\ work[w].at \in Finalizing =>
         /\ HasAttempt(e, c)
         /\ work[w].cause \in HandlerOutcomes => verdict[e][c.gen] = work[w].cause
    /\ work[w].at = "finalize_commit" =>
         /\ Matches(e, c) /\ a.stage # "completed"
         /\ OutcomeDefined(c, a.invokedAt, work[w].cause, work[w].receipt.completedAt)
         /\ work[w].receipt = Outcome(e, c, a.invokedAt, work[w].cause, work[w].receipt.completedAt)

\* One transaction at a time holds an event row.
LockInv ==
    /\ \A v, w \in Workers :
         work[v].at \in LockedPlaces /\ work[w].at \in LockedPlaces /\ work[v].event = work[w].event => v = w
    /\ \A w \in Workers, g \in Gens :
         work[w].at \in LockedPlaces => handler[work[w].event][g] # "fenced"

RowsInv == \A e \in Events : RowOK(e)
HistoryInv == \A e \in Events, g \in Gens : HistoryOK(e, g)
WorkerInv == \A w \in Workers : WorkerOK(w)

IInv == TypeOK /\ RowsInv /\ HistoryInv /\ WorkerInv /\ LockInv

-----------------------------------------------------------------------------
(* Refinement of OutboxContract *)

CustodyOf(e) ==
    CASE event[e].state \in Claimable -> "waiting"
      [] event[e].state = "dead_letter" -> "dead"
      [] event[e].state = "claimed" ->
            IF attempt[e][event[e].gen].stage = "invoked" THEN "handed" ELSE "held"
      [] OTHER -> event[e].state

AnswerOf(e) == IF event[e].gen = 0 THEN "none" ELSE verdict[e][event[e].gen]

Custody == [e \in Events |-> CustodyOf(e)]
Granted == [e \in Events |-> event[e].gen]
Answered == [e \in Events |-> AnswerOf(e)]

Contract == INSTANCE OutboxContract WITH
    custody <- Custody, gen <- Granted, answer <- Answered, done <- effects

\* Concurrent workers over leases implement the contract: every committed
\* transaction of delivery.py is one step of it, everything else a stutter.
ImplementsContract == Contract!ContractSpec
=============================================================================
