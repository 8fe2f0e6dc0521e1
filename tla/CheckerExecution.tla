-------------------------- MODULE CheckerExecution --------------------------
(***************************************************************************)
(* The evaluation of one submission (backend/app/modules/checkers), from   *)
(* the request event of its dispatch to the routing of its verdict: the    *)
(* checker runs and the fence that names the current one, the executor     *)
(* that runs an external checker between two short transactions, the       *)
(* Operator's retry of an infrastructure failure, and the reconciliation   *)
(* of a delivery whose outcome is unknown.                                 *)
(*                                                                         *)
(* A delivery is <<kind, g, role>>: the request or the completion event of *)
(* generation g, and either the original or its sole reconciliation child. *)
(* The outbox is what OutboxContract promises for an event that is not     *)
(* replay safe.  Time is the age of claims, leases and stages, so that no  *)
(* clock has to be bounded.                                                *)
(***************************************************************************)
EXTENDS Integers, FiniteSets

CONSTANTS
    MaxGen,          \* bound on evaluation generations
    MaxAttempts,     \* DeliveryOptions.max_attempts
    MaxBudget,       \* MAXIMUM_SELECTED_POST_EXECUTION_BUDGET_MS
    Budget,          \* the execution budget of the locked policy
    Prelude,         \* SELECTED_POST_HANDLER_PRELUDE_MARGIN_MS
    Margin,          \* SELECTED_POST_FINALIZATION_MARGIN_MS
    RequestLease,    \* SELECTED_POST_DELIVERY_LEASE_SECONDS
    DefaultTimeout,  \* DeliveryOptions.handler_timeout_seconds
    DefaultLease,    \* DeliveryOptions.lease_seconds
    ReviewModes      \* the review policies the submission may be locked to

RequestTimeout == MaxBudget + Prelude + Margin
CheckerLease == Budget + Margin

ASSUME BoundsAssumption ==
    MaxGen \in Nat \ {0} /\ MaxAttempts \in Nat \ {0} /\ ReviewModes \subseteq BOOLEAN
ASSUME TimingAssumption ==
    /\ {MaxBudget, Budget, Prelude, Margin} \subseteq Nat \ {0} /\ Budget <= MaxBudget
    /\ RequestLease \in Nat /\ DefaultTimeout \in Nat /\ DefaultLease \in Nat
    /\ RequestTimeout < RequestLease /\ DefaultTimeout < DefaultLease

Gens == 1..MaxGen
Deliveries == {"request", "completion"} \X Gens \X {"original", "child"}
KindOf(d) == d[1]
GenOf(d) == d[2]
IsChild(d) == d[3] = "child"
Original(d) == <<d[1], d[2], "original">>
Child(d) == <<d[1], d[2], "child">>

VARIABLES
    run,         \* checker_runs, by evaluation_generation
    fence,       \* checker_submission_fences.current_run_id, as its generation
    task,        \* the task's status while this submission is its latest
    routed,      \* the generation whose completion the routing manifest names
    human,       \* human_review_required of the locked review policy
    delivery,    \* outbox custody of each event
    handler,     \* the handler call of each delivery
    executions   \* how often the external checker was started for a run

vars == <<run, fence, task, routed, human, delivery, handler, executions>>
checkers == <<run, fence>>
tasks == <<task, routed, human>>

Verdicts == {"allow_review", "needs_revision"}
Results == Verdicts \cup {"infrastructure_failed"}
TerminalRun == {"completed", "infrastructure_failed"}
Runs == [status : {"none", "queued", "running"} \cup TerminalRun,
         leaseGen : Nat, leaseAge : Nat, verdict : Verdicts \cup {"none"}]
NoRun == [status |-> "none", leaseGen |-> 0, leaseAge |-> 0, verdict |-> "none"]
QueuedRun == [NoRun EXCEPT !.status = "queued"]

Dead == {"rejected", "exhausted", "unknown"}
Custodies == [state : {"absent", "pending", "live", "acknowledged"} \cup Dead,
              attempts : Nat, age : Nat]
NoDelivery == [state |-> "absent", attempts |-> 0, age |-> 0]
PendingDelivery == [NoDelivery EXCEPT !.state = "pending"]

PreludeStage == {"observe", "claim"}
Working == PreludeStage \cup {"select", "execute", "finalize", "apply"}
Answers == {"acknowledge", "retry", "reject", "unknown"}
Handlers == [at : Working \cup {"none", "answered"}, age : Nat, late : BOOLEAN,
             lease : Nat, result : Results \cup {"none"}, answer : Answers \cup {"none"}]
NoHandler == [at |-> "none", age |-> 0, late |-> FALSE, lease |-> 0, result |-> "none",
              answer |-> "none"]

TaskOutcomes == {"needs_revision", "exhausted", "review_pending", "accepted"}

\* Submission dispatch commits the submission, generation 1 and its request event.
Init ==
    /\ run = [g \in Gens |-> IF g = 1 THEN QueuedRun ELSE NoRun]
    /\ fence = 1 /\ task = "evaluation_pending" /\ routed = 0
    /\ human \in ReviewModes
    /\ delivery = [d \in Deliveries |-> IF d = <<"request", 1, "original">>
                                        THEN PendingDelivery ELSE NoDelivery]
    /\ handler = [d \in Deliveries |-> NoHandler]
    /\ executions = [g \in Gens |-> 0]

-----------------------------------------------------------------------------
(* The outbox: custody, options and the fence of a handler's transaction.  *)

\* Mutant: the request event is delivered with the default options.
TimeoutDefault(d) == DefaultTimeout
Timeout(d) == IF KindOf(d) = "request" /\ ~IsChild(d) THEN RequestTimeout ELSE DefaultTimeout
Lease(d) == IF KindOf(d) = "request" /\ ~IsChild(d) THEN RequestLease ELSE DefaultLease

\* observe_invocation, fence_invocation, fence_reconciliation
Fenced(d) ==
    /\ delivery[d].state = "live" /\ delivery[d].age < Lease(d)
    /\ IsChild(d) => delivery[Original(d)].state = "unknown"

SetDelivery(d, custody) == delivery' = [delivery EXCEPT ![d] = custody]
Goto(d, h) == handler' = [handler EXCEPT ![d] = h]

\* Nobody waits any more for the answer of a call the outbox has given up on.
Answer(d, a) == Goto(d, IF delivery[d].state = "live"
                        THEN [NoHandler EXCEPT !.at = "answered", !.answer = a] ELSE NoHandler)

\* claim and begin_invocation, then the handler is called
Invoke(d) ==
    /\ delivery[d].state = "pending"
    /\ SetDelivery(d, [state |-> "live", attempts |-> delivery[d].attempts + 1, age |-> 0])
    /\ Goto(d, [NoHandler EXCEPT !.at = "observe"])
    /\ UNCHANGED <<checkers, tasks, executions>>

\* RETRY and a claim that lapsed before the call both use up an attempt.  The
\* first operator is a mutant with a budget off by one.
AfterRetryOnceMore(n) == IF n <= MaxAttempts THEN "pending" ELSE "exhausted"
AfterRetry(n) == IF n < MaxAttempts THEN "pending" ELSE "exhausted"

\* A terminal event keeps no count of its attempts.
Closed(state, n) == [state |-> state, attempts |-> IF state = "pending" THEN n ELSE 0, age |-> 0]

ClaimLapses(d) ==
    /\ delivery[d].state = "pending"
    /\ SetDelivery(d, Closed(AfterRetry(delivery[d].attempts + 1), delivery[d].attempts + 1))
    /\ UNCHANGED <<checkers, tasks, handler, executions>>

Settled(d) ==
    CASE handler[d].answer = "acknowledge" -> "acknowledged"
      [] handler[d].answer = "reject"      -> "rejected"
      [] handler[d].answer = "retry"       -> AfterRetry(delivery[d].attempts)
      [] OTHER                             -> "unknown"

\* finalize with the handler's answer, while the claim is live
Settle(d) ==
    /\ delivery[d].state = "live" /\ delivery[d].age < Lease(d) /\ handler[d].at = "answered"
    /\ SetDelivery(d, Closed(Settled(d), delivery[d].attempts))
    /\ Goto(d, NoHandler)
    /\ UNCHANGED <<checkers, tasks, executions>>

\* Mutant: expired claims are not recovered.
UnansweredTimeout(d) ==
    /\ delivery[d].state = "live" /\ delivery[d].age >= Timeout(d) /\ handler[d].at # "answered"
    /\ SetDelivery(d, Closed("unknown", delivery[d].attempts))
    /\ UNCHANGED <<checkers, tasks, handler, executions>>

\* invoke() stops waiting, or the expired claim is recovered: the outcome is
\* unknown whatever the handler still does, and how long it takes is no
\* longer told apart.
Unanswered(d) ==
    /\ delivery[d].state = "live"
    /\ \/ delivery[d].age >= Timeout(d) /\ handler[d].at # "answered"
       \/ delivery[d].age >= Lease(d)
    /\ SetDelivery(d, Closed("unknown", delivery[d].attempts))
    /\ Goto(d, IF handler[d].at = "answered" THEN NoHandler
               ELSE [handler[d] EXCEPT !.age = 0, !.late = FALSE])
    /\ UNCHANGED <<checkers, tasks, executions>>

\* A transaction or call of the handler raises: denied authority, a database
\* failure, unconfirmed cleanup.  What the handler had not committed is gone.
Fail(d) ==
    /\ handler[d].at \in Working
    /\ Answer(d, "unknown")
    /\ UNCHANGED <<checkers, tasks, delivery, executions>>

\* The worker process is killed, or the cancelled task ends.
WorkerLost(d) ==
    /\ handler[d].at \in Working \cup {"answered"}
    /\ Goto(d, NoHandler)
    /\ UNCHANGED <<checkers, tasks, delivery, executions>>

-----------------------------------------------------------------------------
(* Scope, currentness and the classification of an uncertain delivery.     *)

\* lock_evaluation_scope: raises outside Readable, and returns Eligible
Readable == task \in {"evaluation_pending", "needs_revision", "review_pending", "accepted"}
Eligible == Readable /\ task # "accepted"

Current(g) == fence = g

\* require_lease, for the lease the executor of d holds
LeaseHeld(d) ==
    LET r == run[GenOf(d)] IN
    /\ Current(GenOf(d)) /\ r.status = "running"
    /\ r.leaseGen = handler[d].lease /\ r.leaseAge < CheckerLease

\* Mutant: an expired checker lease is taken for proof of no effect.
ClassifyRequestExpired(g) ==
    CASE ~Readable \/ ~Current(g) -> "unresolved"
      [] OTHER -> CASE run[g].status = "running" /\ run[g].leaseAge < CheckerLease -> "unresolved"
                    [] run[g].status \in TerminalRun -> "committed"
                    [] OTHER -> "retry_safe"
\* EvaluationCoordinator.classify_uncertain_delivery
ClassifyRequest(g) ==
    CASE ~Readable \/ ~Current(g) -> "unresolved"
      [] OTHER -> CASE run[g].status = "queued" /\ run[g].leaseGen = 0 -> "retry_safe"
                    [] run[g].status \in TerminalRun -> "committed"
                    [] OTHER -> "unresolved"

\* TaskPostSubmitOutcome.classify_uncertain_delivery
Routable(g) == task = "evaluation_pending" /\ Current(g) /\ run[g].status = "completed"
Retained(g) == routed = g /\ (Readable \/ task = "exhausted")
\* Mutant: the stored verdict is taken for its routing.
ClassifyCompletionByRun(g) ==
    IF Current(g) /\ run[g].status = "completed" THEN "committed" ELSE "unresolved"
ClassifyCompletion(g) ==
    CASE Retained(g) -> "committed"
      [] routed # g /\ Routable(g) -> "retry_safe"
      [] OTHER -> "unresolved"

Classify(d) ==
    IF KindOf(d) = "request" THEN ClassifyRequest(GenOf(d)) ELSE ClassifyCompletion(GenOf(d))

-----------------------------------------------------------------------------
(* EvaluationRequestHandler, the reconciliation handler and the executor.  *)

Enter(d) == IF KindOf(d) = "request" THEN "claim" ELSE "apply"

\* The original's handler observes its invocation and reads the stored request.
Observe(d) ==
    /\ handler[d].at = "observe" /\ ~IsChild(d)
    /\ IF Fenced(d) THEN Goto(d, [handler[d] EXCEPT !.at = Enter(d)]) ELSE Answer(d, "reject")
    /\ UNCHANGED <<checkers, tasks, delivery, executions>>

\* The child classifies its original again, under the owner's locks.
Reclassify(d) ==
    /\ handler[d].at = "observe" /\ IsChild(d)
    /\ CASE Fenced(d) /\ Classify(d) = "committed"  -> Answer(d, "acknowledge")
         [] Fenced(d) /\ Classify(d) = "retry_safe" -> Goto(d, [handler[d] EXCEPT !.at = Enter(d)])
         [] OTHER                                   -> Answer(d, "reject")
    /\ UNCHANGED <<checkers, tasks, delivery, executions>>

LeaseRow(r) == [r EXCEPT !.status = "running", !.leaseGen = @ + 1, !.leaseAge = 0]

\* _claim on a run that is not terminal, and _DeliveryExecute.consume
ClaimAdmitted(d) ==
    LET r == run[GenOf(d)] IN
    /\ Eligible /\ Current(GenOf(d)) /\ Fenced(d)
    /\ ~(r.status = "running" /\ r.leaseAge < CheckerLease)
    /\ r.leaseGen + 1 = 1

Stored(r) == IF r.status = "completed" THEN r.verdict ELSE "infrastructure_failed"

Claim(d) ==
    LET g == GenOf(d) IN
    /\ handler[d].at = "claim"
    /\ IF run[g].status \in TerminalRun
       THEN /\ Readable /\ Current(g) /\ Fenced(d)
            /\ Goto(d, [handler[d] EXCEPT !.at = "finalize", !.lease = run[g].leaseGen, !.age = 0,
                                          !.result = Stored(run[g])])
            /\ UNCHANGED run
       ELSE /\ ClaimAdmitted(d)
            /\ run' = [run EXCEPT ![g] = LeaseRow(run[g])]
            /\ Goto(d, [handler[d] EXCEPT !.at = "select", !.lease = run[g].leaseGen + 1, !.age = 0])
    /\ UNCHANGED <<fence, tasks, delivery, executions>>

\* _select: the lease is current, then bytes are read and the checker runs
Materialize(d) ==
    /\ handler[d].at = "select" /\ LeaseHeld(d) /\ Readable
    /\ Goto(d, [handler[d] EXCEPT !.at = "execute"])
    /\ executions' = [executions EXCEPT ![GenOf(d)] = @ + 1]
    /\ UNCHANGED <<checkers, tasks, delivery>>

\* The consumer returns within its budget, or asyncio.timeout ends it; the
\* selection is validated again before either becomes a result.
Evaluated(d, r) ==
    /\ handler[d].at = "execute" /\ LeaseHeld(d) /\ Readable
    /\ handler[d].age >= Budget => r = "infrastructure_failed"
    /\ Goto(d, [handler[d] EXCEPT !.at = "finalize", !.age = 0, !.result = r])
    /\ UNCHANGED <<checkers, tasks, delivery, executions>>

\* Mutant: a completed run is stored without its completion event.
CompletionUnsent(g, result) == delivery
Completion(g, result) ==
    IF result = "infrastructure_failed" THEN delivery
    ELSE [delivery EXCEPT ![<<"completion", g, "original">>] = PendingDelivery]

FinalizeAdmitted(d) == Eligible /\ LeaseHeld(d) /\ Fenced(d)

Finalize(d) ==
    LET g == GenOf(d)
        r == handler[d].result IN
    /\ handler[d].at = "finalize"
    /\ IF run[g].status \in TerminalRun
       THEN /\ Readable /\ Current(g) /\ Fenced(d)
            /\ r = Stored(run[g]) /\ handler[d].lease = run[g].leaseGen
            /\ UNCHANGED <<run, delivery>>
       ELSE /\ FinalizeAdmitted(d)
            /\ run' = [run EXCEPT ![g] = [@ EXCEPT !.status = IF r \in Verdicts THEN "completed" ELSE r,
                                                   !.verdict = IF r \in Verdicts THEN r ELSE "none"]]
            /\ delivery' = Completion(g, r)
    /\ Answer(d, "acknowledge")
    /\ UNCHANGED <<fence, tasks, executions>>

-----------------------------------------------------------------------------
(* EvaluationCompletionHandler: TaskPostSubmitOutcome.apply.               *)

Accepts(g) == run[g].verdict = "allow_review" /\ ~human
OutcomesOf(g) ==
    CASE run[g].verdict = "needs_revision" -> {"needs_revision", "exhausted"}
      [] OTHER -> IF human THEN {"review_pending"} ELSE {"accepted"}

Route(d) ==
    LET g == GenOf(d) IN
    /\ handler[d].at = "apply" /\ Fenced(d)
    /\ IF routed = g THEN Retained(g) /\ UNCHANGED <<task, routed>>
       ELSE /\ Routable(g)
            /\ task' \in OutcomesOf(g) /\ routed' = g
    /\ Answer(d, "acknowledge")
    /\ UNCHANGED <<checkers, human, delivery, executions>>

\* The release controller has stopped the acceptance lifecycle: require_new
\* refuses before any effect (TaskRoutingLifecycleDeferred).
Defer(d) ==
    LET g == GenOf(d) IN
    /\ handler[d].at = "apply" /\ Fenced(d)
    /\ routed # g /\ Routable(g) /\ Accepts(g)
    /\ Answer(d, "retry")
    /\ UNCHANGED <<checkers, tasks, delivery, executions>>

\* A child whose source is no longer available answers REJECT; the original's
\* handler raises, which is Fail.
ChildRefused(d) ==
    /\ handler[d].at = "apply" /\ IsChild(d) /\ ~Fenced(d)
    /\ Answer(d, "reject")
    /\ UNCHANGED <<checkers, tasks, delivery, executions>>

-----------------------------------------------------------------------------
(* The Operator, the task and the clock.                                   *)

\* Mutant: any terminal run is a source for a retry.
RetrySourceTerminal(g) == run[g].status \in TerminalRun
RetrySource(g) == run[g].status = "infrastructure_failed"

\* retry and _reserve_after_task_lock.  A repeated request key finds its
\* receipt and changes nothing.
Retry(g) ==
    /\ task = "evaluation_pending" /\ Current(g) /\ RetrySource(g) /\ g < MaxGen
    /\ run' = [run EXCEPT ![g + 1] = QueuedRun]
    /\ fence' = g + 1
    /\ SetDelivery(<<"request", g + 1, "original">>, PendingDelivery)
    /\ UNCHANGED <<tasks, handler, executions>>

\* PostSubmitDeliveryService.reconcile, for an original without a child
Reconcile(d) ==
    /\ ~IsChild(d) /\ delivery[d].state = "unknown" /\ delivery[Child(d)].state = "absent"
    /\ Classify(d) \in {"committed", "retry_safe"}
    /\ SetDelivery(Child(d), PendingDelivery)
    /\ UNCHANGED <<checkers, tasks, handler, executions>>

\* A returned task is submitted again, repaired, expired or reclaimed.
TaskMovesOn ==
    /\ task = "needs_revision" /\ task' = "moved"
    /\ UNCHANGED <<checkers, routed, human, delivery, handler, executions>>

Allowance(at) == CASE at \in PreludeStage -> Prelude [] at = "finalize" -> Margin [] OTHER -> Budget

Aged(d) ==
    LET h == handler[d] IN
    IF KindOf(d) # "request" \/ delivery[d].state # "live" \/ h.at \notin Working THEN h
    ELSE IF h.age < Allowance(h.at) THEN [h EXCEPT !.age = @ + 1] ELSE [h EXCEPT !.late = TRUE]

Tick ==
    /\ run' = [g \in Gens |-> IF run[g].status = "running" /\ run[g].leaseAge < CheckerLease
                              THEN [run[g] EXCEPT !.leaseAge = @ + 1] ELSE run[g]]
    /\ delivery' = [d \in Deliveries |-> IF delivery[d].state = "live" /\ delivery[d].age < Lease(d)
                                         THEN [delivery[d] EXCEPT !.age = @ + 1] ELSE delivery[d]]
    /\ handler' = [d \in Deliveries |-> Aged(d)]
    /\ UNCHANGED <<fence, tasks, executions>>

HandlerStep(d) ==
    \/ Observe(d) \/ Reclassify(d) \/ Claim(d) \/ Materialize(d) \/ Finalize(d)
    \/ \E r \in Results : Evaluated(d, r)
    \/ Route(d) \/ Defer(d) \/ ChildRefused(d) \/ Fail(d)

OutboxStep(d) == Invoke(d) \/ Settle(d) \/ Unanswered(d)

Next ==
    \/ \E d \in Deliveries : HandlerStep(d)
    \/ \E d \in Deliveries : OutboxStep(d)
    \/ \E d \in Deliveries : ClaimLapses(d) \/ WorkerLost(d) \/ Reconcile(d)
    \/ \E g \in Gens : Retry(g)
    \/ TaskMovesOn \/ Tick

Spec == Init /\ [][Next]_vars

-----------------------------------------------------------------------------
(* Properties.                                                             *)

TypeOK ==
    /\ run \in [Gens -> Runs] /\ fence \in Gens
    /\ task \in {"evaluation_pending", "moved"} \cup TaskOutcomes /\ routed \in 0..MaxGen
    /\ human \in BOOLEAN
    /\ delivery \in [Deliveries -> Custodies] /\ handler \in [Deliveries -> Handlers]
    /\ executions \in [Gens -> Nat]
    /\ \A g \in Gens : run[g].leaseAge <= CheckerLease
    /\ \A d \in Deliveries : delivery[d].age <= Lease(d) /\ delivery[d].attempts <= MaxAttempts

\* A submission has at most one verdict, that of its current run, and the task
\* is routed by that verdict and by no other: retries and reconciliation never
\* supersede a completed run, and routing follows the completion it names.
OneVerdict ==
    /\ \A g \in Gens : run[g].status = "completed" => fence = g
    /\ task = "evaluation_pending" <=> routed = 0
    /\ routed # 0 =>
        /\ run[routed].status = "completed"
        /\ run[routed].verdict = "needs_revision" <=> task \in {"needs_revision", "exhausted", "moved"}
        /\ task = "accepted" => ~human

Executing == {"select", "execute", "finalize"}

\* The external checker is started at most once for a run, and a child may turn
\* to the executor only before that, when the original's call can no longer
\* start it either: neither an expired lease nor an unknown delivery is proof
\* of no effect (classify_uncertain_delivery, _DeliveryExecute.consume).
ExecutedOnce == \A g \in Gens :
    /\ executions[g] <= 1
    /\ handler[<<"request", g, "child">>].at = "claim" =>
        executions[g] = 0 /\ handler[<<"request", g, "original">>].at \notin Executing

\* The effect of a request is a terminal run, that of a completion its routing.
Committed(d) ==
    IF KindOf(d) = "request" THEN run[GenOf(d)].status \in TerminalRun ELSE routed = GenOf(d)

\* An acknowledged event, or the event whose child was acknowledged, has its
\* effect in the database.
AcknowledgedMeansCommitted ==
    \A d \in Deliveries : delivery[d].state = "acknowledged" => Committed(d)

InFlight == \E d \in Deliveries : delivery[d].state \in {"pending", "live"}
OperatorCanAct ==
    \/ run[fence].status = "infrastructure_failed"
    \/ \E d \in Deliveries : /\ ~IsChild(d) /\ delivery[d].state = "unknown"
                            /\ delivery[Child(d)].state = "absent"
                            /\ Classify(d) # "unresolved"

\* What the Operator documentation calls held: the checker may have run and
\* left no result, the one child failed, or the delivery budget is used up.
Held ==
    \/ run[fence].status = "running"
    \/ \E d \in Deliveries : /\ GenOf(d) = fence
                            /\ \/ delivery[d].state = "exhausted"
                               \/ IsChild(d) /\ delivery[d].state \in Dead

\* A submission that waits for its verdict is in delivery, or open to a retry
\* or a reconciliation, or held for a documented reason: no order of crashes,
\* timeouts, retries and reconciliations loses it silently.
NeverLostSilently == task = "evaluation_pending" => InFlight \/ OperatorCanAct \/ Held

Overdue(d) == handler[d].at \in Working /\ delivery[d].state = "live" /\ delivery[d].age > Timeout(d)

\* The outbox never gives up on a request handler whose prelude, execution and
\* finalization each keep the time set aside for them
\* (checkers/api/external_policy.py, SELECTED_POST_HANDLER_TIMEOUT_SECONDS).
RequestFitsItsDelivery == \A d \in Deliveries : ~IsChild(d) /\ KindOf(d) = "request" /\ Overdue(d) => handler[d].late

\* The same of every delivery that runs the executor, the child included.
ExecutionFitsItsDelivery == \A d \in Deliveries : KindOf(d) = "request" /\ Overdue(d) => handler[d].late

-----------------------------------------------------------------------------
(* Liveness.                                                               *)

\* Delivery, recovery and the handlers keep running, and time passes; crashes,
\* failures, the Operator and the release controller owe nothing.
Progress(d) ==
    \/ Observe(d) \/ Reclassify(d) \/ Claim(d) \/ Materialize(d) \/ Finalize(d)
    \/ (\E r \in Results : Evaluated(d, r)) \/ Route(d) \/ Defer(d) \/ ChildRefused(d) \/ OutboxStep(d)

Fairness == WF_vars(Tick) /\ \A d \in Deliveries : WF_vars(Progress(d))
FairSpec == Spec /\ Fairness

\* Every evaluation comes to rest without help: it is routed, superseded, or
\* waits for an Operator or as a held delivery, and nothing stays in delivery.
EvaluationSettles ==
    \A g \in Gens : fence = g ~> (fence # g \/ routed # 0 \/ (~InFlight /\ (OperatorCanAct \/ Held)))
-----------------------------------------------------------------------------
(* The inductive invariant behind the safety properties.                   *)

\* Only the current run is open, earlier ones failed in the infrastructure, a
\* run is leased once and starts the checker only after that.
RunOK(g) ==
    /\ g < fence => run[g].status = "infrastructure_failed"
    /\ g = fence => run[g].status # "none"
    /\ g > fence => run[g].status = "none"
    /\ run[g].leaseGen = IF run[g].status \in {"none", "queued"} THEN 0 ELSE 1
    /\ run[g].verdict = "none" <=> run[g].status # "completed"
    /\ executions[g] <= run[g].leaseGen

\* An original event is sent with the row it announces.
Sent(d) ==
    IF KindOf(d) = "request" THEN run[GenOf(d)].status # "none"
    ELSE run[GenOf(d)].status = "completed"

CustodyOK(d) ==
    LET state == delivery[d].state IN
    /\ ~IsChild(d) => (state # "absent" <=> Sent(d)) /\ state # "rejected"
    /\ IsChild(d) /\ state # "absent" => delivery[Original(d)].state = "unknown"
    /\ state = "pending" => delivery[d].attempts < MaxAttempts
    /\ state \in {"absent", "pending"} => handler[d].at = "none"
    /\ state = "acknowledged" => Committed(d)

\* What a handler call may rely on at each of its stages.
CallOK(d) ==
    LET h == handler[d]
        g == GenOf(d) IN
    /\ h.at = "answered" => delivery[d].state = "live"
    /\ h.at = "answered" /\ h.answer = "acknowledge" => Committed(d)
    /\ h.at = "answered" /\ h.answer = "reject" /\ ~IsChild(d) => delivery[d].age >= Lease(d)
    /\ h.at \in {"claim"} \cup Executing => KindOf(d) = "request"
    /\ h.at = "apply" => KindOf(d) = "completion"
    /\ h.at \in Executing => run[g].leaseGen = 1
    /\ h.at = "select" => executions[g] = 0
    /\ h.at = "finalize" => h.result \in Results
    /\ IsChild(d) /\ h.at = "select" => handler[Original(d)].at # "select"
    /\ IsChild(d) /\ h.at = "claim" =>
          executions[g] = 0 /\ handler[Original(d)].at \notin Executing

\* How old a delivery may be at a stage of a call that is on time.
OnTime(h, age) ==
    /\ h.at \in PreludeStage => h.age <= Prelude /\ age <= h.age
    /\ h.at \in {"select", "execute"} => h.age <= Budget /\ age <= Prelude + h.age
    /\ h.at = "finalize" => h.age <= Margin /\ age <= Prelude + Budget + h.age

TimelyOK(d) ==
    KindOf(d) = "request" /\ ~IsChild(d) /\ delivery[d].state = "live" /\ ~handler[d].late =>
        OnTime(handler[d], delivery[d].age)

EvaluationInv ==
    /\ TypeOK /\ OneVerdict
    /\ \A g \in Gens : RunOK(g)
    /\ \A d \in Deliveries : CustodyOK(d) /\ CallOK(d) /\ TimelyOK(d)
=============================================================================
