-------------------------- MODULE GuideCompilation --------------------------
(***************************************************************************)
(* The compilation of one project guide: setup generations and corrections,*)
(* publication of a generation's delivery to the broker, and the worker    *)
(* that drives one attempt from reservation to finalization.               *)
(*                                                                         *)
(* Every delivery of a generation carries the same deterministic task      *)
(* identity, so the broker may hold, redeliver and retry it while another  *)
(* copy is being worked.  What keeps the copies apart is the dispatch      *)
(* fence of the attempt row; what brings a lost delivery back is the       *)
(* periodic scan over the rows the shared predicate calls retryable.  An   *)
(* attempt is "metered" (each provider effect is under model-usage         *)
(* custody) or uses "none", that is no inference at all.                   *)
(*                                                                         *)
(* Each transaction is one step.  The 60 s dispatch cutoff and the run     *)
(* deadline are flags a clock step clears.                                 *)
(***************************************************************************)
EXTENDS Naturals, FiniteSets, FiniteSetsExt

CONSTANTS
    Workers,     \* processes of the project-setup queue
    MaxGen,      \* bound: setup generations of the guide
    MaxFaults    \* bound: crashes, lost or failing calls in a behaviour

ASSUME GuideAssumption ==
    /\ MaxGen \in Nat \ {0}
    /\ MaxFaults \in Nat

VARIABLES
    run,        \* project_setup_runs row of each generation: status, whether
                \* its task identity is claimed, and the age of the claim
    attempt,    \* project_guide_compilation_attempts row of each generation:
                \* reserved, uncertain once fenced, accepted or invalid,
                \* persisted with its compilation
    projected,  \* components projected for each generation
    outcome,    \* project_guide_setup_finalizations row of each generation
    broker,     \* generations with a delivery waiting in the broker
    worker,     \* what each worker process is doing
    publisher,  \* the user's request and the scan, each publishing a delivery
    faults      \* faults so far

vars == <<run, attempt, projected, outcome, broker, worker, publisher, faults>>

Gens == 1..MaxGen
Modes == {"metered", "none"}
Publishers == {"user", "scan"}

\* What acceptance lets through: a blocked guide, a ready policy draft, and a
\* draft that is well formed but that the submission-policy defaults refuse.
Accepted == {"blocked", "ready", "unprojectable"}
Results == Accepted \cup {"invalid"}

IdleWorker == [at |-> "idle", gen |-> 1, fenced |-> FALSE]
IdlePublisher == [at |-> "idle", gen |-> 1]

NoRun == [status |-> "absent", task |-> FALSE, fresh |-> FALSE]
NoAttempt == [status |-> "none", mode |-> "none", result |-> "none", fresh |-> FALSE]

Init ==
    /\ run = [g \in Gens |->
                 IF g = 1
                 THEN [status |-> "awaiting_documents", task |-> FALSE, fresh |-> TRUE]
                 ELSE NoRun]
    /\ attempt = [g \in Gens |-> NoAttempt]
    /\ projected = [g \in Gens |-> {}]
    /\ outcome = [g \in Gens |-> "none"]
    /\ broker = {}
    /\ worker = [w \in Workers |-> IdleWorker]
    /\ publisher = [p \in Publishers |-> IdlePublisher]
    /\ faults = 0

-----------------------------------------------------------------------------
(* Reading the rows *)

Latest == Max({g \in Gens : run[g].status # "absent"})

\* The unsuperseded compilation; 0 before the first one.
Tip == Max({0} \cup {g \in Gens : attempt[g].status = "persisted"})

Finalized(g) == outcome[g] # "none"

\* require_current_setup_lineage: the latest generation, in no blocked status.
Current(g) ==
    /\ g = Latest
    /\ run[g].status \notin {"enqueue_failed", "sufficiency_blocked"}

\* is_compilation_source_setup, on the latest generation.
SourceShape(g) == g = Latest /\ run[g].status = "queued" /\ run[g].task

\* Mutant: the scan takes a no-inference fence for an inference one.
RetryableDispatched(g) ==
    /\ attempt[g].status \notin {"none", "invalid", "uncertain"}
    /\ ~Finalized(g)
    /\ \/ run[g].status = "queued" /\ run[g].task /\ ~run[g].fresh
       \/ run[g].status = "dispatch_pending" /\ ~run[g].fresh
       \/ run[g].status \in {"queued", "enqueue_failed"} /\ ~run[g].task

\* retryable_compilation_dispatch_predicate.
Retryable(g) ==
    /\ attempt[g].status \notin {"none", "invalid"}
    /\ ~(attempt[g].status = "uncertain" /\ attempt[g].mode = "metered")
    /\ ~Finalized(g)
    /\ \/ run[g].status = "queued" /\ run[g].task /\ ~run[g].fresh
       \/ run[g].status = "dispatch_pending" /\ ~run[g].fresh
       \/ run[g].status \in {"queued", "enqueue_failed"} /\ ~run[g].task

\* The explicit request that has just claimed its delivery needs no cutoff.
FreshClaim(g) == run[g].status = "dispatch_pending" /\ run[g].task /\ run[g].fresh

Needed(g) == IF attempt[g].result = "blocked"
             THEN {"sufficiency"} ELSE {"sufficiency", "policy"}

OutcomeOf(g) == IF attempt[g].result = "blocked"
                THEN "sufficiency_blocked" ELSE "policy_draft_ready"

-----------------------------------------------------------------------------
(* Requests and corrections *)

Fault == faults < MaxFaults /\ faults' = faults + 1

Claimed == [status |-> "dispatch_pending", task |-> TRUE, fresh |-> TRUE]

Reserved(m) == [NoAttempt EXCEPT !.status = "reserved", !.mode = m]

\* Admission of a request: the setup waits for one, and is claimed for dispatch
\* with the reserved attempt in the same transaction.
RequestFor(g, waiting, m) ==
    /\ run[g].status = waiting
    /\ run' = [run EXCEPT ![g] = Claimed]
    /\ attempt' = [attempt EXCEPT ![g] = Reserved(m)]
    /\ UNCHANGED <<projected, outcome, broker, worker, publisher, faults>>

RequestInitial(m) == RequestFor(1, "awaiting_documents", m)

\* Corrections descend from inference proposals only.
RequestCorrection(g) == RequestFor(g, "correction_requested", "metered")

\* Mutant: a persisted compilation is corrected before it is finalized.
CorrectablePersisted(g) ==
    /\ g = Latest
    /\ g = Tip
    /\ attempt[g].mode = "metered"

\* A proposal can be corrected: finalized, current, made by inference.
Correctable(g) ==
    /\ Finalized(g)
    /\ g = Latest
    /\ g = Tip
    /\ attempt[g].mode = "metered"

Correct(g) ==
    /\ Correctable(g)
    /\ g + 1 \in Gens
    /\ run' = [run EXCEPT ![g + 1] = [status |-> "correction_requested",
                                      task |-> FALSE, fresh |-> TRUE]]
    /\ UNCHANGED <<attempt, projected, outcome, broker, worker, publisher, faults>>

-----------------------------------------------------------------------------
(* Publication *)

\* The dispatch transaction: touch the claim, or make one.
Claim(p, g) ==
    /\ publisher[p].at = "idle"
    /\ run' = [run EXCEPT ![g] = IF @.task THEN [@ EXCEPT !.fresh = TRUE] ELSE Claimed]
    /\ publisher' = [publisher EXCEPT ![p] = [at |-> "publish", gen |-> g]]
    /\ UNCHANGED <<attempt, projected, outcome, broker, worker, faults>>

\* A request, or its replay, dispatches the delivery it claimed.
UserDispatch(g) == (FreshClaim(g) \/ Retryable(g)) /\ Claim("user", g)

\* The periodic scan reclaims a retryable delivery of the latest generation.
ScanDispatch(g) == g = Latest /\ Retryable(g) /\ Claim("scan", g)

Publish(p) ==
    /\ publisher[p].at = "publish"
    /\ broker' = broker \cup {publisher[p].gen}
    /\ publisher' = [publisher EXCEPT ![p].at = "sent"]
    /\ UNCHANGED <<run, attempt, projected, outcome, worker, faults>>

\* The broker call fails; the delivery may have been accepted all the same.
PublishFails(p) ==
    /\ publisher[p].at = "publish"
    /\ Fault
    /\ broker' \in {broker, broker \cup {publisher[p].gen}}
    /\ publisher' = [publisher EXCEPT ![p].at = "failed"]
    /\ UNCHANGED <<run, attempt, projected, outcome, worker>>

\* Mutant: the publisher forgets that a worker may have been admitted since.
MarkedBlindly(r, sent) ==
    IF sent THEN [status |-> "queued", task |-> TRUE, fresh |-> TRUE]
    ELSE [status |-> "enqueue_failed", task |-> FALSE, fresh |-> TRUE]

\* What the publisher writes over a run nobody else has moved since its claim.
Marked(r, sent) ==
    IF r.status # "dispatch_pending" THEN r
    ELSE IF sent THEN [status |-> "queued", task |-> TRUE, fresh |-> TRUE]
    ELSE [status |-> "enqueue_failed", task |-> FALSE, fresh |-> TRUE]

Mark(p) ==
    /\ publisher[p].at \in {"sent", "failed"}
    /\ run' = [run EXCEPT ![publisher[p].gen] = Marked(@, publisher[p].at = "sent")]
    /\ publisher' = [publisher EXCEPT ![p] = IdlePublisher]
    /\ UNCHANGED <<attempt, projected, outcome, broker, worker, faults>>

PublisherLost(p) ==
    /\ publisher[p].at # "idle"
    /\ Fault
    /\ publisher' = [publisher EXCEPT ![p] = IdlePublisher]
    /\ UNCHANGED <<run, attempt, projected, outcome, broker, worker>>

-----------------------------------------------------------------------------
(* Delivery *)

Rows == <<run, attempt, projected, outcome>>

Go(w, stage) == worker' = [worker EXCEPT ![w].at = stage, ![w].fenced = FALSE]
Ack(w) == worker' = [worker EXCEPT ![w] = IdleWorker]

\* An error becomes a Celery retry of the same delivery, or the last of its
\* retries is spent and the delivery is gone.
Raise(w) ==
    /\ Ack(w)
    /\ broker' \in {broker, broker \cup {worker[w].gen}}

Taken(w, g, stage) ==
    /\ worker[w].at = "idle"
    /\ g \in broker
    /\ broker' = broker \ {g}
    /\ worker' = [worker EXCEPT ![w] = [IdleWorker EXCEPT !.at = stage, !.gen = g]]

Admissible(g) == g = Latest /\ run[g].task

\* A finalized generation only replays its receipt.
AdmitFinalized(w, g) ==
    /\ Admissible(g) /\ Finalized(g)
    /\ Taken(w, g, "finalize")
    /\ UNCHANGED <<Rows, publisher, faults>>

Admit(w, g) ==
    /\ Admissible(g) /\ ~Finalized(g)
    /\ run[g].status \in {"dispatch_pending", "queued"}
    /\ Taken(w, g, "load")
    /\ run' = [run EXCEPT ![g] =
                  IF @.status = "queued" THEN @
                  ELSE [status |-> "queued", task |-> TRUE, fresh |-> TRUE]]
    /\ UNCHANGED <<attempt, projected, outcome, publisher, faults>>

\* A stale delivery is acknowledged and has no effect.
RejectDelivery(w, g) ==
    /\ \/ ~Admissible(g)
       \/ ~Finalized(g) /\ run[g].status \notin {"dispatch_pending", "queued"}
    /\ worker[w].at = "idle"
    /\ g \in broker
    /\ broker' = broker \ {g}
    /\ UNCHANGED <<Rows, worker, publisher, faults>>

-----------------------------------------------------------------------------
(* One execution of an attempt *)

\* Where a freshly read attempt sends the worker.
Recover(a) ==
    CASE a.status = "reserved"  -> "fence"
      [] a.status = "uncertain" -> IF a.mode = "metered" THEN "compile" ELSE "reopen"
      [] a.status = "accepted"  -> "persist"
      [] a.status = "persisted" -> "sufficiency"
      [] OTHER                  -> "idle"

\* A worker that lost the fence recovers, but dispatches nothing.
RecoverRaced(a) ==
    CASE a.status = "uncertain" -> IF a.mode = "metered" THEN "raise" ELSE "reopen_raced"
      [] a.status = "reserved"  -> "raise"
      [] OTHER                  -> Recover(a)

Proceed(w, stage) ==
    CASE stage = "raise" -> Raise(w)
      [] stage = "idle"  -> Ack(w) /\ UNCHANGED broker
      [] OTHER           -> Go(w, stage) /\ UNCHANGED broker

Load(w) ==
    /\ worker[w].at = "load"
    /\ LET g == worker[w].gen
       IN Proceed(w, IF Current(g) THEN Recover(attempt[g]) ELSE "raise")
    /\ UNCHANGED <<Rows, publisher, faults>>

\* A no-inference fence is reopened once its run deadline has passed.
Reopenable(a) == a.status = "uncertain" /\ a.mode = "none"
Reopened(a) == [a EXCEPT !.status = "reserved", !.fresh = FALSE]

Reopen(w) ==
    LET g == worker[w].gen
        a == attempt[g]
        open == a.status = "reserved" \/ (Reopenable(a) /\ ~a.fresh)
    IN /\ worker[w].at \in {"reopen", "reopen_raced"}
       /\ attempt' = IF Current(g) /\ Reopenable(a) /\ ~a.fresh
                     THEN [attempt EXCEPT ![g] = Reopened(a)] ELSE attempt
       /\ Proceed(w, IF Current(g) /\ open /\ worker[w].at = "reopen" THEN "fence"
                     ELSE IF Current(g) /\ Reopenable(a) /\ a.fresh THEN "idle"
                     ELSE "raise")
       /\ UNCHANGED <<run, projected, outcome, publisher, faults>>

\* The one-shot dispatch fence.
Fence(w) ==
    LET g == worker[w].gen
        won == Current(g) /\ attempt[g].status = "reserved"
    IN /\ worker[w].at = "fence"
       /\ attempt' = IF won
                     THEN [attempt EXCEPT ![g].status = "uncertain", ![g].fresh = TRUE]
                     ELSE attempt
       /\ \/ /\ won
             /\ worker' = [worker EXCEPT ![w].at = "compile", ![w].fenced = TRUE]
             /\ UNCHANGED broker
          \/ ~won /\ Proceed(w, IF Current(g) THEN "raced" ELSE "raise")
       /\ UNCHANGED <<run, projected, outcome, publisher, faults>>

Raced(w) ==
    /\ worker[w].at = "raced"
    /\ LET g == worker[w].gen
       IN Proceed(w, IF Current(g) THEN RecoverRaced(attempt[g]) ELSE "raise")
    /\ UNCHANGED <<Rows, publisher, faults>>

\* An error between the fence and the recorded result.
AfterFailure(w) ==
    IF attempt[worker[w].gen].mode = "none" THEN "release"
    ELSE IF worker[w].fenced THEN "idle" ELSE "reread"

\* Mutant: any attempt that was dispatched takes a result.
RecordableAgain(g) == Current(g) /\ attempt[g].status # "persisted"

\* The provider outcome is recordable; documents and model were open to an
\* uncertain attempt only.
Recordable(g) == Current(g) /\ attempt[g].status = "uncertain"

\* The runtime's answer, recorded once.
Compile(w) ==
    LET g == worker[w].gen
    IN /\ worker[w].at = "compile"
       /\ Recordable(g)
       /\ \E r \in Results :
             /\ attempt' = [attempt EXCEPT
                   ![g].status = IF r = "invalid" THEN "invalid" ELSE "accepted",
                   ![g].result = r, ![g].fresh = FALSE]
             /\ Proceed(w, IF r = "invalid" THEN "idle" ELSE "persist")
       /\ UNCHANGED <<run, projected, outcome, publisher, faults>>

CompileRefused(w) ==
    /\ worker[w].at = "compile"
    /\ ~Recordable(worker[w].gen)
    /\ Proceed(w, AfterFailure(w))
    /\ UNCHANGED <<Rows, publisher, faults>>

\* A failed run without inference reopens the fence, whoever holds it, and retries.
Released(g) ==
    IF Current(g) /\ Reopenable(attempt[g])
    THEN [attempt EXCEPT ![g] = Reopened(@)] ELSE attempt

Release(w) ==
    /\ worker[w].at = "release"
    /\ attempt' = Released(worker[w].gen)
    /\ Raise(w)
    /\ UNCHANGED <<run, projected, outcome, publisher, faults>>

\* A failed resumed run reports the attempt as it now stands.
Reread(w) ==
    /\ worker[w].at = "reread"
    /\ LET g == worker[w].gen
       IN Proceed(w, IF ~Current(g) THEN "raise"
                     ELSE IF attempt[g].status = "persisted" THEN "sufficiency"
                     ELSE "idle")
    /\ UNCHANGED <<Rows, publisher, faults>>

\* The compilation is inserted behind the exact predecessor it was requested for.
Persist(w) ==
    LET g == worker[w].gen
        fits == attempt[g].status = "accepted" /\ Tip = g - 1
    IN /\ worker[w].at = "persist"
       /\ attempt' = IF Current(g) /\ fits
                     THEN [attempt EXCEPT ![g].status = "persisted"] ELSE attempt
       /\ Proceed(w, IF Current(g) /\ (fits \/ attempt[g].status = "persisted")
                     THEN "sufficiency" ELSE "raise")
       /\ UNCHANGED <<run, projected, outcome, publisher, faults>>

\* A projection that finds the setup moved looks for an existing finalization.
Overtaken(g) == IF Finalized(g) THEN "finalize" ELSE "raise"

\* _preflight, before any lock: the attempt is persisted, and for a policy the
\* result is no blocked guide and its draft passes _policy_body.  A refusal
\* (component_forbidden, component_unprojectable) is raised on every delivery.
Preflight(g, component) ==
    /\ attempt[g].status = "persisted"
    /\ component = "policy" => attempt[g].result = "ready"

Projects(w, component, ok, then) ==
    LET g == worker[w].gen
        done == Preflight(g, component) /\ SourceShape(g) /\ ok
    IN /\ worker[w].at = component
       /\ projected' = IF done THEN [projected EXCEPT ![g] = @ \cup {component}]
                       ELSE projected
       /\ Proceed(w, IF ~Preflight(g, component) THEN "raise"
                     ELSE IF done THEN then ELSE Overtaken(g))
       /\ UNCHANGED <<run, attempt, outcome, publisher, faults>>

Sufficiency(w) ==
    Projects(w, "sufficiency", TRUE,
             IF attempt[worker[w].gen].result = "blocked" THEN "finalize" ELSE "policy")

Policy(w) == Projects(w, "policy", "sufficiency" \in projected[worker[w].gen], "finalize")

\* The exact projection set the result calls for is there.
Complete(g) == attempt[g].status = "persisted" /\ projected[g] = Needed(g)

Finalize(w) ==
    LET g == worker[w].gen
        closes == SourceShape(g) /\ ~Finalized(g) /\ Complete(g) /\ Tip = g
    IN /\ worker[w].at = "finalize"
       /\ outcome' = IF closes THEN [outcome EXCEPT ![g] = OutcomeOf(g)] ELSE outcome
       /\ run' = IF closes
                 THEN [run EXCEPT ![g].status = OutcomeOf(g), ![g].fresh = FALSE]
                 ELSE run
       /\ Proceed(w, IF closes \/ (g = Latest /\ Finalized(g)) THEN "idle" ELSE "raise")
       /\ UNCHANGED <<attempt, projected, publisher, faults>>

-----------------------------------------------------------------------------
(* Faults of a worker, and clocks *)

\* Where a failing step leads; a resumed run may fail before its runtime exists.
Failure(w) ==
    IF worker[w].at # "compile" THEN {"raise"}
    ELSE IF worker[w].fenced THEN {AfterFailure(w)} ELSE {AfterFailure(w), "raise"}

\* Storage, authority or a provider fails a step.
Unavailable(w) ==
    /\ worker[w].at # "idle"
    /\ Fault
    /\ \E stage \in Failure(w) : Proceed(w, stage)
    /\ UNCHANGED <<Rows, publisher>>

\* The process dies and the broker redelivers (reject_on_worker_lost).
WorkerLost(w) ==
    /\ worker[w].at # "idle"
    /\ Fault
    /\ broker' = broker \cup {worker[w].gen}
    /\ Ack(w)
    /\ UNCHANGED <<Rows, publisher>>

\* The hard limit kills the task, which is acknowledged (acks_on_failure_or_timeout).
TimeLimit(w) ==
    /\ worker[w].at # "idle"
    /\ Fault
    /\ Ack(w)
    /\ UNCHANGED <<Rows, broker, publisher>>

\* Cancellation reopens a no-inference fence before it propagates.
Cancel(w) ==
    /\ worker[w].at = "compile"
    /\ Fault
    /\ attempt' = Released(worker[w].gen)
    /\ Ack(w)
    /\ UNCHANGED <<run, projected, outcome, broker, publisher>>

\* The 60 s dispatch cutoff passes, where a claim or a delivery is looked at.
Age(g) ==
    /\ run[g].fresh /\ run[g].status \in {"dispatch_pending", "queued"}
    /\ run' = [run EXCEPT ![g].fresh = FALSE]
    /\ UNCHANGED <<attempt, projected, outcome, broker, worker, publisher, faults>>

\* The run deadline of a no-inference fence passes; to outlive it is a fault.
AgeFence(g) ==
    /\ Reopenable(attempt[g]) /\ attempt[g].fresh
    /\ attempt' = [attempt EXCEPT ![g].fresh = FALSE]
    /\ IF \E w \in Workers : worker[w].gen = g /\ worker[w].at = "compile"
       THEN Fault ELSE UNCHANGED faults
    /\ UNCHANGED <<run, projected, outcome, broker, worker, publisher>>

Step(w) ==
    \/ Load(w) \/ Reopen(w) \/ Fence(w) \/ Raced(w) \/ Compile(w)
    \/ CompileRefused(w) \/ Release(w) \/ Reread(w) \/ Persist(w)
    \/ Sufficiency(w) \/ Policy(w) \/ Finalize(w)

Deliver(g) ==
    \E w \in Workers : AdmitFinalized(w, g) \/ Admit(w, g) \/ RejectDelivery(w, g)

Next ==
    \/ \E m \in Modes : RequestInitial(m)
    \/ \E g \in Gens : RequestCorrection(g) \/ Correct(g) \/ UserDispatch(g)
                       \/ ScanDispatch(g) \/ Deliver(g) \/ Age(g) \/ AgeFence(g)
    \/ \E p \in Publishers : Publish(p) \/ PublishFails(p) \/ Mark(p) \/ PublisherLost(p)
    \/ \E w \in Workers : Step(w) \/ Unavailable(w) \/ WorkerLost(w) \/ TimeLimit(w)
                          \/ Cancel(w)

Spec == Init /\ [][Next]_vars

\* The broker delivers, workers and publishers go on, the scan and the clocks
\* run; managers owe nothing and faults owe nothing.
Fairness ==
    /\ WF_vars(\E g \in Gens : ScanDispatch(g))
    /\ WF_vars(\E g \in Gens : Deliver(g))
    /\ WF_vars(\E g \in Gens : Age(g))
    /\ WF_vars(\E g \in Gens : AgeFence(g))
    /\ \A p \in Publishers : WF_vars(Publish(p) \/ Mark(p))
    /\ \A w \in Workers : WF_vars(Step(w))

FairSpec == Spec /\ Fairness

-----------------------------------------------------------------------------
(* Properties *)

\* A finalization rests on complete evidence, and a generation exists only
\* behind a finalized predecessor: the attempt is persisted, the projections
\* are exactly those its result calls for, the result is one whose draft the
\* submission-policy defaults take, and the run's status, the receipt and the
\* result agree, whichever deliveries raced to close it.
FinalizedFromEvidence ==
    \A g \in Gens :
        /\ Finalized(g) => /\ Complete(g)
                           /\ attempt[g].result \in {"blocked", "ready"}
                           /\ run[g].status = outcome[g]
                           /\ outcome[g] = OutcomeOf(g)
        /\ g > 1 /\ run[g].status # "absent" => Finalized(g - 1)

\* A publisher that wakes up late never takes the run away from a worker that
\* was admitted: past admission the run stays queued under its task identity
\* until it is finalized.
AdmittedKeepsRun ==
    \A w \in Workers :
        worker[w].at # "idle" =>
            LET g == worker[w].gen
            IN Finalized(g) \/ (run[g].status = "queued" /\ run[g].task)

\* What an attempt may become of itself, by any interleaving of deliveries:
\* an accepted result is never replaced, a terminal attempt never moves, an
\* inference fence is one-way, and neither a projection nor a finalization
\* is ever taken back.
EvidenceStands ==
    [][\A g \in Gens :
         /\ attempt[g].status \in {"accepted", "invalid", "persisted"} =>
               attempt'[g].result = attempt[g].result
         /\ attempt[g].status = "accepted" =>
               attempt'[g].status \in {"accepted", "persisted"}
         /\ attempt[g].status \in {"invalid", "persisted"} =>
               attempt'[g].status = attempt[g].status
         /\ attempt[g].status = "uncertain" /\ attempt[g].mode = "metered" =>
               attempt'[g].status \in {"uncertain", "accepted", "invalid"}
         /\ projected[g] \subseteq projected'[g]
         /\ Finalized(g) => outcome'[g] = outcome[g]]_vars

\* A requested compilation is never stranded, whatever is lost on the way: a
\* reserved attempt is dispatched, a no-inference fence that a dead worker left
\* behind is reopened, and an accepted result is finalized unless its policy
\* draft is one no delivery can project.
NeverStranded ==
    LET tip == attempt[Latest]
    IN /\ (tip.status = "reserved") ~> (tip.status # "reserved")
       /\ Reopenable(tip) ~> ~Reopenable(tip)
       /\ (tip.status = "accepted" /\ tip.result # "unprojectable") ~> Finalized(Latest)
=============================================================================
