# Workstream backend: verification project

TLA+ models of the Workstream backend (`backend/app`, Python and PostgreSQL
triggers), TLC runs over small instances and TLAPS proofs. Paths below are
relative to the repository root, or to `backend/app` where that is plain.

## 1. The system

Workstream turns project guides into tasks, lets contributors claim a task and
submit work, runs checkers on it, returns it for revision or accepts it, and
records contributions and awards. Everything is a PostgreSQL row guarded by
triggers; the processes are HTTP requests, Celery workers and a beat scheduler.
Modules talk to each other inside one transaction (ports and participants) or
through the shared outbox (an event is appended in the producer's transaction
and delivered later to a handler).

| Component | State | Operations | What is hard | What makes it correct |
|---|---|---|---|---|
| Outbox (`modules/outbox`, `workers/outbox.py`) | `outbox_events`, `outbox_delivery_attempts` | append, scan, claim, begin, invoke, fence, finalize, recover | concurrent workers, duplicated and lost messages, crashes, leases that lapse under a running handler, deferred triggers | one custody at a time; no uncertain effect is repeated; effects are fenced; every event settles |
| Tasks (`modules/tasks`) | task, assignments, submissions, routing manifests, revision preparations, receipts | screen, release, claim, submit, route, repair, expire, exhaust, revoke, recover | deadlines read at insert and at commit, timers for windows that moved, rounds counted in three places, policy lineage rebased under an attempt | a window has exactly its length; a decision is final and names its cause; no task is stranded |
| Checkers (`modules/checkers`) | runs, the submission fence, leases, retry and reconciliation receipts | dispatch, claim, execute, finalize, route, retry, reconcile | an external checker between two transactions, deliveries of unknown outcome, late executors, timeouts shorter than the work | one verdict; the external checker starts once per run; nothing is lost silently |
| Reviews (`modules/reviews`) | lifecycle fence, review packets | open, drain, decide | fence generations read before use | no new effect once the lifecycle is not live |
| Contributions, compensation | policies, contribution records, awards | publish, accept, award | acceptance composed from several participants | one contribution and one award set per acceptance |
| Model usage (`modules/model_usage`, model proxy, setup handler) | effects, budget account, grants | provision, prepare, reserve, dispatch, mark uncertain, recover, complete, settle | a call that may be billed although its answer was lost, two requests on one attempt, a limit lowered under live reservations | the account equals the ledger; no effect is sent twice; the bill stays within the limit |
| Artifacts (`modules/artifacts`) | put attempts, charges and scopes, replicas, verification jobs, recoveries | admit, put, observe, verify, recover, scan | storage and database fail separately, leases shorter than a put, charges shared between attempts | counters are exact; a settled row and a quarantine stay; whatever is ambiguous is resolved |
| Projects and guides (`modules/projects`) | setup runs, compilation attempts, projections, finalizations; guides, policies, activations | request, correct, dispatch, admit, fence, compile, project, finalize; approve, activate | copies of one delivery, a broker call whose outcome is unknown, fences left by dead workers | a finalization rests on complete evidence; a result is never replaced; no compilation is stranded |
| Authorization | facts, decisions | prepare, consume, invalidate | authority revoked between decision and use | a decision is consumed for the facts it was made on |
| API controls | rate windows | admit | concurrent requests at the limit | the window limit is not passed |
| Actors, audit | identities, append-only log | record | none of their own | |
| Rust checker service, Go CLI, MCP server, deployment | | | separate programs | |

The hazards of the modelled parts, each at its line and with the properties
that cover it, are in `PROJECT.json`.

## 2. Modules

| Module | Models |
|---|---|
| `OutboxDelivery` | concurrent delivery of outbox events: `delivery.py`, `delivery_repository.py`, the Celery tasks, the triggers on the two tables |
| `OutboxContract` | what the outbox promises a feature, without workers, leases or clocks |
| `TaskRevision` | one task from draft to acceptance, with its assignments, attempts, revision windows and timers |
| `CheckerExecution` | the post-submit evaluation of one submission: runs, executor, Operator retry, reconciliation, over what `OutboxContract` promises |
| `ModelUsage` | paid model calls: budget account and effect ledger, driven by checker and setup requests against a billing provider |
| `ArtifactCustody` | quota admission, put, observation, verification and recovery of immutable artifacts |
| `GuideCompilation` | the compilation of one guide: generations, dispatch and scan, fenced execution, projection, finalization |
| `MC...` | constants and state constraints for TLC |
| `..._proofs` | the theorems of the module they are named after; the refinement of `OutboxContract` is in `OutboxDelivery_proofs` |
| `Sums_proofs` | sums over finite sets of rows: what one changed row does to them |

How they fit together: `TaskRevision` consumes timers and completions that the
outbox delivers; `CheckerExecution` uses the outbox as `OutboxContract` states
it (which `OutboxDelivery` is proved to implement) and its routing step is the
one `TaskRevision` starts from; the external checker of `CheckerExecution` and
the metered compile step of `GuideCompilation` make the calls `ModelUsage`
accounts for; guide documents and submission bundles are attempts of
`ArtifactCustody`.

Operators introduced by a comment `Mutant:` are deliberately wrong variants of
the definition that follows them. No specification uses them; each shows that
some property would notice that fault.

### OutboxDelivery

`event` and `attempt` are the two tables, `work` the program counter and local
variables of each `deliver_event` execution, `queue` the broker, `handler` and
`effects` the feature's own transaction, `verdict` and `calls` history. An
execution recovers an expired claim or else claims the event, marks the
invocation, calls the handler without locks and finalizes.

* Unlocked reads (`claim`, `finalize`) are steps of their own: what they
  propose may be stale when the lock is taken.
* A locked transaction is two steps, checks passed and commit. The locks freeze
  the rows, not the clock, so a lease can lapse in between.
* The handler's transaction is fence, then commit or failure; it can outlive the
  call that started it (timeout) and the claim.
* `WorkerLost`, `MessageLost` and `Unavailable` are a crash, a lost broker
  message and a failed transaction or refused authorization; together at most
  `MaxFaults` of them. Duplicated messages need no fault: the scan makes them.
* `FinalizeRefused` is the deferred trigger that refuses at commit.

Left out: payloads, digests and signatures (equality of the claim stands for
them), per-type delivery options (one set of limits), the page limit and cursor
of the scan. Celery's bounded retries of a raised error are the message going
back to the queue (`Raise`).

### TaskRevision

Every operation on a task locks its row first, so they are serial. What
interleaves is the clock, timers of preparations that have been replaced, and
guide activations of the project.

* `submission` holds each attempt with its checker result and routing manifest;
  `head` and `preparation` the chain of revision preparations of each returned
  attempt; `timer` the expiry event of each preparation whose clock runs.
* Submission and repair are two steps because the insert trigger and the
  deferred commit trigger read the clock at different instants; in between,
  `txn` holds the task row and the project row, so only `Tick` and a rollback
  can happen. Routing is one step: its transaction is bounded by the handler
  timeout (seconds) while a window is measured in hours.
* A second delivery of a completion replays its manifest and changes nothing,
  so it is a stutter. A second delivery of a timer is modelled: `ExpireWindow`
  may leave its timer pending.
* A guide stands for the frozen policy context of a project guide version: its
  rounds, its hours, whether it requires human review. `NoGuide` is a project
  whose active context does not resolve.
* A result is passed, failed, or a coverage gap without a failure. A coverage
  gap spends no round and keeps the window of the coverage return before it.
* `review_pending` is a rest state: no caller of the review decision exists in
  the application yet.

Left out: recovery of retained rows (`revision/recovery.py`,
`exhaustion_recovery.py`), which repairs rows written before the triggers
existed; evaluation generations after a terminal checker retry; batch imports
and transitions; command replay receipts; authorization refusals (they change
nothing).

### CheckerExecution

`run` and `fence` are the checker tables, `delivery` the outbox custody of each
request and completion event (an original and at most one reconciliation child),
`handler` the call working on it, `executions` a history of external starts.

* Time is the age of claims, leases and stages, so no clock has to be bounded.
  A handler whose delivery is given up goes on as a late call.
* `select`, `execute`, `finalize` are steps with a possible crash or failure
  between them; claim and finalize are fenced by generation and lease.
* Whether routing or the release controller's deferral answers a completion is
  left open: the review policy and the lifecycle decide it elsewhere.

Left out: request-key receipts (a replay changes nothing), member results and
findings, discovery pages, the PRE-submit execution. A run is leased once, so
only lease generation 1 occurs. A child's observation of the call and its
classification are one step (`Reclassify`): the row is read again under its lock.
`TaskRevision` takes the completed result of this module as `Evaluate`, at any
time.

### ModelUsage

`effect` is the ledger by slot and attempt, `account` the counters the triggers
maintain, `bound` the grant's calls, `handler` each proxy request, `provider` and
`answered` what the outside world knows. A request prepares, reserves, sends,
stores the response and completes, in one transaction per step, and may stop
after any of them. One immutable profile priced at one unit per token, so the
profile's ceilings are the single `RunCeiling`; the project limit may be lowered
by a new configuration at any time. A recovery may be prepared whenever its
predecessor's effect allows it; `require_recovery_current` asks more, so the model
has more behaviours. `RowTriggerAdmits` is the trigger's row check; its envelope
check is the invariant `EnvelopesWithinLimits`.

### ArtifactCustody

Each claim leaves an executor in `work`, which asks the provider, keeps what it
heard and records it under the fence of its own claim, while leases lapse and
other executors claim the same row. A put may land at the provider long after
its lease; `Damage` is the provider losing or altering an object. Charges belong
to a scope and a content, as in the schema, so attempts share them.

Left out: a change of the configured quota limit between two admissions (a
constant here), scratch preparation and archive inspection, the storage namespace and
its proof, replica identity mismatch, derivation of an admission's lineage,
reads and presigned access. Row locks are taken by whole transactions here; the
order in which the code takes them is not modelled (see section 5).

### GuideCompilation

`run`, `attempt`, `projected` and `outcome` are the rows of each setup
generation, `broker` the generations with a waiting delivery (copies of one
delivery are indistinguishable: they carry one task identity), `worker` and
`publisher` the processes.

* A worker is admitted, loads, passes the dispatch fence or recovers what
  another left, compiles, persists, projects and finalizes: one step for each
  transaction. `Raise` is an error that Celery retries, or whose retries are
  spent and whose delivery is gone.
* The 60 s dispatch cutoff and the run deadline are flags that a clock step
  clears. That a compiling worker outlives its own deadline counts as a fault.
* The result of a compilation is chosen when it is recorded; until then it
  concerns nobody but the worker. Acceptance validates the envelope, not the
  submission-policy defaults, so an accepted result blocks the guide, is ready,
  or is "unprojectable": persisted, but refused by the preflight of its policy
  projection on every delivery. `Preflight` stands before the locks, as in the
  code; an error it raises never looks for an existing finalization.

Left out: availability of documents, authorization and guide approval (a
refusal is `Unavailable`), and the wrong-task-identity branch, which the
deterministic identity excludes.

## 3. Runs

| Run | Instance | States, time | Shows |
|---|---|---|---|
| `outbox_custody` | 2 workers, 2 attempts, lease 2, timeout 1; an event that is not replay safe with 1 fault, or a replay-safe one that the trigger does not admit | 490 k, 1:40 | custody (`IInv`), no blind repeat, effects at most once and fenced, receipts final, refinement of `OutboxContract` |
| `outbox_settles` | 1 worker, replay safe, 1 fault, fairness | 132 k | an appended event is eventually acknowledged or dead lettered |
| `outbox_unknown_retry` | 1 worker, replay safe but not admitted by the trigger | | violation, see section 5 |
| `task_revision_window` | 1 contributor, 2 attempts, 3 preparations each, clock 0..3, fairness | 819 k, 2:40 | the task's invariant (`RevisionInv`), windows are exact through pause, resume, rebase and inheritance; late commits are refused; overdue windows close |
| `task_reclaim` | 2 contributors in turn, 3 attempts, human review under one guide, repeated timers | | custody matches decisions, rounds count per assignment, open windows are usable, results are routable, decisions are final |
| `model_usage` | 2 requests, 1 checker and 1 setup slot, 2 attempts, 2 runs, a limit lowered from 4 to 3 with 3 spent before | 1.56 M | the ledger's invariant (`LedgerInv`), the account equals the ledger, the bill stays within the limit, one effect at a time, answers agree, the triggers admit every write |
| `checker_retry` | 2 generations, crashes and failures at every stage, one retry, one child per event | 1.6 M, 2:30 | the evaluation's invariant (`EvaluationInv`), one verdict, one external start per run, no false acknowledgement, nothing lost silently |
| `checker_delivery` | 1 generation, 2 delivery attempts, both review modes, fairness | | a request delivery is long enough for its executor; every evaluation comes to rest |
| `checker_child_budget` | production limits in minutes, budget 3 | | violation, see section 5 |
| `artifact_custody` | 2 attempts on one content, a third on another that does not fit beside it, 1 fault, 1 recovery, fairness | 375 k, 2:10 | counters exact, settled rows and quarantine stay, ambiguity resolves |
| `artifact_shared_charge` | 2 attempts on one content | | violation, see section 5 |
| `guide_compilation` | 2 workers, 2 publishers, 2 generations, 1 fault, fairness | 121 k, 1:50 | evidence behind every finalization, none of an unprojectable draft; a late publisher harms nobody, results stand, nothing projectable is stranded |

Two runs restrict their states. `OneEvent` (`outbox_custody`) keeps a behaviour
to one event, since events share no row, and leaves open which; the event that
is not replay safe has the fault and both workers, the other one worker. It is
there for the commits that the trigger refuses. `FirstGenerationRaces`
(`guide_compilation`) gives the fault and the races to the first generation;
the second one meets the deliveries and publishers left over from the first.
Its safety properties also hold without the constraint (1.0 million states);
the leads-to properties on that graph take longer than a routine run should. A constraint cuts
behaviours only where the correction exists, so the leads-to properties are
checked in full for the first generation.

Bounds. Two workers and two attempts are enough for a claim, its recovery by
another worker and a second generation whose first call is still running; lease
2 and timeout 1 are the smallest values with the timeout strictly inside the
lease. Workers are symmetric; the symmetry set is used only for safety. The two
guides are a strict one (no revision round, one hour) and a lenient one (one
round, two hours): moving between them, and to none, pauses, resumes and rebases
a window. Three preparations are a pause and its resumption after the root;
two attempts of one assignment are a coverage return and the one that inherits
its window; three attempts are an expired or exhausted assignment followed by a
reclaim with a revision. The clock of `TaskRevision` moves only while a window
is open or can be inherited (`ClockMatters`), and guides change only where the
code reads the active guide. `MaxTime` 3 covers a two-hour window with a pause.

For the others: two attempts, generations or requests are the smallest number
in which one overtakes another, one fault is one lost answer, message or process
anywhere, and the limits admit one call or content fewer than is asked for.

Deadlock is not checked where the system comes to rest: a settled outbox, an
accepted task, an exhausted budget, settled artifacts, a finalized guide. The
checker runs do check it: `Tick` is always possible there.

Fairness. For the outbox: beat enqueues the scan every 60 seconds
(`backend/app/workers/celery_app.py`), workers keep taking messages and finish the step they
are in, a fenced feature transaction ends (its hard limit), the clock moves. A
lost message or worker is not prevented, only bounded by `MaxFaults`. For the
task: due timers are delivered (the outbox property, of which a dead letter is
the explicit exception) and an open transaction ends. Nothing makes contributors
submit, managers repair or checkers answer. Checker deliveries: time passes and a
handler that can go on goes on; crashes, Operators and the release controller owe
nothing. Artifacts: the scanner claims what is due, leases run out, provider
calls end or time out, an executor records what it heard; callers, operators,
crashes and late landings owe nothing. Guides: the scan runs, the broker
delivers, clocks advance, publishers and workers take their next step; managers
and faults owe nothing.

## 4. Proofs

For any set of events and workers, any registered and replay-safe sets, any
attempt budget, lease, timeout and backoff satisfying `OptionsAssumption` and
`EventsAssumption` (the positive limits `DeliveryOptions` validates):

* `Inductive`: `Spec => []IInv`. The properties are not inductive. A worker acts
  on a private copy of a claim and on outcomes computed before it locked, so
  `IInv` adds to the types what the rows alone cannot say: how an event row and
  its attempts agree in each state (`RowsInv`), what the history of each
  generation may be (`HistoryInv`), what a worker at each place knows about the
  rows it will write (`WorkerInv`), and that no two lock holders, finalizer or
  fenced handler, share an event (`LockInv`). There is one lemma per action and
  conjunct group.
* From it: `TypeCorrect`, `CustodyAgrees`, `CalledOnce`, `NeverBlindlyRepeated`,
  `EffectsOnce`, `OnlyHandlersAcknowledge` and the action properties
  `EffectsFenced` and `NothingReopens`.
* `Implements`: every step is a step of `OutboxContract` or a stutter, with
  custody, answers and effects read off the rows.
* `ContractDoneOnce`: the contract alone gives at most one committed effect for
  a feature that is not replay safe.

For artifact custody, for any attempts, contents, scopes, sizes and limits that
satisfy the module's assumptions:

* `CustodyInvariant`: `Spec => []CustodyInv`. `SettledForever` is not inductive.
  A completing put creates a verification job, and it must be shown that it
  never overwrites a settled one: `JobsFollowConfirmation` says that a job exists
  only behind a confirmed attempt, which no put can complete again. A lapsing
  lease writes to its row, and `LeasesAreClaims` says that only claimed rows,
  never settled ones, carry a lease. `Shapes` types the rows and executors, and
  `WithinLimit` bounds every scope's counter.
* From it: `LimitNeverExceeded`, `SettledHolds` and `QuarantineNeverLifted`.
* `QuotaHolds` (`QuotaExact`): `ChargesInv` adds to `CustodyInv` that every
  counter is the sum of the sizes charged to its scope, and a step that charges
  or releases one content moves the sum by that size (`Sums_proofs`).

For model usage, for any slots, attempts, runs, requests, prices and limits that
satisfy the module's assumptions:

* `LedgerInvariant`: `Spec => []LedgerInv`. The bill is what the provider did and
  the account what the database knows, so `RowOK` says for each row what the
  provider can have done in its state, `HandlerOK` what a request relies on
  between its transactions, and `OneSender` that the request that reserved an
  effect is the only one that may send it. `Conservation`, the account's limit
  and the run's envelopes are part of the induction: a reservation is admitted
  on the account, and only because the account equals the ledger does this bound
  what the provider can bill.
* From it: `LedgerTyped`, `AccountConserved`, `EnvelopesKept`, `BillCovered`,
  `OneEffectAtATime`, `OneAnswer`, and the action property `TriggersAgree`.

For checker execution, for any number of generations and delivery attempts and
any times that satisfy `TimingAssumption`:

* `EvaluationInvariant`: `Spec => []EvaluationInv`. A call may be given up by the
  outbox, go on, and meet a reconciliation child of its own event. `RunOK` says
  which generations are open and that a run is leased once; `CustodyOK` ties the
  custody of an event to the row it announces and to the answer it was closed
  with; `CallOK` says what a call knows at each stage, above all that a child
  which still may start the checker has an original that no longer can;
  `TimelyOK` bounds the age of a delivery by the stage of a punctual call.
* From it: `SubmissionHasOneVerdict`, `CheckerStartsOnce`,
  `AcknowledgementsAreTrue`, `NoSilentLoss` and `RequestHasTime`. The last one
  is the arithmetic of prelude, budget, margin and timeout for all values.

For guide compilation, for any workers, publishers, generations and faults:

* `EvidenceInvariant`: `Spec => []EvidenceInv`, where `UnrequestedIsEmpty` keeps
  a late publisher's row from touching a generation that has an attempt, and
  `AdmittedKeepsRun` carries what a worker was admitted with through the steps
  of the others. `PolicyFromReady` remembers which result a policy was projected
  from, so that a complete set of projections rules out an unprojectable draft.
* From it: `FinalizationHasEvidence`, `AdmittedRunStays` and the action property
  `EvidenceNeverWithdrawn`.

For the task, for any contributors, guides, policies, number of assignments,
attempts and preparations, and any clock:

* `RevisionInvariant`: `Spec => []RevisionInv`. The properties speak of past
  decisions, the steps of the task's present, so the invariant ties the two
  together. `CustodyOK`: the last assignment carries the task, all before it
  were released. `LatestOK`: the latest attempt has the task's status and its
  head the round that a recount gives. `AttemptOK`, `OwnerOK`: which reasons and
  preparations a status implies, and that a rejection is the last attempt of its
  assignment. `ChainOK`: a preparation runs to a deadline or keeps its time left,
  and only running ones have a timer. `TxnOK`: what an open submission or repair
  has checked and the locks keep, although the clock moves on.
* `WindowExact` needs more than its own statement. A paused interval is counted
  once only because the links of a chain, and the chains of a run of coverage
  returns, were observed in order (`ObservedLast`); the end of the window then
  moves by the length of the new interval and by nothing else (`WindowAppended`,
  `WindowInherited`, `WindowBegins`).
* From it: `TaskTyped`, `NoLateRevision`, `WindowsExact`, `CauseIsRight`,
  `ResultsRoutable`, `WindowsUsable`, `CustodyAgrees` and the action properties
  `DecisionsStand` (`DecisionsFinal`: a step writes only the latest attempt while
  it is undecided, the assignment that holds the task, and the next link of a
  chain) and `PassedStaysPassed` (`PassedDeadlineIsFinal`: the clock only moves
  forward and both commit triggers read it again).

Sums. The library's induction theorems cannot be instantiated by the installed
provers, so `Sums_proofs` argues by a smallest counterexample: a nonempty set of
naturals has a least member (`LeastOf`, from the well-foundedness of `<`). It
shows that the fold behind `SumFunctionOnSet` satisfies its equation, and then
that the sum changes by the difference of the one row that changed and is at
least any of its members. The same least member gives the first return of a run
of coverage returns in `TaskRevision`.

Only model-checked: liveness (`EventuallySettled`, `OverdueWindowsClose`,
`EvaluationSettles`, `AmbiguityResolves`, `NeverStranded`), which this prover
does not reach. Every invariant and action property that a passing run checks
is also a theorem.

## 5. Findings and observations

`outbox_unknown_retry`: `adapters/outbox/__init__.py:151` registers four event
types as replay safe; the projection trigger
(`alembic/versions/0046_revision_expiry_retry.py:40`) admits a retry of an
unknown outcome for two of them. A claim of `TaskRevisionContextBlocked` or
`TaskRevisionExhausted` whose worker died after the invocation began, below the
attempt budget, is finalized as retryable by `recover()` and refused at commit,
on every scan, for ever.

`checker_child_budget`: only request events are registered with delivery limits
derived from the policy's budget. A `retry_safe` reconciliation child runs the
same external checker under the default four minutes, so with a budget of three
minutes and its margins the outbox gives up on a child that is within all its
limits; its finalization is fenced off and the evaluation is held for good.

`artifact_shared_charge`: an absence observed for one attempt releases a charge
that another attempt on the same content shares while its put is in flight. The
object is then confirmed with its charge released, and no scope counts bytes
that ADR 0013 says remain charged.

Observations that are not findings:

* A timer that is dead-lettered leaves an overdue window that nothing closes;
  the recovery scan sees that the event exists. The operating manual says that
  exhaustion has no automatic reopening.
* Authority revoked after a reclaim is acknowledged without releasing the task,
  because any submission of the task, an earlier contributor's too, excludes the
  release. The assignment spec documents this.
* A paused window is charged up to the instant its preparation is inserted, not
  committed, so a slow pausing repair extends the window by its commit latency.
* A setup effect of `ModelUsage` whose reference was never learnt keeps its
  reservation for ever; the ledger never releases what may have been billed.
* An artifact attempt whose observations are spent becomes provider_unavailable
  after one more failed put of its caller without being observed again; its
  charge stays provisional for good.
* Admission locks scopes and then a charge, completion and absence a charge and
  then its scopes. The model takes a transaction as one step; in PostgreSQL the
  two orders can deadlock, which its deadlock detection resolves by an error that
  the caller retries.
* A no-inference guide compilation is not sure to end. `release_no_inference`
  after a failure (`orchestrator.py:403`) does not ask whose fence it releases:
  once a run has outlived its deadline, so that a second copy of the delivery
  reopened the fence, the two copies can release each other's fences and retry
  for ever. TLC shows the cycle when `NeverStranded` is asked for the end of the
  run, so it asks that a reservation is dispatched, a fence left, and an accepted
  projectable result finalized.
* An accepted guide compilation can be stranded. Acceptance
  (`interfaces/project_agents.py:396`) compares required and forbidden paths for
  equality; the submission-policy defaults (`projects/service.py:843`) match
  patterns. A draft that requires `outputs/answer.md` and forbids `outputs/*` is
  accepted and persisted and gets its sufficiency report, and then
  `_preflight` raises `component_unprojectable` (`projections.py:233`) on every
  delivery, which `live.py:111` raises again: Celery retries it, the scan
  republishes it, for ever. A correction needs a finalization, so only a new
  guide version leads out. `tests/projects/guide_compilation/proposals/`
  `test_artifact_paths.py:67-72,88-90` and the chunk document
  `WS-POL-003-04A3-hidden-compilation-projections.md:276-281` specify the stable
  error and the new guide, so this is no divergence; nothing, however, ends the
  retries. TLC shows the cycle when the third part of `NeverStranded` is asked of
  every accepted result.
* `docs/operations_project_operating_manual.md:149-151` says that an uncertain
  attempt is never invoked again; a metered one is resumed when its delivery
  comes again (`orchestrator.py:362`, `_metered_setup_resume`), under the custody of
  the model-usage ledger. A metered attempt whose execution or recording failed
  is acknowledged and excluded from the scan, so only such a redelivery resumes
  it.

## 6. Not modelled, and plan

The backend has 212 thousand lines with its migrations, scripts, MCP server and
deployment; most are schemas, routers, policy tables, payload composition and
tooling without control of their own. The map names the transactions, handlers
and triggers that move state in the modelled parts. Not modelled:

* reviews, contributions, compensation: the review decision and the final
  acceptance have no caller in the application yet (`review_pending` rests);
* authorization: a refusal appears as a failed or untaken step, the policy table
  is data;
* API controls, actors, audit, routers, schemas, configuration: one statement or
  one transaction each;
* project and guide mutations, proposal approval and activation; artifact
  preparation, inspection and reads; the PRE-submit checker execution;
* the Rust checker service, the Go CLI, the MCP server and deployment: separate
  programs behind HTTP.

Next:

1. An abstract task (offered, held, decided) that `TaskRevision` implements.
2. Guide approval and activation; rate windows; final acceptance once it is
   reachable; the scan's page cursor and recovery of retained revision rows.
