----------------------------- MODULE ModelUsage -----------------------------
(***************************************************************************)
(* Paid model calls: the project budget account and the ledger of effects  *)
(* (backend/app/modules/model_usage), driven by the checker model proxy    *)
(* (adapters/checkers/model_proxy.py) and by the setup model handler       *)
(* (adapters/project_agents/setup_model_handler.py) against a provider     *)
(* that charges for every call it accepts.                                 *)
(*                                                                         *)
(* A slot is one logical call; its effect rows are the attempts, numbered  *)
(* from 1.  A handler runs one proxy request as a sequence of database     *)
(* transactions with provider and artifact I/O between them, and may stop  *)
(* after any of them.  All calls use one immutable profile, priced at one  *)
(* unit per token, so that the ceilings of the profile on tokens, bytes    *)
(* and money of one run are the single RunCeiling.                         *)
(***************************************************************************)
EXTENDS Integers, FiniteSets, Functions

CONSTANTS
    CheckerSlots,  \* call indexes of one checker session
    SetupSlots,    \* calls of one guide compilation attempt
    Handlers,      \* proxy requests in progress
    Reservation,   \* maximum_dispatch_reservation_nanodollars
    MaxCalls,      \* maximum_calls
    RunCeiling,    \* maximum_reservation_nanodollars
    Charges,       \* what the provider may charge within the profile's caps
    Budgets,       \* configurations an operator may publish
    NoSlot,
    MaxAttempts, MaxRuns, MaxVersions   \* bounds of the instance

Slots == CheckerSlots \cup SetupSlots
Attempts == 1..MaxAttempts
Runs == 1..MaxRuns
BudgetSpecs == [authorized : Nat, prior : Nat, limit : Nat]

ASSUME ProfileAssumption ==
    /\ Reservation \in Nat \ {0} /\ MaxCalls \in Nat \ {0}
    /\ RunCeiling \in Nat /\ Reservation <= RunCeiling /\ Charges \subseteq 0..Reservation
    /\ CheckerSlots \cap SetupSlots = {} /\ NoSlot \notin Slots
    /\ MaxAttempts \in Nat \ {0} /\ MaxRuns \in Nat \ {0} /\ MaxVersions \in Nat
    /\ IsFiniteSet(Slots)

\* ProjectModelBudgetConfigurationSpec.positive_limit
ASSUME BudgetAssumption ==
    /\ Budgets \subseteq BudgetSpecs
    /\ \A b \in Budgets : b.limit > 0 /\ b.prior + b.limit <= b.authorized

VARIABLES
    effect,     \* model_usage_effects, by slot and attempt_number
    latest,     \* the greatest attempt_number of a slot, 0 before the slot exists
    account,    \* model_usage_budget_accounts
    budget,     \* the current budget configuration and its version
    run,        \* the newest checker run (with its lease) of the session
    leased,     \* whether that lease is live: the execution is current
    setupLive,  \* whether the guide compilation attempt is current
    bound,      \* checker_model_invocation_grant_calls: run, slot -> attempt
    handler,    \* what each proxy request is about to do
    provider,   \* the provider's side of each attempt
    stored,     \* attempts whose response is verified in artifact custody
    answered    \* attempts whose output was released to the caller

vars == <<effect, latest, account, budget, run, leased, setupLive, bound, handler, provider,
          stored, answered>>
fences == <<run, leased, setupLive>>

Pending == {"dispatching", "uncertain"}
Terminal == {"completed", "known_failed", "known_no_effect"}
Rows == [state : {"none", "prepared"} \cup Pending \cup Terminal,
         reserved : Nat, settled : Nat, ref : Nat, run : Nat]
NoRow == [state |-> "none", reserved |-> 0, settled |-> 0, ref |-> 0, run |-> 0]
PreparedRow == [NoRow EXCEPT !.state = "prepared"]

Steps == {"idle", "found", "prepared", "send", "no_effect", "lost", "invalid", "accepted",
          "recover", "poll", "store", "complete", "cached", "reread"}
HandlerStates == [pc : Steps, slot : Slots \cup {NoSlot}, n : Attempts \cup {0}, run : Nat]
Idle == [pc |-> "idle", slot |-> NoSlot, n |-> 0, run |-> 0]

\* The provider's record of an attempt: how often it was asked to create a
\* response, what it charges for it, and whether the response is usable.
Calls == [creates : Nat, status : {"none", "running", "completed", "failed"}, cost : Nat]
NoCall == [creates |-> 0, status |-> "none", cost |-> 0]

Init ==
    /\ effect = [s \in Slots |-> [n \in Attempts |-> NoRow]]
    /\ latest = [s \in Slots |-> 0]
    /\ account = [reserved |-> 0, settled |-> 0]
    /\ budget = [version |-> 0, authorized |-> 0, prior |-> 0, limit |-> 0]
    /\ run = 1 /\ leased = TRUE /\ setupLive = TRUE
    /\ bound = [r \in Runs |-> [s \in CheckerSlots |-> 0]]
    /\ handler = [h \in Handlers |-> Idle]
    /\ provider = [s \in Slots |-> [n \in Attempts |-> NoCall]]
    /\ stored = {} /\ answered = {}

-----------------------------------------------------------------------------
(* Operators of the ledger.                                                *)

Envelope(s) == IF s \in SetupSlots THEN SetupSlots ELSE CheckerSlots

\* envelope_totals and setup_envelope_totals, over every attempt of the run
Held(row) == IF row.state \in Pending THEN row.reserved ELSE 0
HeldBy == [p \in Slots \X Attempts |-> Held(effect[p[1]][p[2]])]
SettledBy == [p \in Slots \X Attempts |-> effect[p[1]][p[2]].settled]
Used == [p \in Slots \X Attempts |-> HeldBy[p] + SettledBy[p]]
RunTotal(s) == SumFunctionOnSet(Used, Envelope(s) \X Attempts)
Dispatched(s) ==
    {p \in Envelope(s) \X Attempts : effect[p[1]][p[2]].state \notin {"none", "prepared"}}

EnvelopeAdmits(s) ==
    /\ Cardinality(Dispatched(s)) < MaxCalls
    /\ RunTotal(s) + Reservation <= RunCeiling

AccountAdmits ==
    /\ budget.version > 0
    /\ account.reserved + account.settled + Reservation <= budget.limit

\* latest_attempt, latest_setup_effect
LatestRow(s) == IF latest[s] = 0 THEN NoRow ELSE effect[s][latest[s]]

\* require_current for a checker execution, require_setup_current for a setup key
Current(h) ==
    IF handler[h].slot \in SetupSlots THEN setupLive ELSE leased /\ handler[h].run = run

Row(h) == effect[handler[h].slot][handler[h].n]
SetRow(h, row) == effect' = [effect EXCEPT ![handler[h].slot][handler[h].n] = row]
Goto(h, pc) == handler' = [handler EXCEPT ![h].pc = pc]
Return(h) == handler' = [handler EXCEPT ![h] = Idle]
At(h, pc) == handler[h].pc = pc

\* _settle: the reservation leaves the account and the cost joins it
SettleKeepingReservation(row, cost) == account' = [account EXCEPT !.settled = @ + cost]
Settle(row, cost) ==
    /\ account.reserved >= row.reserved
    /\ account' = [reserved |-> account.reserved - row.reserved, settled |-> account.settled + cost]

ReleaseTwice(row) == account' = [account EXCEPT !.reserved = @ - 2 * row.reserved]
Release(row) ==
    /\ account.reserved >= row.reserved
    /\ account' = [account EXCEPT !.reserved = @ - row.reserved]

-----------------------------------------------------------------------------
(* The operator and the fences.                                            *)

CoversSettled(b) == b.limit >= account.settled
CoversUsage(b) == b.limit >= account.reserved + account.settled

ProvisionBudget(b) ==
    /\ budget.version < MaxVersions
    /\ b.authorized >= budget.authorized /\ b.prior >= budget.prior
    /\ CoversUsage(b)
    /\ budget' = [version |-> budget.version + 1, authorized |-> b.authorized,
                  prior |-> b.prior, limit |-> b.limit]
    /\ UNCHANGED <<effect, latest, account, fences, bound, handler, provider, stored, answered>>

\* The lease of the checker run is lost, or the run fails.
EndLease ==
    /\ leased /\ leased' = FALSE
    /\ UNCHANGED <<effect, latest, account, budget, run, setupLive, bound, handler, provider,
                   stored, answered>>

LeaseNewRun ==
    /\ ~leased /\ run < MaxRuns
    /\ leased' = TRUE /\ run' = run + 1
    /\ UNCHANGED <<effect, latest, account, budget, setupLive, bound, handler, provider, stored,
                   answered>>

SupersedeCompilation ==
    /\ setupLive /\ setupLive' = FALSE
    /\ UNCHANGED <<effect, latest, account, budget, run, leased, bound, handler, provider, stored,
                   answered>>

\* _eligible_parent: only a terminal whose facts are fully known has a digest
RetryableTerminal == Terminal
Retryable == {"known_no_effect", "known_failed"}

\* prepare_recovery_child, after require_recovery_current found the source run failed
PrepareRecoveryChild(s) ==
    LET n == latest[s] IN
    /\ n \in 1..(MaxAttempts - 1)
    /\ effect[s][n].state \in Retryable
    /\ effect[s][n].run < run \/ ~leased
    /\ latest' = [latest EXCEPT ![s] = n + 1]
    /\ effect' = [effect EXCEPT ![s][n + 1] = PreparedRow]
    /\ UNCHANGED <<account, budget, fences, bound, handler, provider, stored, answered>>

-----------------------------------------------------------------------------
(* The first transaction of a request: attach to the slot's latest attempt *)
(* or allocate attempt 1.                                                  *)

\* What the checker proxy does next with an attempt in the given state.
AfterPrepare(state) ==
    CASE state = "prepared" -> "prepared"
      [] state \in Pending -> "recover"
      [] state = "completed" -> "cached"
      [] OTHER -> "idle"

\* resolve, prepare_attempt and consume_prepared of one transaction: the grant
\* of the run is unexpired, and binds the call index to one attempt for good.
PrepareAttempt(h, s) ==
    LET n == IF latest[s] = 0 THEN 1 ELSE latest[s]
        row == IF latest[s] = 0 THEN PreparedRow ELSE LatestRow(s)
        pc == AfterPrepare(row.state)
    IN  /\ At(h, "idle") /\ leased
        /\ bound[run][s] \in {0, n}
        /\ latest' = [latest EXCEPT ![s] = n]
        /\ effect' = [effect EXCEPT ![s][n] = row]
        /\ bound' = [bound EXCEPT ![run][s] = n]
        /\ handler' = [handler EXCEPT ![h] =
             IF pc = "idle" THEN Idle ELSE [pc |-> pc, slot |-> s, n |-> n, run |-> run]]
        /\ UNCHANGED <<account, budget, fences, provider, stored, answered>>

\* recover_existing: a retained answer is served, an observed effect is
\* completed from artifact custody, a dispatching or failed one is refused.
SetupLookup(h, s) ==
    LET row == LatestRow(s)
        Enter(pc, n) == handler' = [handler EXCEPT ![h] =
                                      [pc |-> pc, slot |-> s, n |-> n, run |-> 0]]
    IN  /\ At(h, "idle") /\ setupLive
        /\ \/ row.state \in {"none", "prepared"} /\ Enter("found", 1)
           \/ /\ row.state = "uncertain" /\ row.ref > 0 /\ <<s, latest[s]>> \in stored
              /\ Enter("complete", latest[s])
           \/ row.state = "completed" /\ Enter("reread", latest[s])
        /\ UNCHANGED <<effect, latest, account, budget, fences, bound, provider, stored, answered>>

\* prepare, after the provider counted the input
SetupPrepare(h) ==
    LET s == handler[h].slot IN
    /\ At(h, "found") /\ setupLive
    /\ IF latest[s] > 0 THEN UNCHANGED <<effect, latest>> ELSE
         /\ latest' = [latest EXCEPT ![s] = 1]
         /\ effect' = [effect EXCEPT ![s][1] = PreparedRow]
    /\ Goto(h, "prepared")
    /\ UNCHANGED <<account, budget, fences, bound, provider, stored, answered>>

-----------------------------------------------------------------------------
(* reserve_dispatch, once the request is in artifact custody.              *)

ReserveDispatch(h) ==
    /\ At(h, "prepared") /\ Current(h)
    /\ Row(h).state = "prepared"
    /\ EnvelopeAdmits(handler[h].slot) /\ AccountAdmits
    /\ account' = [account EXCEPT !.reserved = @ + Reservation]
    /\ SetRow(h, [Row(h) EXCEPT !.state = "dispatching", !.reserved = Reservation,
                                !.run = handler[h].run])
    /\ Goto(h, "send")
    /\ UNCHANGED <<latest, budget, fences, bound, provider, stored, answered>>

\* A replayed reservation never leads to a second create: a checker attaches
\* to the recorded effect, a setup request is answered "uncertain".
AfterReplayResends(h) == "send"
AfterReplay(h) ==
    IF handler[h].slot \in SetupSlots THEN "idle" ELSE AfterPrepare(Row(h).state)

ReplayDispatch(h) ==
    LET pc == AfterReplay(h) IN
    /\ At(h, "prepared") /\ Current(h)
    /\ Row(h).state \in Pending \cup Terminal
    /\ IF pc = "idle" THEN Return(h) ELSE Goto(h, pc)
    /\ UNCHANGED <<effect, latest, account, budget, fences, bound, provider, stored, answered>>

-----------------------------------------------------------------------------
(* provider.create and what the handler makes of its answer.               *)

Create(h, status, cost) ==
    provider' = [provider EXCEPT ![handler[h].slot][handler[h].n] =
                   [creates |-> @.creates + 1, status |-> status, cost |-> @.cost + cost]]

\* The checker adapter proves that nothing was created: the size or count
\* check before create failed.
CreateNoEffect(h) ==
    /\ At(h, "send") /\ handler[h].slot \in CheckerSlots
    /\ Goto(h, "no_effect")
    /\ UNCHANGED <<effect, latest, account, budget, fences, bound, provider, stored, answered>>

\* No answer: the request may or may not have reached the provider.
CreateLost(h) ==
    /\ At(h, "send")
    /\ \/ UNCHANGED provider
       \/ \E cost \in Charges : Create(h, "completed", cost)
    /\ Goto(h, "lost")
    /\ UNCHANGED <<effect, latest, account, budget, fences, bound, stored, answered>>

\* An answer: a checker's response runs in the background, a setup response
\* is terminal at once; of an invalid answer only the identity is kept.
CreateAnswered(h) ==
    /\ At(h, "send")
    /\ \E cost \in Charges, pc \in {"accepted", "invalid"},
          status \in (IF handler[h].slot \in SetupSlots THEN {"completed", "failed"}
                                                        ELSE {"running", "completed", "failed"}) :
         Create(h, status, cost) /\ Goto(h, pc)
    /\ UNCHANGED <<effect, latest, account, budget, fences, bound, stored, answered>>

\* The provider finishes a background response.
ProviderFinish(s, n) ==
    /\ provider[s][n].status = "running"
    /\ \E status \in {"completed", "failed"} :
         provider' = [provider EXCEPT ![s][n].status = status]
    /\ UNCHANGED <<effect, latest, account, budget, fences, bound, handler, stored, answered>>

\* mark_uncertain keeps the reservation and records the provider's identity,
\* whatever became of the execution that dispatched.
UncertainReleasing(h) == account' = [account EXCEPT !.reserved = @ - Row(h).reserved]
UncertainReserves(h) == UNCHANGED account

MarkUncertain(h) ==
    /\ handler[h].pc \in {"lost", "invalid", "accepted"}
    /\ Row(h).state = "dispatching"
    /\ SetRow(h, [Row(h) EXCEPT !.state = "uncertain", !.ref =
         IF At(h, "lost") THEN 0 ELSE provider[handler[h].slot][handler[h].n].creates])
    /\ UncertainReserves(h)
    /\ IF ~At(h, "accepted") THEN Return(h)
       ELSE Goto(h, IF handler[h].slot \in SetupSlots THEN "store" ELSE "poll")
    /\ UNCHANGED <<latest, budget, fences, bound, provider, stored, answered>>

MarkKnownNoEffect(h) ==
    /\ At(h, "no_effect")
    /\ Row(h).state \in Pending /\ Row(h).ref = 0
    /\ Release(Row(h))
    /\ SetRow(h, [Row(h) EXCEPT !.state = "known_no_effect"])
    /\ Return(h)
    /\ UNCHANGED <<latest, budget, fences, bound, provider, stored, answered>>

-----------------------------------------------------------------------------
(* Recovery, completion and the release of the answer.                     *)

\* attach_recovery: a current run polls an effect whose identity is known.
AttachRecovery(h) ==
    /\ At(h, "recover") /\ Current(h)
    /\ Row(h).state \in Pending /\ Row(h).ref > 0
    /\ Goto(h, "poll")
    /\ UNCHANGED <<effect, latest, account, budget, fences, bound, provider, stored, answered>>

Poll(h) ==
    /\ At(h, "poll")
    /\ provider[handler[h].slot][handler[h].n].status \in {"completed", "failed"}
    /\ Goto(h, "store")
    /\ UNCHANGED <<effect, latest, account, budget, fences, bound, provider, stored, answered>>

\* _store of the response: late responses retain effect custody
StoreResponse(h) ==
    /\ At(h, "store")
    /\ stored' = stored \cup {<<handler[h].slot, handler[h].n>>}
    /\ Goto(h, "complete")
    /\ UNCHANGED <<effect, latest, account, budget, fences, bound, provider, answered>>

\* complete and complete_known_failure settle once, current run or not.
Complete(h) ==
    LET call == provider[handler[h].slot][handler[h].n]
        target == IF call.status = "completed" THEN "completed" ELSE "known_failed"
    IN  /\ At(h, "complete")
        /\ \/ /\ Row(h).state \in Pending /\ Row(h).ref \in {0, call.creates}
              /\ Settle(Row(h), call.cost)
              /\ SetRow(h, [Row(h) EXCEPT !.state = target, !.ref = call.creates,
                                          !.settled = call.cost])
           \/ Row(h).state = target /\ UNCHANGED <<account, effect>>
        /\ IF target = "known_failed" THEN Return(h)
           ELSE Goto(h, IF handler[h].slot \in SetupSlots THEN "reread" ELSE "cached")
        /\ UNCHANGED <<latest, budget, fences, bound, provider, stored, answered>>

\* attach_completed: only a current checker run may read the answer ...
AttachCompleted(h) ==
    /\ At(h, "cached") /\ Row(h).state = "completed" /\ Current(h)
    /\ Goto(h, "reread")
    /\ UNCHANGED <<effect, latest, account, budget, fences, bound, provider, stored, answered>>

\* ... and it is authorized again after the bytes were read.
ReleaseAnswer(h) ==
    /\ At(h, "reread") /\ Row(h).state = "completed"
    /\ handler[h].slot \in CheckerSlots => Current(h)
    /\ answered' = answered \cup {<<handler[h].slot, handler[h].n>>}
    /\ Return(h)
    /\ UNCHANGED <<effect, latest, account, budget, fences, bound, provider, stored>>

\* A crash, a deadline, an unavailable store or provider, or a refused
\* transaction: the request ends and what it committed stays.
GiveUp(h) ==
    /\ ~At(h, "idle")
    /\ Return(h)
    /\ UNCHANGED <<effect, latest, account, budget, fences, bound, provider, stored, answered>>

HandlerStep(h) ==
    \/ \E s \in CheckerSlots : PrepareAttempt(h, s)
    \/ \E s \in SetupSlots : SetupLookup(h, s)
    \/ SetupPrepare(h) \/ ReserveDispatch(h) \/ ReplayDispatch(h)
    \/ CreateNoEffect(h) \/ CreateLost(h) \/ CreateAnswered(h)
    \/ MarkUncertain(h) \/ MarkKnownNoEffect(h)
    \/ AttachRecovery(h) \/ Poll(h) \/ StoreResponse(h) \/ Complete(h)
    \/ AttachCompleted(h) \/ ReleaseAnswer(h) \/ GiveUp(h)

Next ==
    \/ \E h \in Handlers : HandlerStep(h)
    \/ \E b \in Budgets : ProvisionBudget(b)
    \/ \E s \in CheckerSlots : PrepareRecoveryChild(s)
    \/ \E s \in Slots, n \in Attempts : ProviderFinish(s, n)
    \/ EndLease \/ LeaseNewRun \/ SupersedeCompilation

Spec == Init /\ [][Next]_vars

-----------------------------------------------------------------------------
(* The database triggers of migration 0062, which admit or abort a         *)
(* transaction after the service staged it.                                *)

\* guard_model_usage_budget_account
AccountTriggerAdmits ==
    /\ account'.reserved + account'.settled <= budget'.limit
    /\ IF budget' # budget THEN account' = account ELSE
         \/ account' = account
         \/ account'.reserved > account.reserved /\ account'.settled = account.settled
         \/ /\ account'.reserved < account.reserved
            /\ account'.settled - account.settled \in 0..(account.reserved - account'.reserved)

\* guard_model_usage_effect: the transitions of a row, the facts frozen at
\* dispatch, and the insertion of a child
RowTriggerAdmits(old, new) ==
    \/ new = old
    \/ old.state = "none" /\ new = PreparedRow
    \/ old.state = "prepared" /\ new.state = "dispatching" /\ new.ref = 0 /\ new.settled = 0
    \/ /\ \/ old.state = "dispatching" /\ new.state \in {"uncertain"} \cup Terminal
          \/ old.state = "uncertain" /\ new.state \in Terminal
       /\ new.reserved = old.reserved /\ new.run = old.run
       /\ old.ref > 0 => new.ref = old.ref
       /\ new.state \in {"completed", "known_failed"} => new.ref > 0
       /\ new.state = "known_no_effect" => new.ref = 0 /\ new.settled = 0

EffectTriggerAdmits ==
    \A s \in Slots, n \in Attempts :
        /\ RowTriggerAdmits(effect[s][n], effect'[s][n])
        /\ effect[s][n].state = "none" /\ effect'[s][n].state = "prepared" /\ n > 1
             => effect[s][n - 1].state \in {"known_no_effect", "known_failed"}

-----------------------------------------------------------------------------
(* Properties.                                                             *)

\* Type correctness; a bound of the instance is never exceeded.
TypeOK ==
    /\ effect \in [Slots -> [Attempts -> Rows]] /\ latest \in [Slots -> Attempts \cup {0}]
    /\ account \in [reserved : Nat, settled : Nat]
    /\ budget \in [version : 0..MaxVersions, authorized : Nat, prior : Nat, limit : Nat]
    /\ run \in Runs /\ leased \in BOOLEAN /\ setupLive \in BOOLEAN
    /\ bound \in [Runs -> [CheckerSlots -> Attempts \cup {0}]]
    /\ handler \in [Handlers -> HandlerStates]
    /\ provider \in [Slots -> [Attempts -> Calls]]
    /\ stored \subseteq Slots \X Attempts /\ answered \subseteq Slots \X Attempts

Total(f) == SumFunctionOnSet(f, Slots \X Attempts)

\* The account is the sum of the ledger: what it holds reserved is what the
\* dispatching and uncertain effects of both owners reserved, and what it
\* holds settled is what the finished ones cost (reserve_dispatch, _settle,
\* _release, interleaved over slots, runs and budget changes).
Conservation ==
    /\ account.reserved = Total(HeldBy)
    /\ account.settled = Total(SettledBy)

\* What the provider charges, unobserved calls included, never exceeds the
\* lifetime limit of the current budget configuration: a lost answer keeps
\* its reservation until the charge is known (mark_uncertain).
Billed == [p \in Slots \X Attempts |-> provider[p[1]][p[2]].cost]
BillWithinLimit == Total(Billed) <= budget.limit

\* One logical call is never in flight twice: an attempt is created at the
\* provider at most once, and a later attempt of its slot exists only when
\* every earlier one is known to be unbilled or settled as failed
\* (the replay rules of reserve_dispatch and _eligible_parent).
EffectsOneAtATime ==
    \A s \in Slots, n \in Attempts :
        /\ provider[s][n].creates <= 1
        /\ n < latest[s] =>
             \/ effect[s][n].state = "known_no_effect" /\ provider[s][n].creates = 0
             \/ /\ effect[s][n].state = "known_failed"
                /\ effect[s][n].settled = provider[s][n].cost

\* Whoever is given the answer of a slot, in whichever run, is given the one
\* completed and settled response of it (attach_completed, _cached).
AnswersAgree ==
    \A p \in answered :
        /\ p[2] = latest[p[1]] /\ p \in stored
        /\ effect[p[1]][p[2]].state = "completed"
        /\ effect[p[1]][p[2]].settled = provider[p[1]][p[2]].cost

\* The triggers of migration 0062 never abort a transaction the service
\* staged: the two layers agree on every transition of account and ledger.
TriggersAdmit == [][AccountTriggerAdmits /\ EffectTriggerAdmits]_vars

-----------------------------------------------------------------------------
(* The inductive invariant behind them.                                    *)

\* What a row says about the provider: which attempts exist, what each state
\* has reserved and settled, and that a recorded reference is the one create.
RowOK(s, n) ==
    LET row == effect[s][n]
        call == provider[s][n] IN
    /\ n > latest[s] <=> row.state = "none"
    /\ n < latest[s] => row.state \in Retryable
    /\ row.state \in {"none", "prepared"} => row.reserved = 0 /\ call.creates = 0
    /\ row.state \notin {"none", "prepared"} => row.reserved = Reservation
    /\ row.state \in {"none", "prepared", "dispatching", "known_no_effect"} => row.ref = 0
    /\ row.state \in {"completed", "known_failed"} => row.ref > 0 /\ row.settled = call.cost
    /\ row.state \notin {"completed", "known_failed"} => row.settled = 0
    /\ row.state = "known_no_effect" => call.creates = 0
    /\ row.state = "completed" => call.status = "completed" /\ <<s, n>> \in stored
    /\ row.state = "known_failed" => call.status = "failed"
    /\ row.ref \in {0, call.creates}
    /\ call.creates \in {0, 1} /\ call.cost <= Reservation
    /\ call.creates = 0 => call.cost = 0 /\ call.status = "none"
    /\ <<s, n>> \in stored => call.status \in {"completed", "failed"}

\* What a request knows about the attempt it works on.
Sending == {"send", "no_effect", "lost", "invalid", "accepted"}

HandlerOK(h) ==
    LET s == handler[h].slot
        n == handler[h].n
        pc == handler[h].pc IN
    pc # "idle" =>
        /\ s \in Slots /\ n \in Attempts
        /\ pc = "found" => n = 1
        /\ pc # "found" => n <= latest[s]
        /\ pc \in Sending => effect[s][n].state = "dispatching"
        /\ pc \in {"send", "no_effect"} => provider[s][n].creates = 0
        /\ pc \in {"invalid", "accepted"} => provider[s][n].creates = 1
        /\ pc = "accepted" /\ s \in SetupSlots => provider[s][n].status \in {"completed", "failed"}
        /\ pc \in {"poll", "store", "complete"} =>
             effect[s][n].state \in {"uncertain", "completed", "known_failed"} /\ effect[s][n].ref > 0
        /\ pc \in {"store", "complete"} => provider[s][n].status \in {"completed", "failed"}
        /\ pc = "complete" => <<s, n>> \in stored
        /\ pc \in {"cached", "reread"} => effect[s][n].state = "completed"

\* An effect has one sender: the request that reserved it.
SameEffect(h, k) == handler[h].slot = handler[k].slot /\ handler[h].n = handler[k].n
OneSender ==
    \A h, k \in Handlers :
        handler[h].pc \in Sending /\ handler[k].pc \in Sending /\ SameEffect(h, k) => h = k

\* The account and both envelopes stay within their limits.
AccountWithinLimit == account.reserved + account.settled <= budget.limit
EnvelopesWithinLimits ==
    \A s \in Slots : Cardinality(Dispatched(s)) <= MaxCalls /\ RunTotal(s) <= RunCeiling

AnsweredOK == \A p \in answered : effect[p[1]][p[2]].state = "completed"

LedgerInv ==
    /\ TypeOK
    /\ \A s \in Slots, n \in Attempts : RowOK(s, n)
    /\ \A h \in Handlers : HandlerOK(h)
    /\ OneSender /\ AnsweredOK
    /\ Conservation /\ AccountWithinLimit /\ EnvelopesWithinLimits
=============================================================================
