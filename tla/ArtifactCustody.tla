--------------------------- MODULE ArtifactCustody ---------------------------
(***************************************************************************)
(* Durable custody of immutable artifacts: quota admission, publication of *)
(* the bytes at a provider, recovery of ambiguous publications by          *)
(* observation, complete-object verification and its operator recovery.    *)
(* Source: backend/app/modules/artifacts/service.py and repository.py.     *)
(*                                                                         *)
(* PostgreSQL transactions are actions.  A provider call runs between two  *)
(* transactions, so every claim leaves an executor in work: it asks the    *)
(* provider, keeps what it heard, and records it under the fence of its    *)
(* own claim, while leases lapse and other executors claim the same row.   *)
(* An operation that returns "stale" changes nothing; reading the          *)
(* generation in one transaction and claiming in the next is the claim     *)
(* itself, since the claim compares the generation again.                  *)
(***************************************************************************)
EXTENDS Integers, FiniteSets, Functions

CONSTANTS
    Attempts,         \* put attempts, one for each operation identity
    Contents,         \* immutable contents: a digest and a byte count
    Scopes,           \* admission scopes: deployment, project, producer, task
    ContentOf,        \* the content an attempt commits to
    ScopesOf,         \* the scopes that content is charged to
    Size,             \* byte count of a content
    Limit,            \* durable-byte limit of a scope
    Guides,           \* attempts of guide producers: stored, never verified
    Bundles,          \* attempts of submission bundles: published on verification
    Maximum,          \* maximum_observations of an attempt, maximum_attempts of
                      \* its jobs: the setting when the row was written
    MaxPuts,          \* bound: caller executions of each attempt
    MaxRecoveries,    \* bound: operator recoveries of one attempt's verification
    MaxFaults         \* bound: crashes, slow executors, damage, provider surprises

ASSUME CustodyAssumption ==
    /\ IsFiniteSet(Contents)
    /\ ContentOf \in [Attempts -> Contents]
    /\ ScopesOf \in [Attempts -> SUBSET Scopes]
    /\ Size \in [Contents -> Nat]
    /\ Limit \in [Scopes -> Nat]
    /\ Guides \subseteq Attempts
    /\ Bundles \subseteq Attempts \ Guides
    /\ Maximum \in [Attempts -> Nat \ {0}]
    /\ MaxPuts \in [Attempts -> Nat]
    /\ {MaxRecoveries, MaxFaults} \subseteq Nat

VARIABLES
    attempt,   \* rows of artifact_put_attempts
    charge,    \* rows of artifact_admission_charges, by scope and content
    counted,   \* counted_bytes of each scope
    replica,   \* verification state of each content's replica
    job,       \* the verification job each attempt owns now
    recovery,  \* the recovery envelope whose retry is that job
    admitted,  \* bundles whose submission admission was published
    object,    \* what the provider holds
    work,      \* executors between their claim and their terminal transaction
    recoveries,\* recoveries of each attempt's verification so far
    faults     \* faults so far

vars == <<attempt, charge, counted, replica, job, recovery, admitted, object,
          work, recoveries, faults>>

PutStates ==
    {"none", "prepared", "put_in_flight", "acknowledgement_unknown",
     "absent_replay_required", "object_confirmed", "provider_unavailable",
     "integrity_mismatch", "conflict"}

\* "exhausted" is provider_unavailable with its terminal_at set.
JobStates ==
    {"none", "pending", "running", "provider_unavailable", "exhausted",
     "verified", "missing", "integrity_mismatch", "conflict"}

Leases == {"none", "live", "expired"}

ReplicaStates == {"none", "pending", "verified", "missing", "integrity_mismatch"}

Kinds == {"caller_put", "observation", "verification"}

\* What an executor can have heard: nothing yet, the provider's answer, or that
\* the provider's live proof has to be renewed first.
Answers == {"none", "stored", "absent", "integrity_mismatch", "conflict",
            "unavailable", "proof_required"}

Executors ==
    [a : Attempts, kind : Kinds, gen : Nat, heard : Answers]

Init ==
    /\ attempt = [a \in Attempts |->
                    [status |-> "none", gen |-> 0, obs |-> 0, lease |-> "none"]]
    /\ charge = [s \in Scopes |-> [c \in Contents |-> "none"]]
    /\ counted = [s \in Scopes |-> 0]
    /\ replica = [c \in Contents |-> "none"]
    /\ job = [a \in Attempts |->
                [status |-> "none", gen |-> 0, tries |-> 0, lease |-> "none"]]
    /\ recovery = [a \in Attempts |-> "none"]
    /\ admitted = {}
    /\ object = [c \in Contents |-> "absent"]
    /\ work = {}
    /\ recoveries = [a \in Attempts |-> 0]
    /\ faults = 0

-----------------------------------------------------------------------------
(* Durable-byte charges.  A charge belongs to a scope and a content, so      *)
(* every attempt on the same content shares it.                              *)

Live == {"provisional", "completed"}

\* The scopes in which a reservation for a has to count its bytes (again).
Uncharged(a) == {s \in ScopesOf[a] : charge[s][ContentOf[a]] \notin Live}

\* Mutant: the limit is compared before the new bytes are added.
HasRoomBefore(a) == \A s \in Uncharged(a) : counted[s] <= Limit[s]

HasRoom(a) ==
    \A s \in Uncharged(a) : counted[s] + Size[ContentOf[a]] <= Limit[s]

Reserve(a) ==
    /\ HasRoom(a)
    /\ charge' = [s \in Scopes |->
                    IF s \in Uncharged(a)
                    THEN [charge[s] EXCEPT ![ContentOf[a]] = "provisional"]
                    ELSE charge[s]]
    /\ counted' = [s \in Scopes |->
                    IF s \in Uncharged(a)
                    THEN counted[s] + Size[ContentOf[a]]
                    ELSE counted[s]]

Provisional(a) == {s \in ScopesOf[a] : charge[s][ContentOf[a]] = "provisional"}

MoveProvisional(a, state) ==
    charge' = [s \in Scopes |->
                 IF s \in Provisional(a)
                 THEN [charge[s] EXCEPT ![ContentOf[a]] = state]
                 ELSE charge[s]]

CompleteCharges(a) ==
    /\ MoveProvisional(a, "completed")
    /\ UNCHANGED counted

ReleaseCharges(a) ==
    /\ MoveProvisional(a, "released")
    /\ counted' = [s \in Scopes |->
                     IF s \in Provisional(a)
                     THEN counted[s] - Size[ContentOf[a]]
                     ELSE counted[s]]

-----------------------------------------------------------------------------
(* Admission.                                                                *)

Admit(a) ==
    /\ attempt[a].status = "none"
    /\ Reserve(a)
    /\ attempt' = [attempt EXCEPT ![a].status = "prepared"]
    /\ UNCHANGED <<replica, job, recovery, admitted, object, work, recoveries, faults>>

\* A replayed admission reserves again what an absence released, before it
\* returns the attempt it finds.  The replay of a bundle returns earlier.
AdmitAgain(a) ==
    /\ attempt[a].status # "none"
    /\ a \notin Bundles
    /\ Uncharged(a) # {}
    /\ Reserve(a)
    /\ UNCHANGED <<attempt, replica, job, recovery, admitted, object, work,
                   recoveries, faults>>

-----------------------------------------------------------------------------
(* Claims.  Each one starts a new generation and one executor under it.      *)

Executor(a, kind, gen) == [a |-> a, kind |-> kind, gen |-> gen, heard |-> "none"]

\* Executions of a by a caller that holds the bytes.
PutsOf(a) == attempt[a].gen - attempt[a].obs

\* execute_committed_put up to the provider call: the claim, and the released
\* charges reserved again in the same transaction.
ClaimPut(a) ==
    /\ attempt[a].status \in {"prepared", "absent_replay_required"}
    /\ PutsOf(a) < MaxPuts[a]
    /\ Reserve(a)
    /\ attempt' = [attempt EXCEPT ![a].status = "put_in_flight", ![a].gen = @ + 1,
                                   ![a].lease = "live"]
    /\ work' = work \cup {Executor(a, "caller_put", attempt[a].gen + 1)}
    /\ UNCHANGED <<replica, job, recovery, admitted, object, recoveries, faults>>

\* Mutant: an expired claim is left to its executor.
ObservableUnclaimed(a) == attempt[a].status \in {"prepared", "acknowledgement_unknown"}

Observable(a) ==
    \/ attempt[a].status \in {"prepared", "acknowledgement_unknown"}
    \/ attempt[a].status = "put_in_flight" /\ attempt[a].lease = "expired"

\* resolve_put_attempt up to the provider call.
ClaimObservation(a) ==
    /\ Observable(a)
    /\ attempt' = [attempt EXCEPT ![a].status = "put_in_flight", ![a].gen = @ + 1,
                                   ![a].obs = @ + 1, ![a].lease = "live"]
    /\ work' = work \cup {Executor(a, "observation", attempt[a].gen + 1)}
    /\ UNCHANGED <<charge, counted, replica, job, recovery, admitted, object,
                   recoveries, faults>>

Verifiable(a) ==
    \/ job[a].status \in {"pending", "provider_unavailable"}
    \/ job[a].status = "running" /\ job[a].lease = "expired"

\* verify_object up to the provider call.
ClaimVerification(a) ==
    /\ Verifiable(a)
    /\ job' = [job EXCEPT ![a].status = "running", ![a].gen = @ + 1,
                           ![a].tries = @ + 1, ![a].lease = "live"]
    /\ work' = work \cup {Executor(a, "verification", job[a].gen + 1)}
    /\ UNCHANGED <<attempt, charge, counted, replica, recovery, admitted, object,
                   recoveries, faults>>

-----------------------------------------------------------------------------
(* The provider.  External: modelled from how the service uses ArtifactStore.*)

Hear(w, answer) == work' = (work \ {w}) \cup {[w EXCEPT !.heard = answer]}

NothingRecorded ==
    UNCHANGED <<attempt, charge, counted, replica, job, recovery, admitted, recoveries>>

\* The conditional write of an outstanding put takes effect: only a key that
\* holds nothing is written.
PutLands(w) ==
    /\ w.kind = "caller_put" /\ w.heard = "none"
    /\ object[ContentOf[w.a]] = "absent"
    /\ object' = [object EXCEPT ![ContentOf[w.a]] = "intact"]
    /\ NothingRecorded /\ UNCHANGED <<work, faults>>

\* Acknowledged, or found to hold exactly these bytes already.
PutAcknowledged(w) ==
    /\ w.kind = "caller_put" /\ w.heard = "none"
    /\ object[ContentOf[w.a]] = "intact"
    /\ Hear(w, "stored")
    /\ NothingRecorded /\ UNCHANGED <<object, faults>>

\* An observation, or a complete read, of what the provider holds now.
Observes(w) ==
    /\ w.kind # "caller_put" /\ w.heard = "none"
    /\ Hear(w, CASE object[ContentOf[w.a]] = "absent" -> "absent"
                 [] object[ContentOf[w.a]] = "intact" -> "stored"
                 [] object[ContentOf[w.a]] = "corrupt" -> "integrity_mismatch")
    /\ NothingRecorded /\ UNCHANGED <<object, faults>>

\* Unavailability, a timeout or a refused write; the write may have landed.
NoAnswer(w) ==
    /\ w.heard = "none"
    /\ Hear(w, "unavailable")
    /\ NothingRecorded /\ UNCHANGED <<object, faults>>

\* A closed activation window, or an answer the adapter cannot interpret.
Surprise(w) ==
    /\ w.heard = "none"
    /\ faults < MaxFaults
    /\ \E answer \in {"proof_required", "conflict"} :
          /\ (w.kind = "caller_put") => (answer = "proof_required")
          /\ Hear(w, answer)
    /\ faults' = faults + 1
    /\ NothingRecorded /\ UNCHANGED object

\* Bytes damaged or removed behind the service's back.
Damage(c) ==
    /\ object[c] = "intact"
    /\ faults < MaxFaults
    /\ \E to \in {"absent", "corrupt"} : object' = [object EXCEPT ![c] = to]
    /\ faults' = faults + 1
    /\ NothingRecorded /\ UNCHANGED work

-----------------------------------------------------------------------------
(* Terminal transactions of the put resolver.                                *)

\* Mutant: the terminal transaction trusts the claim it made earlier.
FencedByClaim(w) == attempt[w.a].gen >= w.gen

\* _matching_put_fence: generation and executor identify the same claim.
Fenced(w) ==
    /\ attempt[w.a].status = "put_in_flight"
    /\ attempt[w.a].gen = w.gen

Leave(a, status) ==
    attempt' = [attempt EXCEPT ![a].status = status, ![a].lease = "none"]

Done(w) == work' = work \ {w}

\* _complete_transaction_b: charges, replica, verification job and attempt.
CompleteTransactionB(w) ==
    /\ w.kind # "verification" /\ w.heard = "stored" /\ Fenced(w)
    /\ CompleteCharges(w.a)
    /\ replica' = [replica EXCEPT ![ContentOf[w.a]] =
                     IF @ = "none" THEN "pending" ELSE @]
    /\ job' = IF w.a \in Guides THEN job
              ELSE [job EXCEPT ![w.a].status = "pending"]
    /\ Leave(w.a, "object_confirmed")
    /\ Done(w)
    /\ UNCHANGED <<recovery, admitted, object, recoveries, faults>>

\* _record_put_absence
RecordAbsence(w) ==
    /\ w.kind = "observation" /\ w.heard = "absent" /\ Fenced(w)
    /\ ReleaseCharges(w.a)
    /\ Leave(w.a, "absent_replay_required")
    /\ Done(w)
    /\ UNCHANGED <<replica, job, recovery, admitted, object, recoveries, faults>>

\* A mismatch of the observed bytes quarantines the replica, unless another
\* attempt's verification has judged it otherwise.
Quarantine(c) ==
    IF replica[c] \in {"none", "pending", "integrity_mismatch"}
    THEN "integrity_mismatch" ELSE replica[c]

\* _record_put_terminal_observation for a mismatch
RecordMismatch(w) ==
    LET c == ContentOf[w.a] IN
    /\ w.kind = "observation" /\ w.heard = "integrity_mismatch" /\ Fenced(w)
    /\ CompleteCharges(w.a)
    /\ replica' = [replica EXCEPT ![c] = Quarantine(c)]
    /\ Leave(w.a, IF Quarantine(c) = "integrity_mismatch"
                  THEN "integrity_mismatch" ELSE "conflict")
    /\ Done(w)
    /\ UNCHANGED <<job, recovery, admitted, object, recoveries, faults>>

\* _record_put_terminal_observation for a conflict
RecordConflict(w) ==
    /\ w.kind = "observation" /\ w.heard = "conflict" /\ Fenced(w)
    /\ CompleteCharges(w.a)
    /\ Leave(w.a, "conflict")
    /\ Done(w)
    /\ UNCHANGED <<replica, job, recovery, admitted, object, recoveries, faults>>

\* _record_put_unavailable: the observations of the attempt are exhausted only
\* by unavailability, never by a missing live proof.
RecordUnavailable(w) ==
    /\ w.kind # "verification" /\ w.heard \in {"unavailable", "proof_required"}
    /\ Fenced(w)
    /\ Leave(w.a, IF w.heard = "unavailable" /\ attempt[w.a].obs >= Maximum[w.a]
                  THEN "provider_unavailable" ELSE "acknowledgement_unknown")
    /\ Done(w)
    /\ UNCHANGED <<charge, counted, replica, job, recovery, admitted, object,
                   recoveries, faults>>

-----------------------------------------------------------------------------
(* Terminal transactions of the verifier, and operator recovery.             *)

FencedJob(w) ==
    /\ job[w.a].status = "running"
    /\ job[w.a].gen = w.gen

EndJob(a, status) ==
    /\ job' = [job EXCEPT ![a].status = status, ![a].lease = "none"]
    /\ recovery' = [recovery EXCEPT ![a] =
                      IF @ = "requested" /\ status # "provider_unavailable"
                      THEN IF status = "verified" THEN "succeeded" ELSE "failed"
                      ELSE @]

\* _record_verification_unavailable
RecordVerificationUnavailable(w) ==
    /\ w.kind = "verification" /\ w.heard \in {"unavailable", "proof_required"}
    /\ FencedJob(w)
    /\ EndJob(w.a, IF job[w.a].tries >= Maximum[w.a]
                   THEN "exhausted" ELSE "provider_unavailable")
    /\ Done(w)
    /\ UNCHANGED <<attempt, charge, counted, replica, admitted, object,
                   recoveries, faults>>

\* What the verifier concluded from its read.
Verdict(w) ==
    CASE w.heard = "stored" -> "verified"
      [] w.heard = "absent" -> "missing"
      [] OTHER -> w.heard

Quarantined == {"missing", "integrity_mismatch"}

\* Mutant: a later clean read lifts the quarantine.
JudgedLast(c, verdict) == IF verdict = "conflict" THEN replica[c] ELSE verdict

\* The replica a verdict leaves: a quarantined one stays as it is.
Judged(c, verdict) ==
    IF verdict = "conflict" \/ replica[c] \in Quarantined THEN replica[c] ELSE verdict

\* _complete_verification_transaction, with the publication of a bundle's
\* submission admission; a publication the lineage refuses is a conflict.
CompleteVerification(w) ==
    LET c       == ContentOf[w.a]
        outcome == IF replica[c] \in Quarantined /\ Verdict(w) # replica[c]
                   THEN "conflict" ELSE Verdict(w)
    IN
    /\ w.kind = "verification"
    /\ w.heard \in {"stored", "absent", "integrity_mismatch", "conflict"}
    /\ FencedJob(w)
    /\ replica' = [replica EXCEPT ![c] = Judged(c, Verdict(w))]
    /\ \E publishable \in BOOLEAN :
          /\ (w.a \notin Bundles \/ outcome # "verified") => publishable
          /\ EndJob(w.a, IF publishable THEN outcome ELSE "conflict")
          /\ admitted' = admitted \cup
                {a \in {w.a} \cap Bundles : publishable /\ outcome = "verified"}
    /\ Done(w)
    /\ UNCHANGED <<attempt, charge, counted, object, recoveries, faults>>

\* ArtifactRecoveryService._create_locked: one retry for an exhausted job.  The
\* retry is a new row; generations go on counting so that a fence of the old
\* row never matches the new one.
RetryVerification(a) ==
    /\ job[a].status = "exhausted"
    /\ recoveries[a] < MaxRecoveries
    /\ job' = [job EXCEPT ![a].status = "pending", ![a].tries = 0]
    /\ recovery' = [recovery EXCEPT ![a] = "requested"]
    /\ recoveries' = [recoveries EXCEPT ![a] = @ + 1]
    /\ UNCHANGED <<attempt, charge, counted, replica, admitted, object, work, faults>>

-----------------------------------------------------------------------------
(* Leases, stale executors and crashes.                                      *)

\* The executor of a's current claim is still at work.
Held(a) == \E w \in work : w.a = a /\ w.kind # "verification" /\ Fenced(w)

HeldJob(a) == \E w \in work : w.a = a /\ w.kind = "verification" /\ FencedJob(w)

\* PostgreSQL's clock passes a lease.  It may pass that of an executor that is
\* slow and not dead, as a put may take longer than its lease; that is a fault.
LeaseExpires(a) ==
    /\ attempt[a].lease = "live"
    /\ Held(a) => faults < MaxFaults
    /\ attempt' = [attempt EXCEPT ![a].lease = "expired"]
    /\ faults' = IF Held(a) THEN faults + 1 ELSE faults
    /\ UNCHANGED <<charge, counted, replica, job, recovery, admitted, object,
                   work, recoveries>>

JobLeaseExpires(a) ==
    /\ job[a].lease = "live"
    /\ HeldJob(a) => faults < MaxFaults
    /\ job' = [job EXCEPT ![a].lease = "expired"]
    /\ faults' = IF HeldJob(a) THEN faults + 1 ELSE faults
    /\ UNCHANGED <<attempt, charge, counted, replica, recovery, admitted, object,
                   work, recoveries>>

\* The terminal transaction finds another generation, or another state.
Stale(w) ==
    /\ w.heard # "none"
    /\ IF w.kind = "verification" THEN ~FencedJob(w) ELSE ~Fenced(w)
    /\ Done(w)
    /\ NothingRecorded /\ UNCHANGED <<object, faults>>

Crash(w) ==
    /\ faults < MaxFaults
    /\ Done(w)
    /\ faults' = faults + 1
    /\ NothingRecorded /\ UNCHANGED object

-----------------------------------------------------------------------------

Records(w) ==
    \/ CompleteTransactionB(w) \/ RecordAbsence(w) \/ RecordMismatch(w)
    \/ RecordConflict(w) \/ RecordUnavailable(w)
    \/ RecordVerificationUnavailable(w) \/ CompleteVerification(w) \/ Stale(w)

Answered(w) == PutAcknowledged(w) \/ Observes(w) \/ NoAnswer(w)

Next ==
    \/ \E a \in Attempts :
          \/ Admit(a) \/ AdmitAgain(a)
          \/ ClaimPut(a) \/ ClaimObservation(a) \/ ClaimVerification(a)
          \/ RetryVerification(a)
          \/ LeaseExpires(a) \/ JobLeaseExpires(a)
    \/ \E w \in work :
          Records(w) \/ Answered(w) \/ PutLands(w) \/ Surprise(w) \/ Crash(w)
    \/ \E c \in Contents : Damage(c)

Spec == Init /\ [][Next]_vars

\* The scanner republishes due rows on a schedule, PostgreSQL's clock passes
\* leases, provider calls time out and a live executor records what it heard.
\* Callers, operators, crashes and landings owe nothing.
FairSpec ==
    /\ Spec
    /\ \A a \in Attempts :
          /\ WF_vars(ClaimObservation(a)) /\ WF_vars(ClaimVerification(a))
          /\ WF_vars(LeaseExpires(a)) /\ WF_vars(JobLeaseExpires(a))
          /\ WF_vars(\E w \in work : w.a = a /\ (Records(w) \/ Answered(w)))

-----------------------------------------------------------------------------
(* Properties.                                                               *)

\* Every scope counts exactly the contents charged to it, each once however
\* many attempts share it, and never more than its limit: admissions, replays
\* that reserve again and absences that give back (_reserve_charges,
\* execute_committed_put, _record_put_absence) keep the counter exact.
QuotaExact ==
    \A s \in Scopes :
        /\ counted[s] = SumFunctionOnSet(Size, {c \in Contents : charge[s][c] \in Live})
        /\ counted[s] <= Limit[s]

PutSettled == {"object_confirmed", "provider_unavailable", "integrity_mismatch", "conflict"}

JobSettled == {"verified", "missing", "integrity_mismatch", "conflict"}

\* A settled attempt or job never changes again, whatever executors of earlier
\* generations, late acknowledgements and replays still do; an exhausted job
\* leaves that state only for its one retry.
SettledForever ==
    [][\A a \in Attempts :
          /\ attempt[a].status \in PutSettled => attempt'[a] = attempt[a]
          /\ job[a].status \in JobSettled => job'[a] = job[a]
          /\ job[a].status = "exhausted" =>
                \/ job'[a] = job[a]
                \/ job'[a].status = "pending" /\ recovery'[a] = "requested"]_vars

\* Quarantine is never lifted: once one read of a content found it missing or
\* different, no other attempt's put, observation or verification makes the
\* shared replica look sound, and a submission admission is published only in a
\* transaction that leaves its replica verified.
QuarantineHolds ==
    [][/\ \A c \in Contents :
             replica[c] \in Quarantined => replica'[c] = replica[c]
       /\ \A a \in admitted' \ admitted : replica'[ContentOf[a]] = "verified"]_vars

\* Work on a that the scanner owns: a put prepared, claimed or unacknowledged, a
\* verification job, or the recovery envelope of one.
Open(a) ==
    \/ attempt[a].status \in {"prepared", "put_in_flight", "acknowledgement_unknown"}
    \/ job[a].status \in {"pending", "running", "provider_unavailable"}
    \/ recovery[a] = "requested"

\* Work the scanner owns does not stay open: whatever executors die, are late or
\* hear nothing, the attempt comes to a settled state or a recorded absence, its
\* job to an end, and a recovery envelope with it.
AmbiguityResolves == \A a \in Attempts : Open(a) ~> ~Open(a)

\* Decision 0013: stored content stays charged.  An attempt that confirmed its
\* object holds a charge that counts in every scope of the attempt.
ConfirmedIsCharged ==
    \A a \in Attempts :
        attempt[a].status = "object_confirmed" => Uncharged(a) = {}
=============================================================================
