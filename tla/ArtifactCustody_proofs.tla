----------------------- MODULE ArtifactCustody_proofs -----------------------
(***************************************************************************)
(* Proofs about ArtifactCustody for every set of attempts, contents and    *)
(* scopes, all sizes, limits and budgets.                                  *)
(***************************************************************************)
EXTENDS ArtifactCustody, Sums_proofs

PutRows == [status : PutStates, gen : Nat, obs : Nat, lease : Leases]

JobRows == [status : JobStates, gen : Nat, tries : Nat, lease : Leases]

Recoveries == {"none", "requested", "succeeded", "failed"}

Objects == {"absent", "intact", "corrupt"}

Shapes ==
    /\ attempt \in [Attempts -> PutRows]
    /\ job \in [Attempts -> JobRows]
    /\ recovery \in [Attempts -> Recoveries]
    /\ replica \in [Contents -> ReplicaStates]
    /\ counted \in [Scopes -> Int]
    /\ object \in [Contents -> Objects]
    /\ work \in SUBSET Executors

\* Only a confirmed attempt has a verification job.
JobsFollowConfirmation ==
    \A a \in Attempts : attempt[a].status # "object_confirmed" => job[a].status = "none"

\* Only a claimed row has a lease.
LeasesAreClaims ==
    \A a \in Attempts :
        /\ attempt[a].lease = "none" \/ attempt[a].status = "put_in_flight"
        /\ job[a].lease = "none" \/ job[a].status = "running"

\* No scope counts more than its limit.
WithinLimit == \A s \in Scopes : counted[s] <= Limit[s]

\* The inductive invariant.
CustodyInv == Shapes /\ JobsFollowConfirmation /\ LeasesAreClaims /\ WithinLimit

USE DEF PutRows, JobRows

\* Reserving bytes keeps every counter a number within its limit.
LEMMA ReserveBound ==
    ASSUME NEW a \in Attempts, Shapes, WithinLimit, Reserve(a)
    PROVE  counted' \in [Scopes -> Int] /\ WithinLimit'
  <1>1. ContentOf[a] \in Contents /\ Size[ContentOf[a]] \in Nat
    BY CustodyAssumption
  <1>2. counted' \in [Scopes -> Int]
    BY <1>1 DEF Reserve, Shapes
  <1>3. ASSUME NEW s \in Scopes PROVE counted'[s] <= Limit[s]
    <2>1. CASE s \in Uncharged(a)
      BY <2>1, <1>1 DEF Reserve, HasRoom, Shapes
    <2>2. CASE s \notin Uncharged(a)
      BY <2>2 DEF Reserve, WithinLimit, Shapes
    <2> QED
      BY <2>1, <2>2
  <1> QED
    BY <1>2, <1>3 DEF WithinLimit

\* Giving provisional bytes back keeps them so too.
LEMMA ReleaseBound ==
    ASSUME NEW a \in Attempts, Shapes, WithinLimit, ReleaseCharges(a)
    PROVE  counted' \in [Scopes -> Int] /\ WithinLimit'
  <1>1. ContentOf[a] \in Contents /\ Size[ContentOf[a]] \in Nat /\ Limit \in [Scopes -> Nat]
    BY CustodyAssumption
  <1>2. counted' \in [Scopes -> Int]
    BY <1>1 DEF ReleaseCharges, Shapes
  <1>3. ASSUME NEW s \in Scopes PROVE counted'[s] <= Limit[s]
    BY <1>1 DEF ReleaseCharges, WithinLimit, Shapes
  <1> QED
    BY <1>2, <1>3 DEF WithinLimit

\* An executor's attempt is one of the attempts.
LEMMA ExecutorType ==
    ASSUME Shapes, NEW w \in work
    PROVE  /\ w \in Executors /\ w.a \in Attempts /\ w.gen \in Nat
           /\ w.heard \in Answers /\ ContentOf[w.a] \in Contents
           /\ work \ {w} \in SUBSET Executors
           /\ \A h \in Answers : (work \ {w}) \cup {[w EXCEPT !.heard = h]} \in SUBSET Executors
  <1>1. w \in Executors /\ work \in SUBSET Executors
    BY DEF Shapes
  <1>2. w.a \in Attempts /\ w.gen \in Nat /\ w.heard \in Answers
    BY <1>1 DEF Executors
  <1>3. ASSUME NEW h \in Answers PROVE [w EXCEPT !.heard = h] \in Executors
    BY <1>1, <1>3 DEF Executors
  <1> QED
    BY <1>1, <1>2, <1>3, CustodyAssumption

\* The empty tables satisfy the invariant.
LEMMA InitInv == Init => CustodyInv
  <1> SUFFICES ASSUME Init PROVE CustodyInv
    OBVIOUS
  <1> USE DEF Init
  <1>1. Shapes
    BY DEF Shapes, PutStates, JobStates, Leases, Recoveries, ReplicaStates, Objects
  <1>2. JobsFollowConfirmation /\ LeasesAreClaims
    BY DEF JobsFollowConfirmation, LeasesAreClaims
  <1>3. WithinLimit
    BY CustodyAssumption DEF WithinLimit
  <1> QED
    BY <1>1, <1>2, <1>3 DEF CustodyInv

\* A row that leaves its claim is still a row.
LEMMA LeaveType ==
    ASSUME attempt \in [Attempts -> PutRows], NEW a \in Attempts, NEW st \in PutStates,
           Leave(a, st)
    PROVE  attempt' \in [Attempts -> PutRows]
  BY DEF Leave, Leases

\* Leaving put_in_flight for any other state keeps the rows in order.
LEMMA LeaveKeeps ==
    ASSUME CustodyInv, NEW a \in Attempts, NEW st \in PutStates, Leave(a, st),
           attempt[a].status = "put_in_flight",
           job' = job \/ (st = "object_confirmed" /\ job' = [job EXCEPT ![a].status = "pending"])
    PROVE  /\ attempt' \in [Attempts -> PutRows] /\ job' \in [Attempts -> JobRows]
           /\ JobsFollowConfirmation' /\ LeasesAreClaims'
  <1> USE DEF CustodyInv, Shapes, Leases, JobStates
  <1>1. attempt' \in [Attempts -> PutRows]
    BY LeaveType
  <1>2. job' \in [Attempts -> JobRows]
    <2>1. CASE job' = job
      BY <2>1
    <2>2. CASE job' = [job EXCEPT ![a].status = "pending"]
      BY <2>2
    <2> QED
      BY <2>1, <2>2
  <1>3. JobsFollowConfirmation'
    BY DEF Leave, JobsFollowConfirmation
  <1>4. job[a].status = "none" /\ job[a].lease = "none"
    BY DEF JobsFollowConfirmation, LeasesAreClaims
  <1>5. LeasesAreClaims'
    BY <1>4 DEF Leave, LeasesAreClaims
  <1> QED
    BY <1>1, <1>2, <1>3, <1>5

\* Ending the execution of a running job does too.
LEMMA EndJobKeeps ==
    ASSUME CustodyInv, NEW a \in Attempts, NEW st \in JobStates, EndJob(a, st),
           job[a].status = "running", attempt' = attempt
    PROVE  /\ job' \in [Attempts -> JobRows] /\ recovery' \in [Attempts -> Recoveries]
           /\ JobsFollowConfirmation' /\ LeasesAreClaims'
  <1> USE DEF CustodyInv, Shapes
  <1>1. job' \in [Attempts -> JobRows]
    BY DEF EndJob, Leases
  <1>2. recovery' \in [Attempts -> Recoveries]
    BY DEF EndJob, Recoveries
  <1>3. JobsFollowConfirmation'
    BY DEF EndJob, JobsFollowConfirmation
  <1>4. LeasesAreClaims'
    BY DEF EndJob, LeasesAreClaims
  <1> QED
    BY <1>1, <1>2, <1>3, <1>4

\* A step that leaves the rows and counters alone keeps the invariant.
LEMMA ExecutorsOnly ==
    ASSUME CustodyInv, NothingRecorded, work' \in SUBSET Executors,
           object' \in [Contents -> Objects]
    PROVE  CustodyInv'
  BY DEF CustodyInv, NothingRecorded, Shapes, JobsFollowConfirmation, LeasesAreClaims, WithinLimit

\* A stutter preserves the invariant.
LEMMA StutterKeeps == CustodyInv /\ UNCHANGED vars => CustodyInv'
  BY DEF CustodyInv, vars, Shapes, JobsFollowConfirmation, LeasesAreClaims, WithinLimit

\* Admission, claims, operator recovery and the clock.
LEMMA RowStepKeeps ==
    ASSUME CustodyInv, NEW a \in Attempts,
           \/ Admit(a) \/ AdmitAgain(a)
           \/ ClaimPut(a) \/ ClaimObservation(a) \/ ClaimVerification(a)
           \/ RetryVerification(a)
           \/ LeaseExpires(a) \/ JobLeaseExpires(a)
    PROVE  CustodyInv'
  <1> USE DEF CustodyInv
  <1>0. /\ attempt \in [Attempts -> PutRows] /\ job \in [Attempts -> JobRows]
        /\ attempt[a] \in PutRows /\ job[a] \in JobRows
        /\ work \in SUBSET Executors /\ recovery \in [Attempts -> Recoveries]
    BY DEF Shapes
  <1>1. CASE Admit(a)
    <2>1. counted' \in [Scopes -> Int] /\ WithinLimit'
      BY <1>1, ReserveBound DEF Admit
    <2>2. Shapes'
      BY <1>1, <1>0, <2>1 DEF Admit, Shapes, PutStates
    <2>3. JobsFollowConfirmation' /\ LeasesAreClaims'
      BY <1>1, <1>0 DEF Admit, JobsFollowConfirmation, LeasesAreClaims
    <2> QED
      BY <2>1, <2>2, <2>3
  <1>2. CASE AdmitAgain(a)
    <2>1. counted' \in [Scopes -> Int] /\ WithinLimit'
      BY <1>2, ReserveBound DEF AdmitAgain
    <2>2. Shapes'
      BY <1>2, <1>0, <2>1 DEF AdmitAgain, Shapes
    <2>3. JobsFollowConfirmation' /\ LeasesAreClaims'
      BY <1>2, <1>0 DEF AdmitAgain, JobsFollowConfirmation, LeasesAreClaims
    <2> QED
      BY <2>1, <2>2, <2>3
  <1>3. CASE ClaimPut(a)
    <2>1. counted' \in [Scopes -> Int] /\ WithinLimit'
      BY <1>3, ReserveBound DEF ClaimPut
    <2>2. Executor(a, "caller_put", attempt[a].gen + 1) \in Executors
      BY <1>0 DEF Executor, Executors, Kinds, Answers
    <2>3. Shapes'
      BY <1>3, <1>0, <2>1, <2>2 DEF ClaimPut, Shapes, PutStates, Leases
    <2>4. JobsFollowConfirmation' /\ LeasesAreClaims'
      BY <1>3, <1>0 DEF ClaimPut, JobsFollowConfirmation, LeasesAreClaims
    <2> QED
      BY <2>1, <2>3, <2>4
  <1>4. CASE ClaimObservation(a)
    <2>1. Executor(a, "observation", attempt[a].gen + 1) \in Executors
      BY <1>0 DEF Executor, Executors, Kinds, Answers
    <2>2. Shapes'
      BY <1>4, <1>0, <2>1 DEF ClaimObservation, Shapes, PutStates, Leases
    <2>3. JobsFollowConfirmation' /\ LeasesAreClaims'
      BY <1>4, <1>0 DEF ClaimObservation, Observable, JobsFollowConfirmation, LeasesAreClaims
    <2>4. WithinLimit'
      BY <1>4 DEF ClaimObservation, WithinLimit
    <2> QED
      BY <2>2, <2>3, <2>4
  <1>5. CASE ClaimVerification(a)
    <2>1. Executor(a, "verification", job[a].gen + 1) \in Executors
      BY <1>0 DEF Executor, Executors, Kinds, Answers
    <2>2. Shapes'
      BY <1>5, <1>0, <2>1 DEF ClaimVerification, Shapes, JobStates, Leases
    <2>3. JobsFollowConfirmation' /\ LeasesAreClaims'
      BY <1>5, <1>0 DEF ClaimVerification, Verifiable, JobsFollowConfirmation, LeasesAreClaims
    <2>4. WithinLimit'
      BY <1>5 DEF ClaimVerification, WithinLimit
    <2> QED
      BY <2>2, <2>3, <2>4
  <1>6. CASE RetryVerification(a)
    <2>1. Shapes'
      BY <1>6, <1>0 DEF RetryVerification, Shapes, JobStates, Recoveries
    <2>2. JobsFollowConfirmation' /\ LeasesAreClaims'
      BY <1>6, <1>0 DEF RetryVerification, JobsFollowConfirmation, LeasesAreClaims
    <2>3. WithinLimit'
      BY <1>6 DEF RetryVerification, WithinLimit
    <2> QED
      BY <2>1, <2>2, <2>3
  <1>7. CASE LeaseExpires(a)
    <2>1. Shapes'
      BY <1>7, <1>0 DEF LeaseExpires, Shapes, Leases
    <2>2. JobsFollowConfirmation' /\ LeasesAreClaims'
      BY <1>7, <1>0 DEF LeaseExpires, JobsFollowConfirmation, LeasesAreClaims
    <2>3. WithinLimit'
      BY <1>7 DEF LeaseExpires, WithinLimit
    <2> QED
      BY <2>1, <2>2, <2>3
  <1>8. CASE JobLeaseExpires(a)
    <2>1. Shapes'
      BY <1>8, <1>0 DEF JobLeaseExpires, Shapes, Leases
    <2>2. JobsFollowConfirmation' /\ LeasesAreClaims'
      BY <1>8, <1>0 DEF JobLeaseExpires, JobsFollowConfirmation, LeasesAreClaims
    <2>3. WithinLimit'
      BY <1>8 DEF JobLeaseExpires, WithinLimit
    <2> QED
      BY <2>1, <2>2, <2>3
  <1> QED
    BY <1>1, <1>2, <1>3, <1>4, <1>5, <1>6, <1>7, <1>8

\* The terminal transactions of the put resolver.
LEMMA PutRecordKeeps ==
    ASSUME CustodyInv, NEW w \in work,
           \/ CompleteTransactionB(w) \/ RecordAbsence(w) \/ RecordMismatch(w)
           \/ RecordConflict(w) \/ RecordUnavailable(w)
    PROVE  CustodyInv'
  <1> USE DEF CustodyInv
  <1>0. /\ w.a \in Attempts /\ ContentOf[w.a] \in Contents
        /\ work \ {w} \in SUBSET Executors
    BY ExecutorType
  <1> USE <1>0
  <1>1. CASE CompleteTransactionB(w)
    <2>1. job' = job \/ job' = [job EXCEPT ![w.a].status = "pending"]
      BY <1>1 DEF CompleteTransactionB
    <2>2. /\ attempt' \in [Attempts -> PutRows] /\ job' \in [Attempts -> JobRows]
          /\ JobsFollowConfirmation' /\ LeasesAreClaims'
      BY <1>1, <2>1, LeaveKeeps DEF CompleteTransactionB, Fenced, PutStates
    <2>3. replica' \in [Contents -> ReplicaStates]
      BY <1>1 DEF CompleteTransactionB, Shapes, ReplicaStates
    <2>4. counted' = counted /\ recovery' = recovery /\ work' = work \ {w} /\ object' = object
      BY <1>1 DEF CompleteTransactionB, CompleteCharges, Done
    <2> QED
      BY <2>2, <2>3, <2>4 DEF Shapes, WithinLimit
  <1>2. CASE RecordAbsence(w)
    <2>1. /\ attempt' \in [Attempts -> PutRows] /\ job' \in [Attempts -> JobRows]
          /\ JobsFollowConfirmation' /\ LeasesAreClaims'
      BY <1>2, LeaveKeeps DEF RecordAbsence, Fenced, PutStates
    <2>2. counted' \in [Scopes -> Int] /\ WithinLimit'
      BY <1>2, ReleaseBound DEF RecordAbsence
    <2>3. replica' = replica /\ recovery' = recovery /\ work' = work \ {w} /\ object' = object
      BY <1>2 DEF RecordAbsence, Done
    <2> QED
      BY <2>1, <2>2, <2>3 DEF Shapes
  <1>3. CASE RecordMismatch(w)
    <2>1. /\ attempt' \in [Attempts -> PutRows] /\ job' \in [Attempts -> JobRows]
          /\ JobsFollowConfirmation' /\ LeasesAreClaims'
      BY <1>3, LeaveKeeps DEF RecordMismatch, Fenced, PutStates
    <2>2. replica' \in [Contents -> ReplicaStates]
      BY <1>3 DEF RecordMismatch, Quarantine, Shapes, ReplicaStates
    <2>3. counted' = counted /\ recovery' = recovery /\ work' = work \ {w} /\ object' = object
      BY <1>3 DEF RecordMismatch, CompleteCharges, Done
    <2> QED
      BY <2>1, <2>2, <2>3 DEF Shapes, WithinLimit
  <1>4. CASE RecordConflict(w)
    <2>1. /\ attempt' \in [Attempts -> PutRows] /\ job' \in [Attempts -> JobRows]
          /\ JobsFollowConfirmation' /\ LeasesAreClaims'
      BY <1>4, LeaveKeeps DEF RecordConflict, Fenced, PutStates
    <2>2. counted' = counted /\ recovery' = recovery /\ replica' = replica
          /\ work' = work \ {w} /\ object' = object
      BY <1>4 DEF RecordConflict, CompleteCharges, Done
    <2> QED
      BY <2>1, <2>2 DEF Shapes, WithinLimit
  <1>5. CASE RecordUnavailable(w)
    <2>1. /\ attempt' \in [Attempts -> PutRows] /\ job' \in [Attempts -> JobRows]
          /\ JobsFollowConfirmation' /\ LeasesAreClaims'
      BY <1>5, LeaveKeeps DEF RecordUnavailable, Fenced, PutStates
    <2>2. counted' = counted /\ recovery' = recovery /\ replica' = replica
          /\ work' = work \ {w} /\ object' = object
      BY <1>5 DEF RecordUnavailable, Done
    <2> QED
      BY <2>1, <2>2 DEF Shapes, WithinLimit
  <1> QED
    BY <1>1, <1>2, <1>3, <1>4, <1>5

\* The terminal transactions of the verifier, and the ones found stale.
LEMMA VerificationKeeps ==
    ASSUME CustodyInv, NEW w \in work,
           RecordVerificationUnavailable(w) \/ CompleteVerification(w) \/ Stale(w)
    PROVE  CustodyInv'
  <1> USE DEF CustodyInv
  <1>0. /\ w.a \in Attempts /\ ContentOf[w.a] \in Contents /\ w.heard \in Answers
        /\ work \ {w} \in SUBSET Executors
    BY ExecutorType
  <1> USE <1>0
  <1>1. CASE RecordVerificationUnavailable(w)
    <2>1. /\ job' \in [Attempts -> JobRows] /\ recovery' \in [Attempts -> Recoveries]
          /\ JobsFollowConfirmation' /\ LeasesAreClaims'
      BY <1>1, EndJobKeeps DEF RecordVerificationUnavailable, FencedJob, JobStates
    <2>2. attempt' = attempt /\ counted' = counted /\ replica' = replica
          /\ work' = work \ {w} /\ object' = object
      BY <1>1 DEF RecordVerificationUnavailable, Done
    <2> QED
      BY <2>1, <2>2 DEF Shapes, WithinLimit
  <1>2. CASE CompleteVerification(w)
    <2>1. Verdict(w) \in {"verified", "missing", "integrity_mismatch", "conflict"}
      BY <1>2 DEF CompleteVerification, Verdict
    <2>2. replica' \in [Contents -> ReplicaStates]
      BY <1>2, <2>1 DEF CompleteVerification, Judged, Shapes, ReplicaStates
    <2>3. \E st \in JobStates : EndJob(w.a, st)
      BY <1>2, <2>1 DEF CompleteVerification, JobStates
    <2>4. /\ attempt' = attempt /\ counted' = counted
          /\ work' = work \ {w} /\ object' = object
          /\ job[w.a].status = "running"
      BY <1>2 DEF CompleteVerification, Done, FencedJob
    <2>5. /\ job' \in [Attempts -> JobRows] /\ recovery' \in [Attempts -> Recoveries]
          /\ JobsFollowConfirmation' /\ LeasesAreClaims'
      BY <2>3, <2>4, EndJobKeeps
    <2> QED
      BY <2>2, <2>4, <2>5 DEF Shapes, WithinLimit
  <1>3. CASE Stale(w)
    BY <1>3, ExecutorsOnly DEF Stale, Done, Shapes
  <1> QED
    BY <1>1, <1>2, <1>3

\* The provider, the network and crashes move executors and objects only.
LEMMA ProviderKeeps ==
    ASSUME CustodyInv, NEW w \in work,
           Answered(w) \/ PutLands(w) \/ Surprise(w) \/ Crash(w)
    PROVE  CustodyInv'
  <1>0. /\ object \in [Contents -> Objects]
        /\ work \in SUBSET Executors /\ work \ {w} \in SUBSET Executors
        /\ \A h \in Answers : (work \ {w}) \cup {[w EXCEPT !.heard = h]} \in SUBSET Executors
    BY ExecutorType DEF CustodyInv, Shapes
  <1>1. CASE PutAcknowledged(w)
    BY <1>0, <1>1, ExecutorsOnly DEF PutAcknowledged, Hear, Answers
  <1>2. CASE Observes(w)
    <2>1. object[ContentOf[w.a]] \in Objects
      BY <1>0, ExecutorType DEF CustodyInv, Shapes
    <2> QED
      BY <1>0, <1>2, <2>1, ExecutorsOnly DEF Observes, Hear, Answers, Objects
  <1>3. CASE NoAnswer(w)
    BY <1>0, <1>3, ExecutorsOnly DEF NoAnswer, Hear, Answers
  <1>4. CASE PutLands(w)
    BY <1>0, <1>4, ExecutorsOnly DEF PutLands, Objects
  <1>5. CASE Surprise(w)
    BY <1>0, <1>5, ExecutorsOnly DEF Surprise, Hear, Answers
  <1>6. CASE Crash(w)
    BY <1>0, <1>6, ExecutorsOnly DEF Crash, Done
  <1> QED
    BY <1>1, <1>2, <1>3, <1>4, <1>5, <1>6 DEF Answered

\* Every step keeps the inductive invariant.
LEMMA NextKeeps == CustodyInv /\ [Next]_vars => CustodyInv'
  <1> SUFFICES ASSUME CustodyInv, [Next]_vars PROVE CustodyInv'
    OBVIOUS
  <1>1. CASE \E a \in Attempts :
                \/ Admit(a) \/ AdmitAgain(a)
                \/ ClaimPut(a) \/ ClaimObservation(a) \/ ClaimVerification(a)
                \/ RetryVerification(a)
                \/ LeaseExpires(a) \/ JobLeaseExpires(a)
    BY <1>1, RowStepKeeps
  <1>2. CASE \E w \in work :
                Records(w) \/ Answered(w) \/ PutLands(w) \/ Surprise(w) \/ Crash(w)
    BY <1>2, PutRecordKeeps, VerificationKeeps, ProviderKeeps DEF Records
  <1>3. CASE \E c \in Contents : Damage(c)
    <2>1. NothingRecorded /\ work' = work /\ object' \in [Contents -> Objects]
      BY <1>3 DEF Damage, CustodyInv, Shapes, Objects
    <2> QED
      BY <2>1, ExecutorsOnly DEF CustodyInv, Shapes
  <1>4. CASE UNCHANGED vars
    BY <1>4, StutterKeeps
  <1> QED
    BY <1>1, <1>2, <1>3, <1>4 DEF Next

\* The inductive invariant holds in every reachable state: rows keep their
\* shapes, only confirmed attempts have jobs, only claimed rows have leases and
\* no scope counts more bytes than its limit allows.
THEOREM CustodyInvariant == Spec => []CustodyInv
  BY InitInv, NextKeeps, PTL DEF Spec

\* No interleaving of admissions, replays that reserve again, absences and
\* crashes brings a scope above its durable-byte limit (_reserve_charges,
\* execute_committed_put).
THEOREM LimitNeverExceeded == Spec => []WithinLimit
  <1>1. CustodyInv => WithinLimit
    BY DEF CustodyInv
  <1> QED
    BY <1>1, CustodyInvariant, PTL

-----------------------------------------------------------------------------

SettledStep ==
    \A a \in Attempts :
        /\ attempt[a].status \in PutSettled => attempt'[a] = attempt[a]
        /\ job[a].status \in JobSettled => job'[a] = job[a]
        /\ job[a].status = "exhausted" =>
              \/ job'[a] = job[a]
              \/ job'[a].status = "pending" /\ recovery'[a] = "requested"

\* A transaction that leaves both tables of rows alone settles nothing.
LEMMA RowsSame ==
    ASSUME attempt' = attempt, job' = job
    PROVE  SettledStep
  BY DEF SettledStep

\* Changing one unsettled attempt, and no job, respects the settled ones.
LEMMA AttemptStep ==
    ASSUME CustodyInv, NEW a \in Attempts, attempt[a].status \notin PutSettled, job' = job,
           \A b \in Attempts : b # a => attempt'[b] = attempt[b]
    PROVE  SettledStep
  BY DEF SettledStep

\* So does changing one job that has not come to its end.
LEMMA JobStep ==
    ASSUME CustodyInv, NEW a \in Attempts, attempt' = attempt,
           job[a].status \notin JobSettled \cup {"exhausted"},
           \A b \in Attempts : b # a => job'[b] = job[b]
    PROVE  SettledStep
  BY DEF SettledStep

\* Every step leaves settled attempts and finished jobs as they are: the only
\* writers of a row hold its claim (claim generation and LeasesAreClaims) or
\* find it open (JobsFollowConfirmation).
LEMMA SettledKeeps == CustodyInv /\ [Next]_vars => SettledStep
  <1> SUFFICES ASSUME CustodyInv, [Next]_vars PROVE SettledStep
    OBVIOUS
  <1>0. attempt \in [Attempts -> PutRows] /\ job \in [Attempts -> JobRows]
    BY DEF CustodyInv, Shapes
  <1>1. ASSUME NEW a \in Attempts,
               \/ Admit(a) \/ ClaimPut(a) \/ ClaimObservation(a) \/ LeaseExpires(a)
        PROVE  SettledStep
    <2>1. attempt[a].status \notin PutSettled
      BY <1>1 DEF Admit, ClaimPut, ClaimObservation, Observable, LeaseExpires,
                  CustodyInv, LeasesAreClaims, PutSettled
    <2>2. /\ job' = job
          /\ \A b \in Attempts : b # a => attempt'[b] = attempt[b]
      BY <1>0, <1>1 DEF Admit, ClaimPut, ClaimObservation, LeaseExpires
    <2> QED
      BY <2>1, <2>2, AttemptStep
  <1>2. ASSUME NEW a \in Attempts, ClaimVerification(a) \/ JobLeaseExpires(a)
        PROVE  SettledStep
    <2>1. job[a].status \notin JobSettled \cup {"exhausted"}
      BY <1>2 DEF ClaimVerification, Verifiable, JobLeaseExpires, CustodyInv,
                  LeasesAreClaims, JobSettled
    <2>2. /\ attempt' = attempt
          /\ \A b \in Attempts : b # a => job'[b] = job[b]
      BY <1>0, <1>2 DEF ClaimVerification, JobLeaseExpires
    <2> QED
      BY <2>1, <2>2, JobStep
  <1>3. ASSUME NEW a \in Attempts, RetryVerification(a)
        PROVE  SettledStep
    <2>1. /\ attempt' = attempt
          /\ job[a].status = "exhausted"
          /\ job'[a].status = "pending"
          /\ \A b \in Attempts : b # a => job'[b] = job[b]
      BY <1>0, <1>3 DEF RetryVerification
    <2>2. recovery'[a] = "requested"
      BY <1>3 DEF RetryVerification, CustodyInv, Shapes
    <2> QED
      BY <2>1, <2>2 DEF SettledStep, JobSettled
  <1>4. ASSUME NEW a \in Attempts, AdmitAgain(a)
        PROVE  SettledStep
    BY <1>4, RowsSame DEF AdmitAgain
  <1>5. ASSUME NEW w \in work,
               \/ RecordAbsence(w) \/ RecordMismatch(w)
               \/ RecordConflict(w) \/ RecordUnavailable(w)
        PROVE  SettledStep
    <2>1. /\ w.a \in Attempts /\ attempt[w.a].status \notin PutSettled /\ job' = job
          /\ \E st : Leave(w.a, st)
      BY <1>5, ExecutorType DEF CustodyInv, RecordAbsence, RecordMismatch, RecordConflict,
                                RecordUnavailable, Fenced, PutSettled
    <2>2. \A b \in Attempts : b # w.a => attempt'[b] = attempt[b]
      BY <1>0, <2>1 DEF Leave
    <2> QED
      BY <2>1, <2>2, AttemptStep
  <1>6. ASSUME NEW w \in work, CompleteTransactionB(w)
        PROVE  SettledStep
    <2>1. /\ w.a \in Attempts /\ attempt[w.a].status = "put_in_flight"
          /\ Leave(w.a, "object_confirmed")
      BY <1>6, ExecutorType DEF CustodyInv, CompleteTransactionB, Fenced
    <2>2. job[w.a].status = "none"
      BY <2>1 DEF CustodyInv, JobsFollowConfirmation
    <2>3. \A b \in Attempts : b # w.a => attempt'[b] = attempt[b]
      BY <1>0, <2>1 DEF Leave
    <2>4. \A b \in Attempts : b # w.a => job'[b] = job[b]
      BY <1>0, <1>6 DEF CompleteTransactionB
    <2> QED
      BY <2>1, <2>2, <2>3, <2>4 DEF SettledStep, PutSettled, JobSettled
  <1>7. ASSUME NEW w \in work, RecordVerificationUnavailable(w) \/ CompleteVerification(w)
        PROVE  SettledStep
    <2>1. w.a \in Attempts
      BY ExecutorType DEF CustodyInv
    <2>2. /\ attempt' = attempt /\ job[w.a].status = "running"
          /\ \E st : EndJob(w.a, st)
      BY <1>7 DEF RecordVerificationUnavailable, CompleteVerification, FencedJob
    <2>3. \A b \in Attempts : b # w.a => job'[b] = job[b]
      BY <1>0, <2>2 DEF EndJob
    <2>4. job[w.a].status \notin JobSettled \cup {"exhausted"}
      BY <2>2 DEF JobSettled
    <2> QED
      BY <2>1, <2>2, <2>3, <2>4, JobStep
  <1>8. ASSUME NEW w \in work,
               Stale(w) \/ Answered(w) \/ PutLands(w) \/ Surprise(w) \/ Crash(w)
        PROVE  SettledStep
    BY <1>8, RowsSame DEF Stale, Answered, PutAcknowledged, Observes, NoAnswer, PutLands,
                          Surprise, Crash, NothingRecorded
  <1>9. ASSUME NEW c \in Contents, Damage(c)
        PROVE  SettledStep
    BY <1>9, RowsSame DEF Damage, NothingRecorded
  <1>10. CASE UNCHANGED vars
    BY <1>10, RowsSame DEF vars
  <1> QED
    BY <1>1, <1>2, <1>3, <1>4, <1>5, <1>6, <1>7, <1>8, <1>9, <1>10 DEF Next, Records

\* A settled attempt or job never changes again, whatever late executors of
\* earlier generations do, and an exhausted job only becomes its one retry
\* (_matching_put_fence, ArtifactRecoveryService._create_locked).
THEOREM SettledHolds == Spec => SettledForever
  <1>1. CustodyInv /\ [Next]_vars => [SettledStep]_vars
    BY SettledKeeps
  <1> QED
    BY <1>1, CustodyInvariant, PTL DEF Spec, SettledForever, SettledStep

-----------------------------------------------------------------------------

QuarantineStep ==
    /\ \A c \in Contents : replica[c] \in Quarantined => replica'[c] = replica[c]
    /\ \A a \in admitted' \ admitted : replica'[ContentOf[a]] = "verified"

\* Every step leaves a quarantined replica quarantined and admits only what its
\* replica records as verified.
LEMMA QuarantineKeeps == CustodyInv /\ [Next]_vars => QuarantineStep
  <1> SUFFICES ASSUME CustodyInv, [Next]_vars PROVE QuarantineStep
    OBVIOUS
  <1>0. replica \in [Contents -> ReplicaStates]
    BY DEF CustodyInv, Shapes
  <1>1. CASE replica' = replica /\ admitted' = admitted
    BY <1>1 DEF QuarantineStep
  <1>2. ASSUME NEW w \in work, CompleteTransactionB(w)
        PROVE  QuarantineStep
    BY <1>0, <1>2 DEF CompleteTransactionB, QuarantineStep, Quarantined
  <1>3. ASSUME NEW w \in work, RecordMismatch(w)
        PROVE  QuarantineStep
    BY <1>0, <1>3 DEF RecordMismatch, Quarantine, QuarantineStep, Quarantined
  <1>4. ASSUME NEW w \in work, CompleteVerification(w)
        PROVE  QuarantineStep
    <2>1. ContentOf[w.a] \in Contents
      BY ExecutorType DEF CustodyInv
    <2>2. replica' = [replica EXCEPT ![ContentOf[w.a]] = Judged(ContentOf[w.a], Verdict(w))]
      BY <1>4 DEF CompleteVerification
    <2>3. \A c \in Contents : replica[c] \in Quarantined => replica'[c] = replica[c]
      BY <1>0, <2>1, <2>2 DEF Judged
    <2>4. ASSUME NEW a \in admitted' \ admitted
          PROVE  replica'[ContentOf[a]] = "verified"
      <3>1. a = w.a /\ Verdict(w) = "verified" /\ replica[ContentOf[w.a]] \notin Quarantined
        BY <1>4, <2>4 DEF CompleteVerification, Quarantined
      <3> QED
        BY <1>0, <2>1, <2>2, <3>1 DEF Judged
    <2> QED
      BY <2>3, <2>4 DEF QuarantineStep
  <1>5. ASSUME NEW a \in Attempts,
               \/ Admit(a) \/ AdmitAgain(a)
               \/ ClaimPut(a) \/ ClaimObservation(a) \/ ClaimVerification(a)
               \/ RetryVerification(a)
               \/ LeaseExpires(a) \/ JobLeaseExpires(a)
        PROVE  replica' = replica /\ admitted' = admitted
    BY <1>5 DEF Admit, AdmitAgain, ClaimPut, ClaimObservation, ClaimVerification,
                RetryVerification, LeaseExpires, JobLeaseExpires
  <1>6. ASSUME NEW w \in work,
               \/ RecordAbsence(w) \/ RecordConflict(w) \/ RecordUnavailable(w)
               \/ RecordVerificationUnavailable(w)
        PROVE  replica' = replica /\ admitted' = admitted
    BY <1>6 DEF RecordAbsence, RecordConflict, RecordUnavailable, RecordVerificationUnavailable
  <1>7. ASSUME NEW w \in work,
               Stale(w) \/ Answered(w) \/ PutLands(w) \/ Surprise(w) \/ Crash(w)
        PROVE  replica' = replica /\ admitted' = admitted
    BY <1>7 DEF Stale, Answered, PutAcknowledged, Observes, NoAnswer, PutLands, Surprise,
                Crash, NothingRecorded
  <1>8. ASSUME NEW c \in Contents, Damage(c)
        PROVE  replica' = replica /\ admitted' = admitted
    BY <1>8 DEF Damage, NothingRecorded
  <1>9. CASE UNCHANGED vars
    BY <1>9, <1>1 DEF vars
  <1> QED
    BY <1>1, <1>2, <1>3, <1>4, <1>5, <1>6, <1>7, <1>8, <1>9 DEF Next, Records

\* Quarantine is never lifted, and a submission admission is published only by
\* a transaction that leaves its replica verified, for any number of attempts
\* on the same content (_complete_verification_transaction).
THEOREM QuarantineNeverLifted == Spec => QuarantineHolds
  <1>1. CustodyInv /\ [Next]_vars => [QuarantineStep]_vars
    BY QuarantineKeeps
  <1> QED
    BY <1>1, CustodyInvariant, PTL DEF Spec, QuarantineHolds, QuarantineStep

-----------------------------------------------------------------------------
(* The counters.                                                           *)

ChargeStates == {"none", "provisional", "completed", "released"}

\* The contents a scope is charged for, and the counter that says so.
Charged(s) == {c \in Contents : charge[s][c] \in Live}

CountsExact == \A s \in Scopes : counted[s] = SumFunctionOnSet(Size, Charged(s))

ChargesInv == charge \in [Scopes -> [Contents -> ChargeStates]] /\ CountsExact

LEMMA ChargedSums ==
    ASSUME NEW S \in SUBSET Contents
    PROVE  /\ IsFiniteSet(S) /\ SumFunctionOnSet(Size, S) \in Nat
           /\ \A c \in S : SumFunctionOnSet(Size, S) = Size[c] + SumFunctionOnSet(Size, S \ {c})
  <1>1. IsFiniteSet(S) /\ \A c \in S : Size[c] \in Nat
    BY CustodyAssumption, FS_Subset
  <1> QED
    BY <1>1, SumNat, SumRemove

\* A reservation adds the content to every scope that did not count it.
LEMMA ReserveExact ==
    ASSUME NEW a \in Attempts, Shapes, ChargesInv, Reserve(a)
    PROVE  ChargesInv'
  <1> DEFINE c == ContentOf[a]
  <1>1. c \in Contents /\ Size[c] \in Nat
    BY CustodyAssumption
  <1>2. charge' \in [Scopes -> [Contents -> ChargeStates]]
    BY <1>1 DEF Reserve, ChargesInv, ChargeStates
  <1> HIDE DEF c
  <1>3. ASSUME NEW s \in Scopes PROVE counted'[s] = SumFunctionOnSet(Size, Charged(s)')
    <2>0. counted[s] = SumFunctionOnSet(Size, Charged(s)) /\ counted[s] \in Int
      BY DEF ChargesInv, CountsExact, Shapes
    <2>1. CASE s \in Uncharged(a)
      <3>1. charge'[s] = [charge[s] EXCEPT ![c] = "provisional"] /\ counted'[s] = counted[s] + Size[c]
        BY <2>1 DEF Reserve, c
      <3>2. c \notin Charged(s) /\ Charged(s)' = Charged(s) \cup {c}
        BY <1>1, <2>1, <3>1 DEF Charged, Live, Uncharged, ChargesInv, c
      <3>3. Charged(s)' \in SUBSET Contents /\ c \in Charged(s)' /\ Charged(s)' \ {c} = Charged(s)
        BY <1>1, <3>2 DEF Charged
      <3>4. SumFunctionOnSet(Size, Charged(s)') = Size[c] + SumFunctionOnSet(Size, Charged(s))
        BY <3>3, ChargedSums
      <3> QED
        BY <1>1, <2>0, <3>1, <3>4
    <2>2. CASE s \notin Uncharged(a)
      <3>1. charge'[s] = charge[s] /\ counted'[s] = counted[s]
        BY <2>2 DEF Reserve
      <3>2. Charged(s)' = Charged(s)
        BY <3>1 DEF Charged
      <3> QED
        BY <2>0, <3>1, <3>2
    <2> QED
      BY <2>1, <2>2
  <1> QED
    BY <1>2, <1>3 DEF ChargesInv, CountsExact

\* Completing a provisional charge changes no sum.
LEMMA CompleteExact ==
    ASSUME NEW a \in Attempts, ChargesInv, CompleteCharges(a)
    PROVE  ChargesInv'
  <1>1. ContentOf[a] \in Contents
    BY CustodyAssumption
  <1>2. charge' \in [Scopes -> [Contents -> ChargeStates]]
    BY <1>1 DEF CompleteCharges, MoveProvisional, ChargesInv, ChargeStates
  <1>3. ASSUME NEW s \in Scopes PROVE Charged(s)' = Charged(s)
    <2>1. CASE s \in Provisional(a)
      <3>1. charge'[s] = [charge[s] EXCEPT ![ContentOf[a]] = "completed"]
            /\ charge[s][ContentOf[a]] = "provisional"
        BY <2>1 DEF CompleteCharges, MoveProvisional, Provisional
      <3> QED
        BY <1>1, <3>1 DEF Charged, Live, ChargesInv
    <2>2. CASE s \notin Provisional(a)
      <3>1. charge'[s] = charge[s]
        BY <2>2 DEF CompleteCharges, MoveProvisional
      <3> QED
        BY <3>1 DEF Charged
    <2> QED
      BY <2>1, <2>2
  <1>4. counted' = counted
    BY DEF CompleteCharges
  <1> QED
    BY <1>2, <1>3, <1>4 DEF ChargesInv, CountsExact

\* An absence gives back what the attempt's provisional charges counted.
LEMMA ReleaseExact ==
    ASSUME NEW a \in Attempts, Shapes, ChargesInv, ReleaseCharges(a)
    PROVE  ChargesInv'
  <1> DEFINE c == ContentOf[a]
  <1>1. c \in Contents /\ Size[c] \in Nat
    BY CustodyAssumption
  <1>2. charge' \in [Scopes -> [Contents -> ChargeStates]]
    BY <1>1 DEF ReleaseCharges, MoveProvisional, ChargesInv, ChargeStates
  <1> HIDE DEF c
  <1>3. ASSUME NEW s \in Scopes PROVE counted'[s] = SumFunctionOnSet(Size, Charged(s)')
    <2>0. counted[s] = SumFunctionOnSet(Size, Charged(s)) /\ counted[s] \in Int
      BY DEF ChargesInv, CountsExact, Shapes
    <2>1. CASE s \in Provisional(a)
      <3>1. /\ charge'[s] = [charge[s] EXCEPT ![c] = "released"] /\ counted'[s] = counted[s] - Size[c]
            /\ charge[s][c] = "provisional"
        BY <2>1 DEF ReleaseCharges, MoveProvisional, Provisional, c
      <3>2. c \in Charged(s) /\ Charged(s)' = Charged(s) \ {c} /\ Charged(s) \in SUBSET Contents
        BY <1>1, <3>1 DEF Charged, Live, ChargesInv
      <3>3. SumFunctionOnSet(Size, Charged(s)) = Size[c] + SumFunctionOnSet(Size, Charged(s) \ {c})
        BY <3>2, ChargedSums
      <3>4. SumFunctionOnSet(Size, Charged(s) \ {c}) \in Nat
        BY <3>2, ChargedSums
      <3> QED
        BY <1>1, <2>0, <3>1, <3>2, <3>3, <3>4
    <2>2. CASE s \notin Provisional(a)
      <3>1. charge'[s] = charge[s] /\ counted'[s] = counted[s]
        BY <2>2 DEF ReleaseCharges, MoveProvisional
      <3>2. Charged(s)' = Charged(s)
        BY <3>1 DEF Charged
      <3> QED
        BY <2>0, <3>1, <3>2
    <2> QED
      BY <2>1, <2>2
  <1> QED
    BY <1>2, <1>3 DEF ChargesInv, CountsExact

LEMMA ChargesSame ==
    ASSUME ChargesInv, UNCHANGED <<charge, counted>>
    PROVE  ChargesInv'
  BY DEF ChargesInv, CountsExact, Charged

LEMMA ChargesInit == Init => ChargesInv
  <1> SUFFICES ASSUME Init PROVE ChargesInv
    OBVIOUS
  <1>1. \A s \in Scopes : Charged(s) = {} /\ counted[s] = 0
    BY DEF Init, Charged, Live
  <1>2. CountsExact
    BY <1>1, SumEmpty DEF CountsExact
  <1> QED
    BY <1>2 DEF Init, ChargesInv, ChargeStates

\* Every step keeps the counters exact.
LEMMA ChargesKeep == CustodyInv /\ ChargesInv /\ [Next]_vars => ChargesInv'
  <1> SUFFICES ASSUME CustodyInv, ChargesInv, [Next]_vars PROVE ChargesInv'
    OBVIOUS
  <1>0. Shapes
    BY DEF CustodyInv
  <1>1. ASSUME NEW a \in Attempts, Admit(a) \/ AdmitAgain(a) \/ ClaimPut(a) PROVE ChargesInv'
    BY <1>0, <1>1, ReserveExact DEF Admit, AdmitAgain, ClaimPut
  <1>2. ASSUME NEW w \in work, CompleteTransactionB(w) \/ RecordMismatch(w) \/ RecordConflict(w)
        PROVE  ChargesInv'
    BY <1>0, <1>2, ExecutorType, CompleteExact DEF CompleteTransactionB, RecordMismatch, RecordConflict
  <1>3. ASSUME NEW w \in work, RecordAbsence(w) PROVE ChargesInv'
    BY <1>0, <1>3, ExecutorType, ReleaseExact DEF RecordAbsence
  <1>4. ASSUME NEW a \in Attempts,
               \/ ClaimObservation(a) \/ ClaimVerification(a) \/ RetryVerification(a)
               \/ LeaseExpires(a) \/ JobLeaseExpires(a)
        PROVE  UNCHANGED <<charge, counted>>
    BY <1>4 DEF ClaimObservation, ClaimVerification, RetryVerification, LeaseExpires, JobLeaseExpires
  <1>5. ASSUME NEW w \in work,
               \/ RecordUnavailable(w) \/ RecordVerificationUnavailable(w) \/ CompleteVerification(w)
               \/ Stale(w) \/ Answered(w) \/ PutLands(w) \/ Surprise(w) \/ Crash(w)
        PROVE  UNCHANGED <<charge, counted>>
    BY <1>5 DEF RecordUnavailable, RecordVerificationUnavailable, CompleteVerification, Stale, Answered,
                PutAcknowledged, Observes, NoAnswer, PutLands, Surprise, Crash, NothingRecorded
  <1>6. ASSUME NEW c \in Contents, Damage(c) PROVE UNCHANGED <<charge, counted>>
    BY <1>6 DEF Damage, NothingRecorded
  <1>7. CASE UNCHANGED vars
    BY <1>7, ChargesSame DEF vars
  <1> QED
    BY <1>1, <1>2, <1>3, <1>4, <1>5, <1>6, <1>7, ChargesSame DEF Next, Records

\* Every scope counts each charged content exactly once, however many attempts
\* share it, and never more than its limit (_reserve_charges,
\* execute_committed_put, _record_put_absence).
THEOREM QuotaHolds == Spec => []QuotaExact
  <1>1. CustodyInv /\ ChargesInv => QuotaExact
    BY DEF CustodyInv, WithinLimit, ChargesInv, CountsExact, Charged, QuotaExact
  <1>2. Spec => []ChargesInv
    BY CustodyInvariant, ChargesInit, ChargesKeep, PTL DEF Spec
  <1> QED
    BY <1>1, <1>2, CustodyInvariant, PTL
=============================================================================
