---------------------- MODULE GuideCompilation_proofs ----------------------
(***************************************************************************)
(* Proofs about GuideCompilation for any number of workers, generations    *)
(* and faults.                                                             *)
(***************************************************************************)
EXTENDS GuideCompilation, Sums_proofs

Stages == {"idle", "load", "reopen", "reopen_raced", "fence", "raced", "compile", "release",
           "reread", "persist", "sufficiency", "policy", "finalize"}

RunRows == [status : {"absent", "awaiting_documents", "correction_requested", "dispatch_pending",
                      "queued", "enqueue_failed", "sufficiency_blocked", "policy_draft_ready"},
            task : BOOLEAN, fresh : BOOLEAN]

AttemptRows == [status : {"none", "reserved", "uncertain", "accepted", "invalid", "persisted"},
                mode : Modes, result : Results \cup {"none"}, fresh : BOOLEAN]

WorkerRows == [at : Stages, gen : Gens, fenced : BOOLEAN]

PublisherRows == [at : {"idle", "publish", "sent", "failed"}, gen : Gens]

Receipts == {"sufficiency_blocked", "policy_draft_ready"}

Shapes ==
    /\ run \in [Gens -> RunRows] /\ attempt \in [Gens -> AttemptRows]
    /\ projected \in [Gens -> SUBSET {"sufficiency", "policy"}]
    /\ outcome \in [Gens -> Receipts \cup {"none"}]
    /\ broker \subseteq Gens
    /\ worker \in [Workers -> WorkerRows] /\ publisher \in [Publishers -> PublisherRows]

\* A generation that was never requested has no attempt.
UnrequestedIsEmpty ==
    \A g \in Gens :
        run[g].status \in {"absent", "awaiting_documents", "correction_requested"} =>
            attempt[g].status = "none"

\* A policy was projected from a persisted result whose draft is projectable.
PolicyFromReady ==
    \A g \in Gens : "policy" \in projected[g] =>
                      attempt[g].status = "persisted" /\ attempt[g].result = "ready"

\* The inductive invariant.
EvidenceInv ==
    Shapes /\ UnrequestedIsEmpty /\ PolicyFromReady /\ FinalizedFromEvidence /\ AdmittedKeepsRun

-----------------------------------------------------------------------------
(* Generations.                                                            *)

LEMMA GenFacts == Gens \subseteq Nat /\ 1 \in Gens /\ \A g \in Gens : g <= MaxGen /\ g >= 1
  BY GuideAssumption DEF Gens

\* A set of generations with a member has a greatest one.
LEMMA GreatestGen ==
    ASSUME NEW S \in SUBSET Gens, NEW x \in S
    PROVE  Max(S) \in S /\ \A y \in S : y <= Max(S)
  <1> DEFINE D == {MaxGen - g : g \in S}
  <1>1. D \in SUBSET Nat /\ MaxGen - x \in D
    BY GenFacts, GuideAssumption
  <1>2. PICK d \in D : \A e \in D : d <= e
    BY <1>1, LeastOf
  <1>3. PICK m \in S : d = MaxGen - m
    BY <1>2
  <1>4. ASSUME NEW y \in S PROVE m >= y
    <2>1. MaxGen - y \in D /\ y \in Nat /\ m \in Nat
      BY GenFacts
    <2>2. MaxGen - m <= MaxGen - y
      BY <1>2, <1>3, <2>1
    <2> QED
      BY <2>1, <2>2, GuideAssumption
  <1> HIDE DEF D
  <1>5. \E z \in S : \A y \in S : z >= y
    BY <1>4
  <1>6. Max(S) \in S /\ \A y \in S : Max(S) >= y
    BY <1>5 DEF Max
  <1>7. \A y \in S : y \in Nat
    BY GenFacts
  <1> QED
    BY <1>6, <1>7

\* There is no run behind the latest one.
LEMMA NothingAfterLatest ==
    ASSUME NEW g \in Gens, g = Latest, g + 1 \in Gens
    PROVE  run[g + 1].status = "absent"
  <1> SUFFICES ASSUME run[g + 1].status # "absent" PROVE FALSE
    OBVIOUS
  <1> DEFINE S == {k \in Gens : run[k].status # "absent"}
  <1>1. g + 1 \in S /\ S \in SUBSET Gens
    OBVIOUS
  <1> HIDE DEF S
  <1>2. g + 1 <= Max(S)
    BY <1>1, GreatestGen
  <1>3. Max(S) = g
    BY DEF Latest, S
  <1>4. g \in Nat
    BY GenFacts
  <1> QED
    BY <1>2, <1>3, <1>4

-----------------------------------------------------------------------------
(* What one step may do to the rows of a generation and to a worker.       *)

Unrequested == {"absent", "awaiting_documents", "correction_requested"}

\* The step of EvidenceStands for one generation.
Stands(g) ==
    /\ attempt[g].status \in {"accepted", "invalid", "persisted"} =>
          attempt'[g].result = attempt[g].result
    /\ attempt[g].status = "accepted" =>
          attempt'[g].status \in {"accepted", "persisted"}
    /\ attempt[g].status \in {"invalid", "persisted"} =>
          attempt'[g].status = attempt[g].status
    /\ attempt[g].status = "uncertain" /\ attempt[g].mode = "metered" =>
          attempt'[g].status \in {"uncertain", "accepted", "invalid"}
    /\ projected[g] \subseteq projected'[g]
    /\ Finalized(g) => outcome'[g] = outcome[g]

RowSame(g) ==
    /\ run'[g] = run[g] /\ attempt'[g] = attempt[g]
    /\ projected'[g] = projected[g] /\ outcome'[g] = outcome[g]

\* A finalized generation is frozen, a new finalization is complete, and an
\* admitted run stays admitted until then.
RowStep(g) ==
    /\ Finalized(g) => RowSame(g)
    /\ outcome'[g] # "none" /\ ~Finalized(g) =>
         /\ attempt'[g].status = "persisted"
         /\ projected'[g] = IF attempt'[g].result = "blocked" THEN {"sufficiency"}
                            ELSE {"sufficiency", "policy"}
         /\ run'[g].status = outcome'[g]
         /\ outcome'[g] = IF attempt'[g].result = "blocked" THEN "sufficiency_blocked"
                          ELSE "policy_draft_ready"
    /\ run[g].status = "queued" /\ run[g].task =>
         outcome'[g] # "none" \/ (run'[g].status = "queued" /\ run'[g].task)
    /\ run'[g].status # "absent" => run[g].status # "absent" \/ (g > 1 /\ Finalized(g - 1))
    /\ run'[g].status \in Unrequested => attempt'[g].status = "none"
    /\ "policy" \in projected'[g] => attempt'[g].status = "persisted" /\ attempt'[g].result = "ready"
    /\ Stands(g)

\* A worker at work after the step was at work on the same delivery before, or
\* has just been admitted.
StaysAtWork(v) ==
    worker'[v].at # "idle" =>
        LET g == worker'[v].gen
        IN  \/ worker[v].at # "idle" /\ g = worker[v].gen
            \/ outcome'[g] # "none" \/ (run'[g].status = "queued" /\ run'[g].task)

LEMMA SameStep ==
    ASSUME EvidenceInv, NEW g \in Gens, RowSame(g)
    PROVE  RowStep(g)
  BY DEF EvidenceInv, UnrequestedIsEmpty, PolicyFromReady, RowStep, RowSame, Stands, Unrequested, Finalized

\* What the invariant says about a generation.
LEMMA GenKnown ==
    ASSUME EvidenceInv, NEW g \in Gens
    PROVE  /\ run[g] \in RunRows /\ attempt[g] \in AttemptRows
           /\ projected[g] \subseteq {"sufficiency", "policy"} /\ outcome[g] \in Receipts \cup {"none"}
           /\ Finalized(g) => /\ run[g].status \in Receipts /\ attempt[g].status = "persisted"
                              /\ projected[g] = Needed(g)
           /\ run[g].status \in Unrequested => attempt[g].status = "none" /\ ~Finalized(g)
           /\ "policy" \in projected[g] =>
                 attempt[g].status = "persisted" /\ attempt[g].result = "ready"
  BY DEF EvidenceInv, Shapes, UnrequestedIsEmpty, Unrequested, PolicyFromReady, FinalizedFromEvidence, Finalized,
         Complete, Receipts

LEMMA StepsKeep ==
    ASSUME EvidenceInv, Shapes', \A g \in Gens : RowStep(g), \A v \in Workers : StaysAtWork(v)
    PROVE  EvidenceInv'
  <1>1. UnrequestedIsEmpty'
    BY DEF UnrequestedIsEmpty, RowStep, Unrequested
  <1>2. FinalizedFromEvidence'
    <2> SUFFICES ASSUME NEW g \in Gens
                 PROVE  /\ outcome'[g] # "none" => /\ Complete(g)' /\ run'[g].status = outcome'[g]
                                                   /\ attempt'[g].result \in {"blocked", "ready"}
                                                   /\ outcome'[g] = OutcomeOf(g)'
                        /\ g > 1 /\ run'[g].status # "absent" => outcome'[g - 1] # "none"
      BY DEF FinalizedFromEvidence, Finalized
    <2>1. RowStep(g)
      OBVIOUS
    <2>3. outcome'[g] # "none" => Complete(g)' /\ run'[g].status = outcome'[g] /\ outcome'[g] = OutcomeOf(g)'
      <3>1. CASE ~Finalized(g)
        BY <2>1, <3>1 DEF RowStep, Complete, Needed, OutcomeOf
      <3>2. CASE Finalized(g)
        <4>1. RowSame(g) /\ Complete(g) /\ run[g].status = outcome[g] /\ outcome[g] = OutcomeOf(g)
          BY <2>1, <3>2 DEF RowStep, EvidenceInv, FinalizedFromEvidence
        <4> QED
          BY <4>1 DEF RowSame, Complete, Needed, OutcomeOf
      <3> QED
        BY <3>1, <3>2
    <2>4. ASSUME g > 1, run'[g].status # "absent" PROVE outcome'[g - 1] # "none"
      <3>1. g - 1 \in Gens
        BY <2>4, GuideAssumption DEF Gens
      <3>2. Finalized(g - 1)
        BY <2>1, <2>4 DEF RowStep, EvidenceInv, FinalizedFromEvidence
      <3>3. RowStep(g - 1)
        BY <3>1
      <3> QED
        BY <3>2, <3>3 DEF RowStep, RowSame, Finalized
    <2>5. outcome'[g] # "none" => attempt'[g].result \in {"blocked", "ready"}
      BY <2>1, <2>3 DEF RowStep, Complete, Needed
    <2> QED
      BY <2>3, <2>4, <2>5
  <1>3. AdmittedKeepsRun'
    <2> SUFFICES ASSUME NEW w \in Workers, worker'[w].at # "idle"
                 PROVE  \/ outcome'[worker'[w].gen] # "none"
                        \/ run'[worker'[w].gen].status = "queued" /\ run'[worker'[w].gen].task
      BY DEF AdmittedKeepsRun, Finalized
    <2>1. PICK g : g = worker'[w].gen
      OBVIOUS
    <2>2. g \in Gens
      BY <2>1 DEF Shapes, WorkerRows
    <2>3. \/ Finalized(g) \/ (run[g].status = "queued" /\ run[g].task)
          \/ outcome'[g] # "none" \/ (run'[g].status = "queued" /\ run'[g].task)
      BY <2>1 DEF EvidenceInv, AdmittedKeepsRun, StaysAtWork
    <2>4. RowStep(g)
      BY <2>2
    <2> QED
      BY <2>1, <2>3, <2>4 DEF RowStep, RowSame, Finalized
  <1>4. PolicyFromReady'
    BY DEF PolicyFromReady, RowStep
  <1> QED
    BY <1>1, <1>2, <1>3, <1>4 DEF EvidenceInv

\* A step that changes the rows of one generation only.
LEMMA PointStep ==
    ASSUME EvidenceInv, NEW g \in Gens, RowStep(g), \A k \in Gens : k # g => RowSame(k),
           Shapes', \A v \in Workers : StaysAtWork(v)
    PROVE  EvidenceInv' /\ \A k \in Gens : Stands(k)
  <1>1. \A k \in Gens : RowStep(k)
    BY SameStep
  <1> QED
    BY <1>1, StepsKeep DEF RowStep

\* A step that changes no row.
LEMMA QuietStep ==
    ASSUME EvidenceInv, UNCHANGED Rows, Shapes', \A v \in Workers : StaysAtWork(v)
    PROVE  EvidenceInv' /\ \A k \in Gens : Stands(k)
  <1>1. \A k \in Gens : RowSame(k)
    BY DEF Rows, RowSame
  <1>2. \A k \in Gens : RowStep(k)
    BY <1>1, SameStep
  <1> QED
    BY <1>2, StepsKeep DEF RowStep

-----------------------------------------------------------------------------
(* Requests, publication and the clock.                                    *)

LEMMA Constants ==
    /\ Claimed \in RunRows /\ IdleWorker \in WorkerRows /\ IdlePublisher \in PublisherRows
    /\ \A m \in Modes : Reserved(m) \in AttemptRows /\ Reserved(m).status = "reserved"
    /\ Claimed.status = "dispatch_pending" /\ Claimed.task /\ IdleWorker.at = "idle"
  BY GenFacts DEF Claimed, RunRows, IdleWorker, WorkerRows, Stages, IdlePublisher, PublisherRows,
                  Reserved, NoAttempt, AttemptRows, Modes

\* A request takes a generation nobody has an attempt for.
LEMMA RequestKeeps ==
    ASSUME EvidenceInv, NEW g \in Gens, NEW m \in Modes,
           run[g].status \in {"awaiting_documents", "correction_requested"},
           run' = [run EXCEPT ![g] = Claimed], attempt' = [attempt EXCEPT ![g] = Reserved(m)],
           UNCHANGED <<projected, outcome, broker, worker, publisher>>
    PROVE  EvidenceInv' /\ \A k \in Gens : Stands(k)
  <1>0. Shapes
    BY DEF EvidenceInv
  <1>1. Shapes'
    BY <1>0, Constants DEF Shapes
  <1>2. run'[g] = Claimed /\ attempt'[g] = Reserved(m) /\ \A k \in Gens : k # g => RowSame(k)
    BY <1>0 DEF Shapes, RowSame
  <1>3. ~Finalized(g) /\ attempt[g].status = "none" /\ outcome'[g] = "none"
    BY GenKnown DEF Unrequested, Finalized
  <1>4. RowStep(g)
    BY <1>2, <1>3, Constants, GenKnown DEF RowStep, Stands, Unrequested
  <1>5. \A v \in Workers : StaysAtWork(v)
    BY DEF StaysAtWork
  <1> QED
    BY <1>1, <1>2, <1>4, <1>5, PointStep

LEMMA CorrectKeeps ==
    ASSUME EvidenceInv, NEW g \in Gens, Correct(g)
    PROVE  EvidenceInv' /\ \A k \in Gens : Stands(k)
  <1>0. Shapes
    BY DEF EvidenceInv
  <1> DEFINE n == g + 1
             new == [status |-> "correction_requested", task |-> FALSE, fresh |-> TRUE]
  <1>1. n \in Gens /\ run[n].status = "absent" /\ Finalized(n - 1) /\ n > 1
    <2>1. g \in Nat /\ g >= 1
      BY GenFacts
    <2> QED
      BY <2>1, NothingAfterLatest DEF Correct, Correctable
  <1>2. run' = [run EXCEPT ![n] = new] /\ UNCHANGED <<attempt, projected, outcome, broker, worker, publisher>>
    BY DEF Correct
  <1> HIDE DEF n
  <1>3. new \in RunRows
    BY DEF RunRows
  <1>4. Shapes'
    BY <1>0, <1>1, <1>2, <1>3 DEF Shapes
  <1>5. run'[n] = new /\ \A k \in Gens : k # n => RowSame(k)
    BY <1>0, <1>1, <1>2 DEF Shapes, RowSame
  <1>6. ~Finalized(n) /\ attempt[n].status = "none"
    BY <1>1, GenKnown DEF Unrequested
  <1>7. RowStep(n)
    BY <1>1, <1>2, <1>5, <1>6, GenKnown DEF RowStep, Stands, Unrequested, Finalized
  <1>8. \A v \in Workers : StaysAtWork(v)
    BY <1>2 DEF StaysAtWork
  <1> QED
    BY <1>1, <1>4, <1>5, <1>7, <1>8, PointStep

\* Steps that change only the run of one unfinalized generation, and never
\* take a queued run away.
LEMMA RunKeeps ==
    ASSUME EvidenceInv, NEW g \in Gens, NEW new \in RunRows, run' = [run EXCEPT ![g] = new],
           UNCHANGED <<attempt, projected, outcome>>, ~Finalized(g),
           run[g].status = "queued" /\ run[g].task => new.status = "queued" /\ new.task,
           run[g].status # "absent", new.status \notin Unrequested,
           broker' \subseteq Gens, worker' \in [Workers -> WorkerRows],
           publisher' \in [Publishers -> PublisherRows], \A v \in Workers : StaysAtWork(v)
    PROVE  EvidenceInv' /\ \A k \in Gens : Stands(k)
  <1>0. Shapes
    BY DEF EvidenceInv
  <1>1. Shapes'
    BY <1>0 DEF Shapes
  <1>2. run'[g] = new /\ \A k \in Gens : k # g => RowSame(k)
    BY <1>0 DEF Shapes, RowSame
  <1>3. RowStep(g)
    BY <1>2, GenKnown DEF RowStep, Stands, Finalized
  <1> QED
    BY <1>1, <1>2, <1>3, PointStep

LEMMA ClaimKeeps ==
    ASSUME EvidenceInv, NEW g \in Gens, NEW p \in Publishers, FreshClaim(g) \/ Retryable(g), Claim(p, g)
    PROVE  EvidenceInv' /\ \A k \in Gens : Stands(k)
  <1>0. Shapes /\ run[g] \in RunRows
    BY GenKnown DEF EvidenceInv
  <1>1. ~Finalized(g) /\ run[g].status \in {"dispatch_pending", "queued", "enqueue_failed"}
    BY GenKnown DEF FreshClaim, Retryable, Receipts
  <1> DEFINE new == IF run[g].task THEN [run[g] EXCEPT !.fresh = TRUE] ELSE Claimed
  <1>2. run' = [run EXCEPT ![g] = new] /\ UNCHANGED <<attempt, projected, outcome, broker, worker>>
    BY DEF Claim
  <1>3. new \in RunRows
    BY <1>0, Constants DEF RunRows
  <1>4. /\ run[g].task => new.status = run[g].status /\ new.task = run[g].task
        /\ ~run[g].task => new.status = "dispatch_pending"
    BY <1>0, Constants DEF RunRows
  <1>5. publisher' \in [Publishers -> PublisherRows]
    BY <1>0 DEF Claim, Shapes, PublisherRows
  <1>6. new.status \notin Unrequested
    BY <1>1, <1>4 DEF Unrequested
  <1>7. run[g].status = "queued" /\ run[g].task => new.status = "queued" /\ new.task
    BY <1>4
  <1>8. \A v \in Workers : StaysAtWork(v)
    BY <1>2 DEF StaysAtWork
  <1>9. broker' \subseteq Gens /\ worker' \in [Workers -> WorkerRows]
    BY <1>0, <1>2 DEF Shapes
  <1> HIDE DEF new
  <1> QED
    BY <1>1, <1>2, <1>3, <1>5, <1>6, <1>7, <1>8, <1>9, RunKeeps

LEMMA AgeKeeps ==
    ASSUME EvidenceInv, NEW g \in Gens, Age(g)
    PROVE  EvidenceInv' /\ \A k \in Gens : Stands(k)
  <1>0. Shapes /\ run[g] \in RunRows
    BY GenKnown DEF EvidenceInv
  <1>1. ~Finalized(g) /\ run[g].status \in {"dispatch_pending", "queued"}
    BY GenKnown DEF Age, Receipts
  <1> DEFINE new == [run[g] EXCEPT !.fresh = FALSE]
  <1>2. run' = [run EXCEPT ![g] = new] /\ UNCHANGED <<attempt, projected, outcome, broker, worker, publisher>>
    BY DEF Age
  <1>3. new \in RunRows /\ new.status = run[g].status /\ new.task = run[g].task
    BY <1>0 DEF RunRows
  <1> HIDE DEF new
  <1>4. /\ broker' \subseteq Gens /\ worker' \in [Workers -> WorkerRows]
        /\ publisher' \in [Publishers -> PublisherRows] /\ \A v \in Workers : StaysAtWork(v)
    BY <1>0, <1>2 DEF Shapes, StaysAtWork
  <1>5. new.status \notin Unrequested /\ run[g].status # "absent"
    BY <1>1, <1>3 DEF Unrequested
  <1> QED
    BY <1>1, <1>2, <1>3, <1>4, <1>5, RunKeeps

LEMMA PublisherKeeps ==
    ASSUME EvidenceInv, NEW p \in Publishers, Publish(p) \/ PublishFails(p) \/ PublisherLost(p)
    PROVE  EvidenceInv' /\ \A k \in Gens : Stands(k)
  <1>0. Shapes /\ publisher[p] \in PublisherRows
    BY DEF EvidenceInv, Shapes
  <1>1. UNCHANGED <<run, attempt, projected, outcome, worker>>
    BY DEF Publish, PublishFails, PublisherLost
  <1>2. publisher' \in [Publishers -> PublisherRows]
    BY <1>0, Constants DEF Publish, PublishFails, PublisherLost, Shapes, PublisherRows
  <1>3. broker' \subseteq Gens
    BY <1>0 DEF Publish, PublishFails, PublisherLost, Shapes, PublisherRows
  <1>4. Shapes'
    BY <1>0, <1>1, <1>2, <1>3 DEF Shapes
  <1> QED
    BY <1>1, <1>4, QuietStep DEF StaysAtWork, Rows

LEMMA MarkKeeps ==
    ASSUME EvidenceInv, NEW p \in Publishers, Mark(p)
    PROVE  EvidenceInv' /\ \A k \in Gens : Stands(k)
  <1>a. PICK g : g = publisher[p].gen
    OBVIOUS
  <1>0. Shapes /\ g \in Gens
    BY <1>a DEF EvidenceInv, Shapes, PublisherRows
  <1>1. run[g] \in RunRows
    BY <1>0 DEF Shapes
  <1> DEFINE sent == publisher[p].at = "sent"
             new == Marked(run[g], sent)
  <1>2. run' = [run EXCEPT ![g] = new] /\ UNCHANGED <<attempt, projected, outcome, broker, worker>>
    BY <1>a DEF Mark
  <1>3. publisher' \in [Publishers -> PublisherRows]
    BY <1>0, Constants DEF Mark, Shapes
  <1>4. broker' \subseteq Gens /\ worker' \in [Workers -> WorkerRows] /\ \A v \in Workers : StaysAtWork(v)
    BY <1>0, <1>2 DEF Shapes, StaysAtWork
  <1>5. CASE run[g].status # "dispatch_pending"
    <2>1. new = run[g]
      BY <1>5 DEF Marked
    <2>2. run' = run
      BY <1>0, <1>2, <2>1 DEF Shapes
    <2>3. Shapes'
      BY <1>0, <1>2, <1>3, <2>2 DEF Shapes
    <2> QED
      BY <1>2, <1>4, <2>2, <2>3, QuietStep DEF Rows
  <1>6. CASE run[g].status = "dispatch_pending"
    <2>1. new \in RunRows /\ new.status \in {"queued", "enqueue_failed"}
      BY <1>6 DEF Marked, RunRows
    <2>2. ~Finalized(g)
      BY <1>0, <1>6, GenKnown DEF Receipts
    <2>3. new.status \notin Unrequested
      BY <2>1 DEF Unrequested
    <2> HIDE DEF new
    <2> QED
      BY <1>0, <1>2, <1>3, <1>4, <1>6, <2>1, <2>2, <2>3, RunKeeps
  <1> QED
    BY <1>5, <1>6

\* Steps that change the attempt of one generation.
LEMMA AttemptKeeps ==
    ASSUME EvidenceInv, NEW g \in Gens, NEW new \in AttemptRows, attempt' = [attempt EXCEPT ![g] = new],
           UNCHANGED <<run, projected, outcome, publisher>>,
           attempt[g].status \in {"reserved", "uncertain", "accepted"},
           attempt[g].status = "accepted" => new.status = "persisted" /\ new.result = attempt[g].result,
           attempt[g].status = "uncertain" /\ attempt[g].mode = "metered" =>
               new.status \in {"uncertain", "accepted", "invalid"},
           broker' \subseteq Gens, worker' \in [Workers -> WorkerRows], \A v \in Workers : StaysAtWork(v)
    PROVE  EvidenceInv' /\ \A k \in Gens : Stands(k)
  <1>0. Shapes
    BY DEF EvidenceInv
  <1>1. Shapes'
    BY <1>0 DEF Shapes
  <1>2. attempt'[g] = new /\ \A k \in Gens : k # g => RowSame(k)
    BY <1>0 DEF Shapes, RowSame
  <1>3. ~Finalized(g) /\ run[g].status \notin Unrequested
    BY GenKnown
  <1>4. RowStep(g)
    BY <1>2, <1>3, GenKnown DEF RowStep, Stands, Finalized, Unrequested
  <1> QED
    BY <1>1, <1>2, <1>4, PointStep

LEMMA AgeFenceKeeps ==
    ASSUME EvidenceInv, NEW g \in Gens, AgeFence(g)
    PROVE  EvidenceInv' /\ \A k \in Gens : Stands(k)
  <1>0. Shapes /\ attempt[g] \in AttemptRows
    BY GenKnown DEF EvidenceInv
  <1>1. attempt[g].status = "uncertain" /\ attempt[g].mode = "none"
    BY DEF AgeFence, Reopenable
  <1> DEFINE new == [attempt[g] EXCEPT !.fresh = FALSE]
  <1>2. /\ attempt' = [attempt EXCEPT ![g] = new]
        /\ UNCHANGED <<run, projected, outcome, broker, worker, publisher>>
    BY DEF AgeFence
  <1>3. new \in AttemptRows
    BY <1>0 DEF AttemptRows
  <1> HIDE DEF new
  <1>4. broker' \subseteq Gens /\ worker' \in [Workers -> WorkerRows] /\ \A v \in Workers : StaysAtWork(v)
    BY <1>0, <1>2 DEF Shapes, StaysAtWork
  <1> QED
    BY <1>1, <1>2, <1>3, <1>4, AttemptKeeps DEF Modes

-----------------------------------------------------------------------------
(* Delivery.                                                               *)

LEMMA TakenStays ==
    ASSUME Shapes, NEW w \in Workers, NEW g \in Gens, NEW stage \in Stages, Taken(w, g, stage)
    PROVE  /\ broker' \subseteq Gens /\ worker' \in [Workers -> WorkerRows]
           /\ \A v \in Workers : v # w => worker'[v] = worker[v]
           /\ worker'[w].gen = g
  <1> DEFINE new == [IdleWorker EXCEPT !.at = stage, !.gen = g]
  <1>1. new \in WorkerRows /\ new.gen = g
    BY DEF IdleWorker, WorkerRows
  <1>2. worker' = [worker EXCEPT ![w] = new] /\ broker' = broker \ {g}
    BY DEF Taken
  <1> HIDE DEF new
  <1> QED
    BY <1>1, <1>2 DEF Shapes

LEMMA DeliverKeeps ==
    ASSUME EvidenceInv, NEW w \in Workers, NEW g \in Gens,
           AdmitFinalized(w, g) \/ Admit(w, g) \/ RejectDelivery(w, g)
    PROVE  EvidenceInv' /\ \A k \in Gens : Stands(k)
  <1>0. Shapes /\ run[g] \in RunRows
    BY GenKnown DEF EvidenceInv
  <1>1. CASE AdmitFinalized(w, g)
    <2>1. UNCHANGED <<run, attempt, projected, outcome, publisher>> /\ Taken(w, g, "finalize") /\ Finalized(g)
      BY <1>1 DEF AdmitFinalized, Rows
    <2>2. /\ broker' \subseteq Gens /\ worker' \in [Workers -> WorkerRows]
          /\ \A v \in Workers : v # w => worker'[v] = worker[v]
          /\ worker'[w].gen = g
      BY <1>0, <2>1, TakenStays DEF Stages
    <2>3. Shapes'
      BY <1>0, <2>1, <2>2 DEF Shapes
    <2>4. \A v \in Workers : StaysAtWork(v)
      BY <2>1, <2>2 DEF StaysAtWork, Finalized
    <2> QED
      BY <2>1, <2>3, <2>4, QuietStep DEF Rows
  <1>2. CASE Admit(w, g)
    <2> DEFINE new == IF run[g].status = "queued" THEN run[g]
                      ELSE [status |-> "queued", task |-> TRUE, fresh |-> TRUE]
    <2>1. /\ run' = [run EXCEPT ![g] = new] /\ UNCHANGED <<attempt, projected, outcome, publisher>>
          /\ Taken(w, g, "load") /\ ~Finalized(g) /\ run[g].task
          /\ run[g].status \in {"dispatch_pending", "queued"}
      BY <1>2 DEF Admit, Admissible
    <2>2. /\ broker' \subseteq Gens /\ worker' \in [Workers -> WorkerRows]
          /\ \A v \in Workers : v # w => worker'[v] = worker[v]
          /\ worker'[w].gen = g
      BY <1>0, <2>1, TakenStays DEF Stages
    <2>3. new \in RunRows /\ new.status = "queued" /\ new.task
      BY <1>0, <2>1 DEF RunRows
    <2> HIDE DEF new
    <2>4. run'[g] = new
      BY <1>0, <2>1 DEF Shapes
    <2>5. \A v \in Workers : StaysAtWork(v)
      BY <2>2, <2>3, <2>4 DEF StaysAtWork
    <2>6. new.status \notin Unrequested /\ publisher' \in [Publishers -> PublisherRows]
      BY <1>0, <2>1, <2>3 DEF Unrequested, Shapes
    <2> QED
      BY <2>1, <2>2, <2>3, <2>5, <2>6, RunKeeps
  <1>3. CASE RejectDelivery(w, g)
    <2>1. UNCHANGED <<run, attempt, projected, outcome, publisher, worker>> /\ broker' = broker \ {g}
      BY <1>3 DEF RejectDelivery, Rows
    <2>2. Shapes'
      BY <1>0, <2>1 DEF Shapes
    <2> QED
      BY <2>1, <2>2, QuietStep DEF Rows, StaysAtWork
  <1> QED
    BY <1>1, <1>2, <1>3

-----------------------------------------------------------------------------
(* The worker.                                                             *)

\* Whatever a worker decides, it stays with its delivery or drops it.
Carries(w) ==
    /\ broker' \subseteq Gens /\ worker' \in [Workers -> WorkerRows]
    /\ \A v \in Workers : StaysAtWork(v)

LEMMA AckCarries ==
    ASSUME Shapes, NEW w \in Workers, Ack(w), broker' \subseteq Gens
    PROVE  Carries(w)
  <1>1. worker' = [worker EXCEPT ![w] = IdleWorker] /\ IdleWorker \in WorkerRows /\ IdleWorker.at = "idle"
    BY Constants DEF Ack
  <1> HIDE DEF IdleWorker
  <1>2. worker' \in [Workers -> WorkerRows] /\ worker'[w].at = "idle"
        /\ \A v \in Workers : v # w => worker'[v] = worker[v]
    BY <1>1 DEF Shapes
  <1> QED
    BY <1>2 DEF Carries, StaysAtWork

LEMMA RaiseCarries ==
    ASSUME Shapes, NEW w \in Workers, Raise(w)
    PROVE  Carries(w)
  <1>1. Ack(w) /\ broker' \subseteq Gens
    BY DEF Raise, Shapes, WorkerRows
  <1> QED
    BY <1>1, AckCarries

LEMMA ProceedCarries ==
    ASSUME Shapes, NEW w \in Workers, NEW stage \in Stages \cup {"raise"}, worker[w].at # "idle",
           Proceed(w, stage)
    PROVE  Carries(w)
  <1>1. CASE stage = "raise"
    BY <1>1, RaiseCarries DEF Proceed
  <1>2. CASE stage = "idle"
    <2>1. Ack(w) /\ broker' = broker
      BY <1>2 DEF Proceed
    <2> QED
      BY <2>1, AckCarries DEF Shapes
  <1>3. CASE stage \in Stages \ {"idle"}
    <2>1. Go(w, stage) /\ broker' = broker
      BY <1>3 DEF Proceed, Stages
    <2> DEFINE new == [worker[w] EXCEPT !.at = stage, !.fenced = FALSE]
    <2>2. new \in WorkerRows /\ new.gen = worker[w].gen
      BY <1>3 DEF Shapes, WorkerRows
    <2>3. worker' = [worker EXCEPT ![w] = new]
      BY <2>1 DEF Go
    <2> HIDE DEF new
    <2>4. /\ worker' \in [Workers -> WorkerRows] /\ worker'[w].gen = worker[w].gen
          /\ \A v \in Workers : v # w => worker'[v] = worker[v]
      BY <2>2, <2>3 DEF Shapes
    <2> QED
      BY <2>1, <2>4 DEF Carries, StaysAtWork, Shapes
  <1> QED
    BY <1>1, <1>2, <1>3

\* A worker that moves on and changes no row.
LEMMA CarryKeeps ==
    ASSUME EvidenceInv, NEW w \in Workers, Carries(w), UNCHANGED <<Rows, publisher>>
    PROVE  EvidenceInv' /\ \A k \in Gens : Stands(k)
  <1>1. Shapes'
    BY DEF EvidenceInv, Shapes, Carries, Rows
  <1> QED
    BY <1>1, QuietStep DEF Carries, Rows

LEMMA ReadKeeps ==
    ASSUME EvidenceInv, NEW w \in Workers,
           \/ Load(w) \/ Raced(w) \/ CompileRefused(w) \/ Reread(w)
           \/ Unavailable(w) \/ WorkerLost(w) \/ TimeLimit(w)
    PROVE  EvidenceInv' /\ \A k \in Gens : Stands(k)
  <1>0. Shapes /\ worker[w].gen \in Gens
    BY DEF EvidenceInv, Shapes, WorkerRows
  <1>1. UNCHANGED <<Rows, publisher>>
    BY DEF Load, Raced, CompileRefused, Reread, Unavailable, WorkerLost, TimeLimit
  <1>2. \A a : Recover(a) \in Stages /\ RecoverRaced(a) \in Stages \cup {"raise"}
    BY DEF Recover, RecoverRaced, Stages
  <1>3. AfterFailure(w) \in Stages
    BY DEF AfterFailure, Stages
  <1>4. ASSUME \E stage \in Stages \cup {"raise"} : Proceed(w, stage), worker[w].at # "idle" PROVE Carries(w)
    BY <1>0, <1>4, ProceedCarries
  <1>5. CASE Load(w)
    BY <1>1, <1>2, <1>4, <1>5, CarryKeeps DEF Load, Stages
  <1>6. CASE Raced(w)
    BY <1>1, <1>2, <1>4, <1>6, CarryKeeps DEF Raced
  <1>7. CASE CompileRefused(w)
    BY <1>1, <1>3, <1>4, <1>7, CarryKeeps DEF CompileRefused
  <1>8. CASE Reread(w)
    BY <1>1, <1>4, <1>8, CarryKeeps DEF Reread, Stages
  <1>9. CASE Unavailable(w)
    BY <1>1, <1>3, <1>4, <1>9, CarryKeeps DEF Unavailable, Failure
  <1>10. CASE WorkerLost(w) \/ TimeLimit(w)
    <2>1. Ack(w) /\ broker' \subseteq Gens
      BY <1>0, <1>10 DEF WorkerLost, TimeLimit, Shapes
    <2> QED
      BY <1>0, <1>1, <2>1, AckCarries, CarryKeeps
  <1> QED
    BY <1>5, <1>6, <1>7, <1>8, <1>9, <1>10

\* The reopening of a no-inference fence, by whoever does it.
LEMMA ReopenKeeps ==
    ASSUME EvidenceInv, NEW w \in Workers, NEW g \in Gens, Carries(w), UNCHANGED <<run, projected, outcome, publisher>>,
           \/ attempt' = attempt
           \/ Reopenable(attempt[g]) /\ attempt' = [attempt EXCEPT ![g] = Reopened(attempt[g])]
    PROVE  EvidenceInv' /\ \A k \in Gens : Stands(k)
  <1>1. CASE attempt' = attempt
    BY <1>1, CarryKeeps DEF Rows
  <1>2. CASE Reopenable(attempt[g]) /\ attempt' = [attempt EXCEPT ![g] = Reopened(attempt[g])]
    <2>1. attempt[g] \in AttemptRows
      BY GenKnown
    <2>2. Reopened(attempt[g]) \in AttemptRows
      BY <2>1 DEF Reopened, AttemptRows
    <2>3. attempt[g].status = "uncertain" /\ attempt[g].mode # "metered"
      BY <1>2 DEF Reopenable
    <2> QED
      BY <1>2, <2>2, <2>3, AttemptKeeps DEF Carries
  <1> QED
    BY <1>1, <1>2

LEMMA FenceStepsKeep ==
    ASSUME EvidenceInv, NEW w \in Workers, Reopen(w) \/ Release(w) \/ Cancel(w)
    PROVE  EvidenceInv' /\ \A k \in Gens : Stands(k)
  <1>a. PICK g : g = worker[w].gen
    OBVIOUS
  <1>0. Shapes /\ g \in Gens
    BY <1>a DEF EvidenceInv, Shapes, WorkerRows
  <1>1. Carries(w)
    <2>1. CASE Reopen(w)
      <3>1. worker[w].at # "idle" /\ \E stage \in {"fence", "idle", "raise"} : Proceed(w, stage)
        BY <2>1 DEF Reopen
      <3> QED
        BY <1>0, <3>1, ProceedCarries DEF Stages
    <2>2. CASE Release(w)
      BY <1>0, <2>2, RaiseCarries DEF Release
    <2>3. CASE Cancel(w)
      <3>1. Ack(w) /\ broker' = broker
        BY <2>3 DEF Cancel
      <3> QED
        BY <1>0, <3>1, AckCarries DEF Shapes
    <2> QED
      BY <2>1, <2>2, <2>3
  <1>2. UNCHANGED <<run, projected, outcome, publisher>>
    BY DEF Reopen, Release, Cancel
  <1>3. \/ attempt' = attempt
        \/ Reopenable(attempt[g]) /\ attempt' = [attempt EXCEPT ![g] = Reopened(attempt[g])]
    BY <1>a DEF Reopen, Release, Cancel, Released
  <1> QED
    BY <1>0, <1>1, <1>2, <1>3, ReopenKeeps

LEMMA FenceKeeps ==
    ASSUME EvidenceInv, NEW w \in Workers, Fence(w)
    PROVE  EvidenceInv' /\ \A k \in Gens : Stands(k)
  <1>a. PICK g : g = worker[w].gen
    OBVIOUS
  <1>0. Shapes /\ g \in Gens /\ attempt[g] \in AttemptRows /\ worker[w] \in WorkerRows
    BY <1>a DEF EvidenceInv, Shapes, WorkerRows
  <1>1. worker[w].at = "fence" /\ UNCHANGED <<run, projected, outcome, publisher>>
    BY DEF Fence
  <1> DEFINE won == Current(g) /\ attempt[g].status = "reserved"
             new == [attempt[g] EXCEPT !.status = "uncertain", !.fresh = TRUE]
             at == [worker[w] EXCEPT !.at = "compile", !.fenced = TRUE]
  <1>2. CASE won
    <2>1. attempt' = [attempt EXCEPT ![g] = new] /\ worker' = [worker EXCEPT ![w] = at] /\ broker' = broker
      BY <1>2, <1>a DEF Fence
    <2>2. new \in AttemptRows /\ new.status = "uncertain"
      BY <1>0 DEF AttemptRows
    <2>3. at \in WorkerRows /\ at.gen = g
      BY <1>0, <1>a DEF WorkerRows, Stages
    <2> HIDE DEF new, at
    <2>4. /\ worker' \in [Workers -> WorkerRows] /\ worker'[w].gen = g
          /\ \A v \in Workers : v # w => worker'[v] = worker[v]
      BY <1>0, <2>1, <2>3 DEF Shapes
    <2>5. \A v \in Workers : StaysAtWork(v)
      BY <1>1, <1>a, <2>4 DEF StaysAtWork
    <2>6. broker' \subseteq Gens
      BY <1>0, <2>1 DEF Shapes
    <2> QED
      BY <1>0, <1>1, <1>2, <2>1, <2>2, <2>4, <2>5, <2>6, AttemptKeeps
  <1>3. CASE ~won
    <2>1. attempt' = attempt /\ \E stage \in {"raced", "raise"} : Proceed(w, stage)
      BY <1>3, <1>a DEF Fence
    <2>2. Carries(w)
      BY <1>0, <1>1, <2>1, ProceedCarries DEF Stages
    <2> QED
      BY <1>1, <2>1, <2>2, CarryKeeps DEF Rows
  <1> QED
    BY <1>2, <1>3

LEMMA CompileKeeps ==
    ASSUME EvidenceInv, NEW w \in Workers, Compile(w)
    PROVE  EvidenceInv' /\ \A k \in Gens : Stands(k)
  <1>a. PICK g : g = worker[w].gen
    OBVIOUS
  <1>0. Shapes /\ g \in Gens /\ attempt[g] \in AttemptRows
    BY <1>a DEF EvidenceInv, Shapes, WorkerRows
  <1>1. /\ worker[w].at = "compile" /\ UNCHANGED <<run, projected, outcome, publisher>>
        /\ attempt[g].status = "uncertain"
    BY <1>a DEF Compile, Recordable
  <1>2. PICK r \in Results :
          /\ attempt' = [attempt EXCEPT ![g].status = IF r = "invalid" THEN "invalid" ELSE "accepted",
                                        ![g].result = r, ![g].fresh = FALSE]
          /\ Proceed(w, IF r = "invalid" THEN "idle" ELSE "persist")
    BY <1>a DEF Compile
  <1> DEFINE new == [attempt[g] EXCEPT !.status = IF r = "invalid" THEN "invalid" ELSE "accepted",
                                       !.result = r, !.fresh = FALSE]
  <1>3. attempt' = [attempt EXCEPT ![g] = new]
    BY <1>0, <1>2 DEF Shapes, AttemptRows
  <1>4. new \in AttemptRows /\ new.status \in {"accepted", "invalid"}
    BY <1>0 DEF AttemptRows
  <1> HIDE DEF new
  <1>5. Carries(w)
    BY <1>0, <1>1, <1>2, ProceedCarries DEF Stages
  <1> QED
    BY <1>0, <1>1, <1>3, <1>4, <1>5, AttemptKeeps DEF Carries

LEMMA PersistKeeps ==
    ASSUME EvidenceInv, NEW w \in Workers, Persist(w)
    PROVE  EvidenceInv' /\ \A k \in Gens : Stands(k)
  <1>a. PICK g : g = worker[w].gen
    OBVIOUS
  <1>0. Shapes /\ g \in Gens /\ attempt[g] \in AttemptRows
    BY <1>a DEF EvidenceInv, Shapes, WorkerRows
  <1>1. worker[w].at = "persist" /\ UNCHANGED <<run, projected, outcome, publisher>>
    BY DEF Persist
  <1>2. Carries(w)
    <2>1. \E stage \in {"sufficiency", "raise"} : Proceed(w, stage)
      BY DEF Persist
    <2> QED
      BY <1>0, <1>1, <2>1, ProceedCarries DEF Stages
  <1> DEFINE new == [attempt[g] EXCEPT !.status = "persisted"]
  <1>3. CASE attempt' = attempt
    BY <1>1, <1>2, <1>3, CarryKeeps DEF Rows
  <1>4. CASE attempt[g].status = "accepted" /\ attempt' = [attempt EXCEPT ![g].status = "persisted"]
    <2>1. attempt' = [attempt EXCEPT ![g] = new]
      BY <1>4
    <2>2. new \in AttemptRows /\ new.status = "persisted" /\ new.result = attempt[g].result
      BY <1>0 DEF AttemptRows
    <2> HIDE DEF new
    <2> QED
      BY <1>0, <1>1, <1>2, <1>4, <2>1, <2>2, AttemptKeeps DEF Carries
  <1> QED
    BY <1>3, <1>4, <1>a DEF Persist

\* A projection is added under the source shape, which a finalization ends.
LEMMA ProjectionKeeps ==
    ASSUME EvidenceInv, NEW w \in Workers, Sufficiency(w) \/ Policy(w)
    PROVE  EvidenceInv' /\ \A k \in Gens : Stands(k)
  <1>a. PICK g : g = worker[w].gen
    OBVIOUS
  <1>0. Shapes /\ g \in Gens
    BY <1>a DEF EvidenceInv, Shapes, WorkerRows
  <1>1. worker[w].at # "idle" /\ UNCHANGED <<run, attempt, outcome, publisher>>
    BY DEF Sufficiency, Policy, Projects
  <1>2. Carries(w)
    <2>1. Overtaken(g) \in {"finalize", "raise"}
      BY DEF Overtaken
    <2>2. \E stage \in {"finalize", "policy", "raise"} : Proceed(w, stage)
      BY <1>a, <2>1 DEF Sufficiency, Policy, Projects
    <2> QED
      BY <1>0, <1>1, <2>2, ProceedCarries DEF Stages
  <1>3. CASE projected' = projected
    BY <1>1, <1>2, <1>3, CarryKeeps DEF Rows
  <1>4. CASE SourceShape(g) /\ \E part \in {"sufficiency", "policy"} :
               Preflight(g, part) /\ projected' = [projected EXCEPT ![g] = @ \cup {part}]
    <2>1. PICK part \in {"sufficiency", "policy"} :
            Preflight(g, part) /\ projected' = [projected EXCEPT ![g] = projected[g] \cup {part}]
      BY <1>4
    <2>2. ~Finalized(g) /\ run[g].status = "queued" /\ run[g].task
      BY <1>0, <1>4, GenKnown DEF SourceShape, Receipts
    <2>3. projected'[g] = projected[g] \cup {part} /\ \A k \in Gens : k # g => RowSame(k)
      BY <1>0, <1>1, <2>1 DEF Shapes, RowSame
    <2>4. projected' \in [Gens -> SUBSET {"sufficiency", "policy"}]
      BY <1>0, <2>1 DEF Shapes
    <2>5. Shapes'
      BY <1>0, <1>1, <1>2, <2>4 DEF Shapes, Carries
    <2>6. "policy" \in projected'[g] => attempt'[g].status = "persisted" /\ attempt'[g].result = "ready"
      BY <1>0, <1>1, <2>1, <2>3, GenKnown DEF Preflight
    <2>7. RowStep(g)
      BY <1>1, <2>2, <2>3, <2>6 DEF RowStep, Stands, Finalized, Unrequested
    <2> QED
      BY <1>0, <1>2, <2>3, <2>5, <2>7, PointStep DEF Carries
  <1> QED
    BY <1>3, <1>4, <1>a DEF Sufficiency, Policy, Projects

LEMMA FinalizeKeeps ==
    ASSUME EvidenceInv, NEW w \in Workers, Finalize(w)
    PROVE  EvidenceInv' /\ \A k \in Gens : Stands(k)
  <1>a. PICK g : g = worker[w].gen
    OBVIOUS
  <1>0. Shapes /\ g \in Gens /\ run[g] \in RunRows
    BY <1>a DEF EvidenceInv, Shapes, WorkerRows
  <1>1. worker[w].at # "idle" /\ UNCHANGED <<attempt, projected, publisher>>
    BY DEF Finalize
  <1>2. Carries(w)
    <2>1. \E stage \in {"idle", "raise"} : Proceed(w, stage)
      BY DEF Finalize
    <2> QED
      BY <1>0, <1>1, <2>1, ProceedCarries DEF Stages
  <1> DEFINE closes == SourceShape(g) /\ ~Finalized(g) /\ Complete(g) /\ Tip = g
             new == [run[g] EXCEPT !.status = OutcomeOf(g), !.fresh = FALSE]
  <1>3. CASE ~closes
    <2>1. run' = run /\ outcome' = outcome
      BY <1>3, <1>a DEF Finalize
    <2> QED
      BY <1>1, <1>2, <2>1, CarryKeeps DEF Rows
  <1>4. CASE closes
    <2>1. outcome' = [outcome EXCEPT ![g] = OutcomeOf(g)] /\ run' = [run EXCEPT ![g] = new]
      BY <1>4, <1>a DEF Finalize
    <2>2. OutcomeOf(g) \in Receipts
      BY DEF OutcomeOf, Receipts
    <2>3. new \in RunRows /\ new.status = OutcomeOf(g)
      BY <1>0, <2>2 DEF RunRows, Receipts
    <2> HIDE DEF new
    <2>4. Shapes'
      BY <1>0, <1>1, <1>2, <2>1, <2>2, <2>3 DEF Shapes, Carries
    <2>5. run'[g] = new /\ outcome'[g] = OutcomeOf(g) /\ \A k \in Gens : k # g => RowSame(k)
      BY <1>0, <1>1, <2>1 DEF Shapes, RowSame
    <2>6. run[g].status = "queued" /\ new.status \notin Unrequested /\ outcome'[g] # "none"
      BY <1>4, <2>2, <2>3, <2>5 DEF SourceShape, Receipts, Unrequested
    <2>7. RowStep(g)
      BY <1>0, <1>1, <1>4, <2>3, <2>5, <2>6, GenKnown DEF RowStep, Stands, Complete, Needed, OutcomeOf
    <2> QED
      BY <1>0, <1>2, <2>4, <2>5, <2>7, PointStep DEF Carries
  <1> QED
    BY <1>3, <1>4

-----------------------------------------------------------------------------
(* The theorems.                                                           *)

LEMMA InitInv == Init => EvidenceInv
  <1> SUFFICES ASSUME Init PROVE EvidenceInv
    OBVIOUS
  <1>1. \A g \in Gens : /\ run[g] \in RunRows /\ attempt[g] = NoAttempt /\ outcome[g] = "none"
                        /\ projected[g] = {}
                        /\ g > 1 => run[g].status = "absent"
    BY DEF Init, RunRows, NoRun
  <1>2. \A w \in Workers : worker[w] = IdleWorker
    BY DEF Init
  <1>3. Shapes
    <2>1. run \in [Gens -> RunRows]
      BY DEF Init, RunRows, NoRun
    <2>2. attempt \in [Gens -> AttemptRows]
      BY DEF Init, AttemptRows, NoAttempt, Modes
    <2> QED
      BY <2>1, <2>2, Constants DEF Init, Shapes
  <1>4. UnrequestedIsEmpty /\ PolicyFromReady /\ FinalizedFromEvidence /\ AdmittedKeepsRun
    BY <1>1, <1>2 DEF UnrequestedIsEmpty, PolicyFromReady, FinalizedFromEvidence, Finalized, AdmittedKeepsRun, NoAttempt,
                      IdleWorker
  <1> QED
    BY <1>3, <1>4 DEF EvidenceInv

LEMMA NextKeeps == EvidenceInv /\ [Next]_vars => EvidenceInv' /\ \A g \in Gens : Stands(g)
  <1> SUFFICES ASSUME EvidenceInv, [Next]_vars PROVE EvidenceInv' /\ \A g \in Gens : Stands(g)
    OBVIOUS
  <1>1. ASSUME NEW m \in Modes, RequestInitial(m) PROVE EvidenceInv' /\ \A g \in Gens : Stands(g)
    BY <1>1, GenFacts, RequestKeeps DEF RequestFor, RequestInitial
  <1>2. ASSUME NEW g \in Gens, RequestCorrection(g) PROVE EvidenceInv' /\ \A k \in Gens : Stands(k)
    BY <1>2, RequestKeeps DEF RequestFor, RequestCorrection, Modes
  <1>3. ASSUME NEW g \in Gens, UserDispatch(g) \/ ScanDispatch(g)
        PROVE  EvidenceInv' /\ \A k \in Gens : Stands(k)
    BY <1>3, ClaimKeeps DEF UserDispatch, ScanDispatch, Publishers
  <1>4. ASSUME NEW g \in Gens, Correct(g) \/ Deliver(g) \/ Age(g) \/ AgeFence(g)
        PROVE  EvidenceInv' /\ \A k \in Gens : Stands(k)
    BY <1>4, CorrectKeeps, DeliverKeeps, AgeKeeps, AgeFenceKeeps DEF Deliver
  <1>5. ASSUME NEW p \in Publishers, Publish(p) \/ PublishFails(p) \/ Mark(p) \/ PublisherLost(p)
        PROVE  EvidenceInv' /\ \A k \in Gens : Stands(k)
    BY <1>5, PublisherKeeps, MarkKeeps
  <1>6. ASSUME NEW w \in Workers,
               Step(w) \/ Unavailable(w) \/ WorkerLost(w) \/ TimeLimit(w) \/ Cancel(w)
        PROVE  EvidenceInv' /\ \A k \in Gens : Stands(k)
    BY <1>6, ReadKeeps, FenceStepsKeep, FenceKeeps, CompileKeeps, PersistKeeps, ProjectionKeeps,
       FinalizeKeeps DEF Step
  <1>7. CASE UNCHANGED vars
    <2>1. Shapes' /\ UNCHANGED Rows
      BY <1>7 DEF vars, EvidenceInv, Shapes, Rows
    <2> QED
      BY <1>7, <2>1, QuietStep DEF vars, StaysAtWork
  <1> QED
    BY <1>1, <1>2, <1>3, <1>4, <1>5, <1>6, <1>7 DEF Next

\* The rows of every generation keep their inductive invariant, whichever
\* deliveries, publishers, reopened fences and faults interleave.
THEOREM EvidenceInvariant == Spec => []EvidenceInv
  BY InitInv, NextKeeps, PTL DEF Spec

\* A finalization rests on the persisted attempt and exactly the projections
\* its result calls for, never on an unprojectable draft, and a generation follows only a finalized one
\* (finalize_guide_setup, the correction request).
THEOREM FinalizationHasEvidence == Spec => []FinalizedFromEvidence
  <1>1. EvidenceInv => FinalizedFromEvidence
    BY DEF EvidenceInv
  <1> QED
    BY <1>1, EvidenceInvariant, PTL

\* A run with an admitted worker stays queued under its task identity until it
\* is finalized: no late publisher and no scan takes it away.
THEOREM AdmittedRunStays == Spec => []AdmittedKeepsRun
  <1>1. EvidenceInv => AdmittedKeepsRun
    BY DEF EvidenceInv
  <1> QED
    BY <1>1, EvidenceInvariant, PTL

\* Results, projections and receipts are never taken back, and an inference
\* fence is one-way, for any number of copies of a delivery.
THEOREM EvidenceNeverWithdrawn == Spec => EvidenceStands
  <1>1. EvidenceInv /\ [Next]_vars => [\A g \in Gens : Stands(g)]_vars
    BY NextKeeps
  <1> QED
    BY <1>1, EvidenceInvariant, PTL DEF Spec, EvidenceStands, Stands
=============================================================================
