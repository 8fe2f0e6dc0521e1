---------------------------- MODULE TaskRevision ----------------------------
(***************************************************************************)
(* The life of one task: screening, claim, submission, routing of the      *)
(* checker result, and the revision window of a returned submission        *)
(* (backend/app/modules/tasks and the PostgreSQL triggers it relies on).   *)
(*                                                                         *)
(* Every operation locks the task row first, so the operations of a task   *)
(* are serial.  What still interleaves is the clock, which moves while a   *)
(* transaction is open, the delivery of timers scheduled for windows that  *)
(* have since moved, and the activation of other project guides.           *)
(***************************************************************************)
EXTENDS Integers, FiniteSets

CONSTANTS
    Contributors,
    Guides,          \* policy contexts a project guide version freezes
    MaxRounds,       \* max_revision_rounds of each guide's revision policy
    DeadlineHours,   \* revision_deadline_hours of each guide's revision policy
    HumanReview,     \* guides whose review policy requires a human review
    NoOne, NoGuide,
    MaxAssignments, MaxSubmissions, MaxPreparations,  \* bounds: rows kept
    MaxTime, MaxDead                                  \* bounds: clock, dead letters

ASSUME PolicyAssumption ==
    /\ MaxRounds \in [Guides -> Nat] /\ DeadlineHours \in [Guides -> Nat \ {0}]
    /\ HumanReview \subseteq Guides
    /\ NoOne \notin Contributors /\ NoGuide \notin Guides

ASSUME BoundsAssumption ==
    /\ MaxAssignments \in Nat /\ MaxSubmissions \in Nat /\ MaxPreparations \in Nat \ {0}
    /\ MaxTime \in Nat /\ MaxDead \in Nat

VARIABLES
    now,          \* database clock
    active,       \* the project's active guide, or NoGuide when none resolves
    task,         \* the workstream_tasks row
    assignments,  \* number of task_assignments rows of the task
    assignment,   \* those rows
    latest,       \* version of the latest submission, 0 before the first
    submission,   \* submissions, each with its result and routing manifest
    head,         \* length of each submission's chain of revision preparations
    preparation,  \* those preparations
    timer,        \* the expiry event of each running preparation
    txn           \* the open transaction that has passed its checks

vars == <<now, active, task, assignments, assignment, latest, submission, head,
          preparation, timer, txn>>
custody == <<task, assignments, assignment>>
revisions == <<head, preparation, timer>>

NoTime == -1
Time == Nat \cup {NoTime}
Rows == 1..MaxAssignments
Versions == 1..MaxSubmissions
Heads == 1..MaxPreparations

Working == {"in_progress", "evaluation_pending", "review_pending", "needs_revision", "accepted"}
TaskStatuses == {"draft", "screening", "ready"} \cup Working
Released == {"revision_expired", "revision_exhausted", "authority_revoked"}
AssignmentStatuses == {"absent", "active", "completed"} \cup Released
AttemptStatuses == {"absent", "evaluation_pending", "review_pending", "accepted",
                    "needs_revision", "rejected"}
Reasons == {"none", "checker_coverage_incomplete", "revision_deadline_expired",
            "revision_limit_reached"}
Results == {"none", "passed", "failed", "coverage"}

TaskRows == [status : TaskStatuses, assignedTo : Contributors \cup {NoOne},
             lineage : Guides \cup {NoGuide}]
AssignmentRows == [contributor : Contributors \cup {NoOne}, status : AssignmentStatuses,
                   lineage : Guides \cup {NoGuide}]
SubmissionRows == [assignment : Rows \cup {0}, lineage : Guides \cup {NoGuide},
                   supersedes : BOOLEAN, attempt : AttemptStatuses, reason : Reasons,
                   result : Results, submittedAt : Time, routedAt : Time]
PreparationRows == [target : Guides \cup {NoGuide}, nextRound : Nat, max : Nat,
                    deadline : Time, remaining : Time, observed : Time,
                    blocked : {"none", "context_blocked", "revision_deadline_expired"}]
TimerStates == {"none", "pending", "acknowledged", "dead_letter"}

NoAssignment == [contributor |-> NoOne, status |-> "absent", lineage |-> NoGuide]
NoSubmission == [assignment |-> 0, lineage |-> NoGuide, supersedes |-> FALSE,
                 attempt |-> "absent", reason |-> "none", result |-> "none",
                 submittedAt |-> NoTime, routedAt |-> NoTime]
NoPreparation == [target |-> NoGuide, nextRound |-> 0, max |-> 0, deadline |-> NoTime,
                  remaining |-> NoTime, observed |-> NoTime, blocked |-> "none"]

\* An open submission carries its assignment, an open repair its child.
NoTxn == [kind |-> "none", assignment |-> 0, child |-> NoPreparation]
Txns == [kind : {"none", "submit", "repair"}, assignment : Rows \cup {0}, child : PreparationRows]

TypeOK ==
    /\ now \in Nat
    /\ active \in Guides \cup {NoGuide}
    /\ task \in TaskRows
    /\ assignments \in 0..MaxAssignments
    /\ assignment \in [Rows -> AssignmentRows]
    /\ latest \in 0..MaxSubmissions
    /\ submission \in [Versions -> SubmissionRows]
    /\ head \in [Versions -> 0..MaxPreparations]
    /\ preparation \in [Versions -> [Heads -> PreparationRows]]
    /\ timer \in [Versions -> [Heads -> TimerStates]]
    /\ txn \in Txns

-----------------------------------------------------------------------------
(* Reading the rows *)

Unlocked == txn.kind = "none"

\* The preparation no successor names, for a submission that has one.
Head(v) == preparation[v][head[v]]

\* submission_revision_round, plus one: coverage returns spend no round.
CountedRows(a, v) ==
    {u \in 1..v : /\ submission[u].assignment = a
                  /\ submission[u].reason # "checker_coverage_incomplete"}
Counted(a, v) == Cardinality(CountedRows(a, v))

\* An assignment that still carries the task for its contributor.
Holds(a) == assignment[a].status = "active" /\ task.assignedTo = assignment[a].contributor

\* revision_routing_source_current, with the task and assignment it belongs to.
CurrentSource(v) ==
    /\ v = latest /\ v # 0 /\ head[v] # 0
    /\ task.status = "needs_revision"
    /\ Holds(submission[v].assignment)

Running(p) == p.deadline # NoTime

\* What the checkers recommend for a completed result.
Recommendation(v) ==
    IF \/ submission[v].result = "failed"
       \/ submission[v].result = "coverage" /\ submission[v].lineage \notin HumanReview
    THEN "needs_revision" ELSE "allow_review"

-----------------------------------------------------------------------------
Init ==
    /\ now = 0
    /\ active \in Guides
    /\ task = [status |-> "draft", assignedTo |-> NoOne, lineage |-> NoGuide]
    /\ assignments = 0 /\ assignment = [a \in Rows |-> NoAssignment]
    /\ latest = 0 /\ submission = [v \in Versions |-> NoSubmission]
    /\ head = [v \in Versions |-> 0]
    /\ preparation = [v \in Versions |-> [k \in Heads |-> NoPreparation]]
    /\ timer = [v \in Versions |-> [k \in Heads |-> "none"]]
    /\ txn = NoTxn

\* Bound: the clock is only read while a revision window of the assignment
\* that holds the task may be open or inherited, so it only moves then.
ClockMatters ==
    /\ task.status \in {"needs_revision", "evaluation_pending"}
    /\ head[latest] # 0 \/ submission[latest].supersedes

Tick ==
    /\ now < MaxTime /\ ClockMatters
    /\ now' = now + 1
    /\ UNCHANGED <<active, custody, latest, submission, revisions, txn>>

\* PROJECT activates a guide, or loses its active context.  An open task
\* transaction holds the project row, so this waits for it.  Bound: after
\* screening the active guide is only read in these two statuses.
ActivateGuide(g) ==
    /\ Unlocked /\ g # active
    /\ task.status \in {"evaluation_pending", "needs_revision"}
    /\ active' = g
    /\ UNCHANGED <<now, custody, latest, submission, revisions, txn>>

-----------------------------------------------------------------------------
(* Project manager and contributor commands *)

\* screen: the task locks the active policy context.
Screen ==
    /\ Unlocked /\ task.status = "draft" /\ active # NoGuide
    /\ task' = [task EXCEPT !.status = "screening", !.lineage = active]
    /\ UNCHANGED <<now, active, assignments, assignment, latest, submission, revisions, txn>>

ReleaseTask ==
    /\ Unlocked /\ task.status = "screening"
    /\ task' = [task EXCEPT !.status = "ready"]
    /\ UNCHANGED <<now, active, assignments, assignment, latest, submission, revisions, txn>>

Claim(c) ==
    /\ Unlocked /\ task.status = "ready"
    /\ task.assignedTo = NoOne /\ \A a \in Rows : assignment[a].status # "active"
    /\ assignments < MaxAssignments
    /\ assignments' = assignments + 1
    /\ assignment' = [assignment EXCEPT ![assignments + 1] =
                        [contributor |-> c, status |-> "active", lineage |-> task.lineage]]
    /\ task' = [task EXCEPT !.status = "in_progress", !.assignedTo = c]
    /\ UNCHANGED <<now, active, latest, submission, revisions, txn>>

\* Mutant: the released task keeps its contributor.
ReleaseAssigned(a, outcome) ==
    /\ assignment' = [assignment EXCEPT ![a] = [@ EXCEPT !.status = outcome]]
    /\ task' = [task EXCEPT !.status = "ready"]
    /\ UNCHANGED assignments

\* The assignment leaves with this outcome and the task is ready again.
Release(a, outcome) ==
    /\ assignment' = [assignment EXCEPT ![a] = [@ EXCEPT !.status = outcome]]
    /\ task' = [task EXCEPT !.status = "ready", !.assignedTo = NoOne]
    /\ UNCHANGED assignments

\* reconcile: the contributor's authority was revoked before any submission.
InvalidateAssignment(a) ==
    /\ Unlocked /\ task.status = "in_progress" /\ latest = 0
    /\ Holds(a) /\ assignment[a].lineage = task.lineage
    /\ Release(a, "authority_revoked")
    /\ UNCHANGED <<now, active, latest, submission, revisions, txn>>

-----------------------------------------------------------------------------
(* Submission *)

\* The first submission of an assignment: an earlier one on the task must
\* belong to an assignment its revision window released.
InitialAdmitted(a) ==
    /\ task.status = "in_progress"
    /\ \A v \in 1..latest : submission[v].assignment # a
    /\ latest # 0 => assignment[submission[latest].assignment].status
                        \in {"revision_expired", "revision_exhausted"}

\* A revision: the head admits it, the clock has not passed its deadline and
\* the locked policy has a round left.
RevisionAdmitted(a) ==
    /\ CurrentSource(latest) /\ submission[latest].assignment = a
    /\ Head(latest).blocked = "none" /\ Running(Head(latest)) /\ now < Head(latest).deadline
    /\ Head(latest).target = task.lineage
    /\ Counted(a, latest) <= MaxRounds[task.lineage]

\* create: every check and the insert, in a transaction not yet committed.
SubmitStage(a) ==
    /\ Unlocked /\ Holds(a) /\ assignment[a].lineage = task.lineage
    /\ latest < MaxSubmissions
    /\ InitialAdmitted(a) \/ RevisionAdmitted(a)
    /\ txn' = [NoTxn EXCEPT !.kind = "submit", !.assignment = a]
    /\ UNCHANGED <<now, active, custody, latest, submission, revisions>>

\* Mutant: the deferred trigger does not read the clock again.
CommitOnTimeAtInsert == TRUE

\* guard_revision_submission_deadline, deferred to the commit.
CommitOnTime == task.status = "needs_revision" => now < Head(latest).deadline

SubmitCommit ==
    /\ txn.kind = "submit" /\ CommitOnTime
    /\ latest' = latest + 1
    /\ submission' = [submission EXCEPT ![latest + 1] =
            [NoSubmission EXCEPT !.assignment = txn.assignment, !.lineage = task.lineage,
                !.supersedes = (task.status = "needs_revision"),
                !.attempt = "evaluation_pending", !.submittedAt = now]]
    /\ task' = [task EXCEPT !.status = "evaluation_pending"]
    /\ txn' = NoTxn
    /\ UNCHANGED <<now, active, assignments, assignment, revisions>>

\* A staged submission or repair fails at its commit, or its process dies.
Rollback ==
    /\ ~Unlocked
    /\ txn' = NoTxn
    /\ UNCHANGED <<now, active, custody, latest, submission, revisions>>
-----------------------------------------------------------------------------
(* Checker results and their routing *)

\* CHECKERS complete the current evaluation.
Evaluate(result) ==
    /\ Unlocked /\ task.status = "evaluation_pending" /\ submission[latest].result = "none"
    /\ submission' = [submission EXCEPT ![latest] = [@ EXCEPT !.result = result]]
    /\ UNCHANGED <<now, active, custody, latest, revisions, txn>>

\* Mutant: the last permitted attempt is refused as being over the cap.
RoutableBelowCap(v) ==
    /\ v = latest /\ v # 0 /\ task.status = "evaluation_pending"
    /\ submission[v].result # "none"
    /\ Holds(submission[v].assignment)
    /\ submission[v].lineage = task.lineage
    /\ submission[v].lineage = assignment[submission[v].assignment].lineage
    /\ Recommendation(v) = "needs_revision" =>
            Counted(submission[v].assignment, v) - 1 < MaxRounds[submission[v].lineage]

\* _prepare, for a completion that has no manifest yet.  Later deliveries of
\* the same completion replay the manifest and change nothing.
Routable(v) ==
    /\ v = latest /\ v # 0 /\ task.status = "evaluation_pending"
    /\ submission[v].result # "none"
    /\ Holds(submission[v].assignment)
    /\ submission[v].lineage = task.lineage
    /\ submission[v].lineage = assignment[submission[v].assignment].lineage
    /\ Recommendation(v) = "needs_revision" =>
            Counted(submission[v].assignment, v) - 1 <= MaxRounds[submission[v].lineage]

\* record_attempt_outcome with the manifest; the trigger derives the reason.
Decided(v, outcome, reason) ==
    submission' = [submission EXCEPT ![v] =
                    [@ EXCEPT !.attempt = outcome, !.reason = reason, !.routedAt = now]]

RouteReview(v) ==
    /\ Unlocked /\ Routable(v)
    /\ Recommendation(v) = "allow_review" /\ submission[v].lineage \in HumanReview
    /\ task' = [task EXCEPT !.status = "review_pending"]
    /\ Decided(v, "review_pending", "none")
    /\ UNCHANGED <<now, active, assignments, assignment, latest, revisions, txn>>

\* apply_accepted_effects, when the review lifecycle admits new effects.
RouteAccept(v) ==
    /\ Unlocked /\ Routable(v)
    /\ Recommendation(v) = "allow_review" /\ submission[v].lineage \notin HumanReview
    /\ task' = [task EXCEPT !.status = "accepted"]
    /\ assignment' = [assignment EXCEPT ![submission[v].assignment] = [@ EXCEPT !.status = "completed"]]
    /\ Decided(v, "accepted", "none")
    /\ UNCHANGED <<now, active, assignments, latest, revisions, txn>>

\* The last permitted attempt failed.
Exhausts(v) ==
    /\ Counted(submission[v].assignment, v) - 1 = MaxRounds[submission[v].lineage]
    /\ submission[v].result # "coverage"

\* exhaust_assignment and commit_exhaustion.
RouteExhaust(v) ==
    /\ Unlocked /\ Routable(v)
    /\ Recommendation(v) = "needs_revision" /\ Exhausts(v)
    /\ Release(submission[v].assignment, "revision_exhausted")
    /\ Decided(v, "rejected", "revision_limit_reached")
    /\ UNCHANGED <<now, active, latest, revisions, txn>>

-----------------------------------------------------------------------------
(* The revision clock, owned by PostgreSQL *)

\* The active guide cannot take the next attempt.
Blocked(target, round) == target = NoGuide \/ (target \in Guides /\ MaxRounds[target] < round)

\* revision_window_origin: a coverage return that follows one keeps its window.
Inherits(v) ==
    /\ submission[v].supersedes
    /\ submission[v].result = "coverage"
    /\ v > 1 /\ submission[v - 1].reason = "checker_coverage_incomplete"

\* project_revision_preparation_clock for the root of the chain.
Root(v, target, round) ==
    LET p == [NoPreparation EXCEPT !.target = target, !.nextRound = round, !.observed = now,
                                   !.max = MaxRounds[submission[v].lineage]]
        window == DeadlineHours[submission[v].lineage]
        original == IF Inherits(v) THEN Head(v - 1).deadline ELSE now + window
    IN  IF original <= now
        THEN [p EXCEPT !.deadline = original, !.blocked = "revision_deadline_expired"]
        ELSE IF Blocked(target, round)
        THEN [p EXCEPT !.remaining = IF Inherits(v) THEN original - now ELSE window,
                       !.blocked = "context_blocked"]
        ELSE [p EXCEPT !.deadline = original]

\* Mutant: resuming a paused clock starts from the deadline hours again.
ChildRestarted(v, p, target) ==
    LET q == [p EXCEPT !.target = target, !.observed = now]
    IN  IF Blocked(target, p.nextRound)
        THEN [q EXCEPT !.blocked = "context_blocked", !.deadline = NoTime,
                       !.remaining = IF Running(p) THEN p.deadline - now ELSE p.remaining]
        ELSE [q EXCEPT !.blocked = "none", !.remaining = NoTime,
                       !.deadline = IF Running(p) THEN p.deadline
                                    ELSE now + DeadlineHours[submission[v].lineage]]

\* Mutant: a paused clock is paused again from its missing deadline.
ChildUnpaused(v, p, target) ==
    LET q == [p EXCEPT !.target = target, !.observed = now]
    IN  IF Blocked(target, p.nextRound)
        THEN [q EXCEPT !.blocked = "context_blocked", !.deadline = NoTime,
                       !.remaining = p.deadline - now]
        ELSE [q EXCEPT !.blocked = "none", !.remaining = NoTime,
                       !.deadline = IF Running(p) THEN p.deadline ELSE now + p.remaining]

\* ... and for a child that replaces the head p: a blocked target pauses the
\* clock with the time left, an admissible one keeps or resumes it.
Child(v, p, target) ==
    LET q == [p EXCEPT !.target = target, !.observed = now]
    IN  IF Blocked(target, p.nextRound)
        THEN [q EXCEPT !.blocked = "context_blocked", !.deadline = NoTime,
                       !.remaining = IF Running(p) THEN p.deadline - now ELSE p.remaining]
        ELSE [q EXCEPT !.blocked = "none", !.remaining = NoTime,
                       !.deadline = IF Running(p) THEN p.deadline ELSE now + p.remaining]

\* Mutant: a repaired head is published without a timer of its own.
TimerOfRoot(p, k) == IF Running(p) /\ k = 1 THEN "pending" ELSE "none"

\* revision_preparation_event: a timer for a running head, a notice for a
\* paused one.
TimerFor(p, k) == IF Running(p) THEN "pending" ELSE "none"

\* prepare_revision: the preparation becomes the head with its event.
AppendPreparation(v, p) ==
    /\ head' = [head EXCEPT ![v] = @ + 1]
    /\ preparation' = [preparation EXCEPT ![v][head[v] + 1] = p]
    /\ timer' = [timer EXCEPT ![v][head[v] + 1] = TimerFor(p, head[v] + 1)]

\* Mutant: rebasing forgets the assignment.
AdoptOnTask(a, p) ==
    /\ task' = [task EXCEPT !.status = "needs_revision",
                            !.lineage = IF p.blocked = "none" THEN p.target ELSE @]
    /\ UNCHANGED <<assignments, assignment>>

\* An admissible target replaces the locked lineage of task and assignment.
Adopt(a, p) ==
    /\ task' = [task EXCEPT !.status = "needs_revision",
                            !.lineage = IF p.blocked = "none" THEN p.target ELSE @]
    /\ assignment' = [assignment EXCEPT ![a] =
                        [@ EXCEPT !.lineage = IF p.blocked = "none" THEN p.target ELSE assignment[a].lineage]]
    /\ UNCHANGED assignments

\* The submission returns for revision: its round is counted after the
\* attempt outcome is recorded, so a coverage return does not count itself.
RouteReturn(v) ==
    LET a == submission[v].assignment
        coverage == submission[v].result = "coverage"
        round == Counted(a, v) - (IF coverage THEN 1 ELSE 0)
        p == Root(v, active, round)
    IN  /\ Unlocked /\ Routable(v)
        /\ Recommendation(v) = "needs_revision" /\ ~Exhausts(v)
        /\ Decided(v, "needs_revision", IF coverage THEN "checker_coverage_incomplete" ELSE "none")
        /\ AppendPreparation(v, p)
        /\ Adopt(a, p)
        /\ UNCHANGED <<now, active, latest, txn>>

\* repair_revision_context: the manager's command, checked and inserted.
RepairStage ==
    /\ Unlocked /\ CurrentSource(latest)
    /\ head[latest] < MaxPreparations
    /\ LET p == Head(latest)
       IN  /\ Running(p) => now < p.deadline
           /\ p.nextRound <= p.max
           /\ p.target # active
           /\ txn' = [NoTxn EXCEPT !.kind = "repair", !.child = Child(latest, p, active)]
    /\ UNCHANGED <<now, active, custody, latest, submission, revisions>>

\* Mutant: the closure trigger does not read the predecessor's deadline.
RepairOnTimeAtInsert == TRUE

\* guard_revision_preparation_closure: the predecessor's window is still open.
RepairOnTime == Running(Head(latest)) => now < Head(latest).deadline

RepairCommit ==
    /\ txn.kind = "repair" /\ RepairOnTime
    /\ AppendPreparation(latest, txn.child)
    /\ Adopt(submission[latest].assignment, txn.child)
    /\ txn' = NoTxn
    /\ UNCHANGED <<now, active, latest, submission>>

-----------------------------------------------------------------------------
(* Timers, delivered at least once by the outbox *)

Due(v, k) == timer[v][k] = "pending" /\ preparation[v][k].deadline <= now

\* Mutant: a timer is not compared with the head that replaced its own.
TimerGovernsSource(v, k) == CurrentSource(v)

\* Mutant: a timer does not check that its source is still the current one.
TimerGovernsHead(v, k) ==
    Head(v).deadline = preparation[v][k].deadline /\ Head(v).nextRound <= Head(v).max

\* The head still ends at this timer's deadline and its source is current.
TimerGoverns(v, k) ==
    /\ Head(v).deadline = preparation[v][k].deadline
    /\ Head(v).nextRound <= Head(v).max
    /\ CurrentSource(v)

\* _record_expiration; when the acknowledgement is lost the timer comes again.
ExpireWindow(v, k) ==
    /\ Unlocked /\ Due(v, k) /\ TimerGoverns(v, k)
    /\ Release(submission[v].assignment, "revision_expired")
    /\ submission' = [submission EXCEPT ![v] =
                        [@ EXCEPT !.attempt = "rejected", !.reason = "revision_deadline_expired"]]
    /\ \E s \in {"pending", "acknowledged"} : timer' = [timer EXCEPT ![v][k] = s]
    /\ UNCHANGED <<now, active, latest, head, preparation, txn>>

\* A timer whose window moved, was used or already expired.
AcknowledgeTimer(v, k) ==
    /\ Unlocked /\ Due(v, k) /\ ~TimerGoverns(v, k)
    /\ timer' = [timer EXCEPT ![v][k] = "acknowledged"]
    /\ UNCHANGED <<now, active, custody, latest, submission, head, preparation, txn>>

\* The outbox gives the timer up without an effect.
DeadLetterTimer(v, k) ==
    /\ Due(v, k)
    /\ Cardinality({d \in Versions \X Heads : timer[d[1]][d[2]] = "dead_letter"}) < MaxDead
    /\ timer' = [timer EXCEPT ![v][k] = "dead_letter"]
    /\ UNCHANGED <<now, active, custody, latest, submission, head, preparation, txn>>

-----------------------------------------------------------------------------
Next ==
    \/ Tick
    \/ \E g \in Guides \cup {NoGuide} : ActivateGuide(g)
    \/ Screen
    \/ ReleaseTask
    \/ \E c \in Contributors : Claim(c)
    \/ \E a \in Rows : InvalidateAssignment(a)
    \/ \E a \in Rows : SubmitStage(a)
    \/ SubmitCommit
    \/ Rollback
    \/ \E r \in Results \ {"none"} : Evaluate(r)
    \/ \E v \in Versions : RouteReview(v)
    \/ \E v \in Versions : RouteAccept(v)
    \/ \E v \in Versions : RouteExhaust(v)
    \/ \E v \in Versions : RouteReturn(v)
    \/ RepairStage
    \/ RepairCommit
    \/ \E v \in Versions, k \in Heads : ExpireWindow(v, k)
    \/ \E v \in Versions, k \in Heads : AcknowledgeTimer(v, k)
    \/ \E v \in Versions, k \in Heads : DeadLetterTimer(v, k)

Spec == Init /\ [][Next]_vars

\* The outbox delivers due timers and open transactions end.
Fairness ==
    /\ WF_vars(Rollback)
    /\ \A v \in Versions, k \in Heads :
            WF_vars(ExpireWindow(v, k)) /\ WF_vars(AcknowledgeTimer(v, k))

FairSpec == Spec /\ Fairness

-----------------------------------------------------------------------------
(* Properties *)

RevisionOnTime(v) ==
    submission[v].supersedes =>
        /\ v > 1 /\ head[v - 1] # 0
        /\ submission[v].assignment = submission[v - 1].assignment
        /\ Head(v - 1).blocked = "none" /\ Running(Head(v - 1))
        /\ submission[v].submittedAt < Head(v - 1).deadline
        /\ submission[v].lineage = Head(v - 1).target

\* A revision was committed while the head it answers was running, unblocked
\* and before its deadline, under exactly the lineage that head adopted: the
\* insert and the deferred trigger read different instants and the row locks
\* do not stop the clock (guard_new_revision_submission,
\* guard_revision_submission_deadline).
RevisionsOnTime == \A v \in 1..latest : RevisionOnTime(v)

\* A completed evaluation can always be routed: task, assignment and latest
\* submission agree on the lineage and the round count never passes the cap,
\* whatever guides were adopted in between (_prepare would raise on every
\* delivery and the task would stay in evaluation_pending).
NeverUnroutable ==
    task.status = "evaluation_pending" /\ submission[latest].result # "none" => Routable(latest)

\* An open window can be used: while the head admits a revision, its deadline
\* has not passed and the contributor still holds the task, the submission
\* path admits it.  The head's round was computed when it was routed and the
\* lineage was rebased on two rows; the submission recounts and compares
\* them (require_revision_capacity, select_submission_context).
OpenWindowUsable ==
    CurrentSource(latest) /\ Head(latest).blocked = "none" /\ now < Head(latest).deadline =>
        LET a == submission[latest].assignment
        IN  RevisionAdmitted(a) /\ assignment[a].lineage = task.lineage

\* The task names a contributor exactly while one assignment carries it, and
\* every released assignment has the decision that released it: its last
\* submission was rejected for the same cause.
CustodyMatchesOutcome ==
    /\ (task.status \in Working) <=> (task.assignedTo # NoOne)
    /\ \A a \in Rows : assignment[a].status \in {"active", "completed"} =>
            /\ task.assignedTo = assignment[a].contributor
            /\ (assignment[a].status = "completed") <=> (task.status = "accepted")
            /\ \A b \in Rows \ {a} : assignment[b].status \notin {"active", "completed"}
    /\ \A v \in 1..latest : submission[v].attempt = "rejected" =>
            /\ assignment[submission[v].assignment].status =
                    (IF submission[v].reason = "revision_limit_reached"
                     THEN "revision_exhausted" ELSE "revision_expired")
            /\ \A u \in (v + 1)..latest : submission[u].assignment # submission[v].assignment

RightCause(v) ==
    LET round == Counted(submission[v].assignment, v) - 1
        cap == MaxRounds[submission[v].lineage]
    IN  /\ submission[v].reason = "revision_limit_reached" =>
                submission[v].result = "failed" /\ round = cap /\ head[v] = 0
        /\ submission[v].reason = "revision_deadline_expired" =>
                /\ head[v] # 0 /\ Running(Head(v)) /\ Head(v).deadline <= now
                /\ submission[v].result = "failed" => round < cap

\* Exhaustion is for the failed last round only, expiry for a window that ran
\* out with a round left: a coverage gap never exhausts and a timer never
\* takes the place of the cap (guard_task_revision_exhaustion,
\* guard_task_revision_expiration).
RejectedForTheRightCause == \A v \in 1..latest : RightCause(v)

\* A coverage return that follows one continues its window.
Continues(v) ==
    /\ v > 1 /\ submission[v].supersedes
    /\ submission[v].result = "coverage" /\ submission[v - 1].result = "coverage"

FirstOfRun(v) == CHOOSE u \in 1..v : ~Continues(u) /\ \A w \in (u + 1)..v : Continues(w)

PausedInstants(v) ==
    {t \in 0..now : \E u \in FirstOfRun(v)..v : \E k \in 1..(head[u] - 1) :
        /\ ~Running(preparation[u][k])
        /\ preparation[u][k].observed <= t /\ t < preparation[u][k + 1].observed}

WindowEnd(p) == IF Running(p) THEN p.deadline ELSE p.observed + p.remaining

WindowExactAt(v) ==
    head[v] # 0 =>
        WindowEnd(Head(v)) =
            submission[FirstOfRun(v)].routedAt + DeadlineHours[submission[FirstOfRun(v)].lineage]
                + Cardinality(PausedInstants(v))

\* The running time of a window is exact: it ends at the routing of the first
\* return of a run of coverage returns, plus the policy's hours, plus the
\* time its clock was paused, however often it was paused, resumed, rebased
\* or inherited.
WindowExact == \A v \in 1..latest : WindowExactAt(v)

DecisionsKept ==
    /\ \A v \in 1..latest :
         submission[v].attempt \in {"accepted", "rejected"} \/ v < latest => submission'[v] = submission[v]
    /\ \A a \in Rows : assignment[a].status \in Released \cup {"completed"} =>
         assignment'[a] = assignment[a]
    /\ \A v \in Versions, k \in Heads : k <= head[v] => preparation'[v][k] = preparation[v][k]

\* A decided attempt, a released or completed assignment and an earlier link
\* of a preparation chain never change again, whatever is delivered late or
\* twice.
DecisionsFinal == [][DecisionsKept]_vars

DeadlinePassed(v) == CurrentSource(v) /\ Running(Head(v)) /\ Head(v).deadline <= now

LeavesByRejection(v) == DeadlinePassed(v) => DeadlinePassed(v)' \/ submission'[v].attempt = "rejected"

\* Once the deadline of a current window has passed, nothing reopens or uses
\* it: a repair or a submission staged in time and committed late is refused,
\* and the source only leaves by its rejection.
PassedDeadlineIsFinal == [][\A v \in Versions : LeavesByRejection(v)]_vars

Overdue(v) == DeadlinePassed(v) /\ timer[v][head[v]] # "dead_letter"

\* No window stays overdue: one whose deadline passed is closed and the task
\* offered again, unless the outbox gives up its timer.
OverdueWindowsClose == (\E v \in Versions : Overdue(v)) ~> (\A v \in Versions : ~Overdue(v))
-----------------------------------------------------------------------------
(* The inductive invariant behind the safety properties *)

\* The last assignment holds the task or was released like all before it.
CustodyOK ==
    /\ \A a \in Rows :
         /\ a > assignments => assignment[a].status = "absent"
         /\ a < assignments => assignment[a].status \in Released
    /\ IF task.status \in Working
       THEN /\ assignments # 0 /\ task.assignedTo \in Contributors
            /\ assignment[assignments].contributor = task.assignedTo
            /\ assignment[assignments].lineage = task.lineage
            /\ assignment[assignments].status = IF task.status = "accepted" THEN "completed" ELSE "active"
       ELSE /\ task.assignedTo = NoOne
            /\ assignments # 0 => assignment[assignments].status \in Released
    /\ task.status # "draft" => task.lineage \in Guides

\* The reason of a decision and the preparations behind it.
AttemptOK(v) ==
    LET s == submission[v] IN
    /\ s.lineage \in Guides /\ s.attempt # "absent"
    /\ s.attempt \in {"evaluation_pending", "review_pending", "accepted"} =>
          s.reason = "none" /\ head[v] = 0
    /\ s.attempt = "needs_revision" =>
          /\ head[v] # 0 /\ s.result \in {"failed", "coverage"}
          /\ s.reason = IF s.result = "coverage" THEN "checker_coverage_incomplete" ELSE "none"
          /\ s.result = "failed" => Counted(s.assignment, v) <= MaxRounds[s.lineage]
    /\ s.attempt = "rejected" => s.reason \in {"revision_limit_reached", "revision_deadline_expired"}
    /\ s.supersedes => v > 1 /\ submission[v - 1].attempt = "needs_revision"

\* A rejected submission is the last of its assignment and released it.
OwnerOK(v) ==
    LET s == submission[v] IN
    /\ s.assignment \in 1..assignments
    /\ v < latest => s.attempt \in {"needs_revision", "rejected"}
    /\ s.attempt = "rejected" =>
          /\ assignment[s.assignment].status =
                (IF s.reason = "revision_limit_reached" THEN "revision_exhausted" ELSE "revision_expired")
          /\ \A u \in (v + 1)..latest : submission[u].assignment # s.assignment

\* The latest submission is where the task is.
Submitted == {"evaluation_pending", "review_pending", "needs_revision", "accepted"}
LatestOK ==
    /\ IF task.status \in Submitted
       THEN /\ latest # 0 /\ submission[latest].assignment = assignments
            /\ submission[latest].attempt = task.status
       ELSE latest # 0 => submission[latest].attempt = "rejected"
    /\ task.status = "in_progress" => \A v \in 1..latest : submission[v].assignment < assignments
    /\ task.status = "evaluation_pending" =>
         /\ submission[latest].lineage = task.lineage
         /\ Counted(assignments, latest) <= MaxRounds[task.lineage] + 1
    /\ task.status = "needs_revision" =>
         /\ Head(latest).nextRound = Counted(assignments, latest)
         /\ Head(latest).blocked = "none" => Head(latest).target = task.lineage

\* A preparation runs towards its deadline or keeps the time left, and one
\* that admits a revision runs under a guide with that round.
PreparationOK(p) ==
    /\ IF Running(p) THEN p.deadline \in Nat ELSE p.remaining \in Nat
    /\ p.observed \in 0..now
    /\ p.blocked = "none" => Running(p) /\ p.target \in Guides /\ p.nextRound <= MaxRounds[p.target]

ChainOK(v, k) ==
    /\ k <= head[v] => PreparationOK(preparation[v][k])
    /\ timer[v][k] = "pending" => k <= head[v] /\ Running(preparation[v][k])

\* No earlier preparation was observed later than this head.
ObservedLast(v) ==
    head[v] # 0 =>
        \A u \in 1..v : \A k \in 1..head[u] : preparation[u][k].observed <= Head(v).observed

\* What an open transaction has checked and the locks keep.
TxnOK ==
    /\ txn.kind = "submit" =>
         /\ task.status \in {"in_progress", "needs_revision"} /\ latest < MaxSubmissions
         /\ txn.assignment = assignments
         /\ task.status = "needs_revision" => Head(latest).blocked = "none"
    /\ txn.kind = "repair" =>
         LET p == Head(latest)
             c == txn.child
         IN  /\ task.status = "needs_revision" /\ head[latest] < MaxPreparations
             /\ PreparationOK(c) /\ c.nextRound = p.nextRound /\ p.observed <= c.observed
             /\ WindowEnd(c) = WindowEnd(p) + (IF Running(p) THEN 0 ELSE c.observed - p.observed)

\* The rows of a task fit together after every command, timer and rollback: who
\* holds the task, what was decided, which windows exist and what an open
\* transaction still relies on (the locks and triggers of tasks and revisions).
RevisionInv ==
    /\ TypeOK /\ CustodyOK /\ LatestOK /\ TxnOK
    /\ \A v \in Versions : v > latest => submission[v] = NoSubmission /\ head[v] = 0
    /\ \A v \in 1..latest : AttemptOK(v) /\ OwnerOK(v) /\ ObservedLast(v)
    /\ \A v \in Versions, k \in Heads : ChainOK(v, k)
    /\ RevisionsOnTime /\ RejectedForTheRightCause /\ WindowExact
=============================================================================
