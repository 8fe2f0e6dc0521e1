------------------------ MODULE TaskRevision_proofs ------------------------
(***************************************************************************)
(* Theorems about TaskRevision.                                            *)
(***************************************************************************)
EXTENDS TaskRevision, Sums_proofs

-----------------------------------------------------------------------------
(* Rows and bounds.                                                        *)

LEMMA Bounds ==
    /\ Rows \subseteq Nat /\ Versions \subseteq Nat /\ Heads \subseteq Nat
    /\ \A a \in Nat : a \in Rows <=> 1 <= a /\ a <= MaxAssignments
    /\ \A v \in Nat : v \in Versions <=> 1 <= v /\ v <= MaxSubmissions
    /\ \A k \in Nat : k \in Heads <=> 1 <= k /\ k <= MaxPreparations
    /\ MaxAssignments \in Nat /\ MaxSubmissions \in Nat /\ MaxPreparations \in Nat
    /\ 1 \in Heads /\ 0 \notin Rows /\ 0 \notin Versions /\ 0 \notin Heads
  BY BoundsAssumption DEF Rows, Versions, Heads

LEMMA Policies ==
    /\ \A g \in Guides : MaxRounds[g] \in Nat /\ DeadlineHours[g] \in Nat /\ DeadlineHours[g] > 0
    /\ NoOne \notin Contributors /\ NoGuide \notin Guides
  BY PolicyAssumption

\* What the types say of single rows.
LEMMA RowTypes ==
    ASSUME TypeOK
    PROVE  /\ now \in Nat /\ latest \in Nat /\ latest <= MaxSubmissions
           /\ assignments \in Nat /\ assignments <= MaxAssignments
           /\ task \in TaskRows /\ txn \in Txns /\ active \in Guides \cup {NoGuide}
           /\ \A a \in Rows : assignment[a] \in AssignmentRows
           /\ \A v \in Versions : submission[v] \in SubmissionRows
           /\ \A v \in Versions : head[v] \in Nat /\ head[v] <= MaxPreparations
           /\ \A v \in Versions, k \in Heads : preparation[v][k] \in PreparationRows
           /\ \A v \in Versions, k \in Heads : timer[v][k] \in TimerStates
  BY BoundsAssumption DEF TypeOK

LEMMA SubmissionFields ==
    ASSUME NEW s \in SubmissionRows
    PROVE  /\ s.assignment \in Rows \cup {0} /\ s.lineage \in Guides \cup {NoGuide}
           /\ s.supersedes \in BOOLEAN /\ s.attempt \in AttemptStatuses /\ s.reason \in Reasons
           /\ s.result \in Results /\ s.submittedAt \in Time /\ s.routedAt \in Time
  BY DEF SubmissionRows

LEMMA PreparationFields ==
    ASSUME NEW p \in PreparationRows
    PROVE  /\ p.target \in Guides \cup {NoGuide} /\ p.nextRound \in Nat /\ p.max \in Nat
           /\ p.deadline \in Time /\ p.remaining \in Time /\ p.observed \in Time
           /\ p.blocked \in {"none", "context_blocked", "revision_deadline_expired"}
  BY DEF PreparationRows

LEMMA TaskFields ==
    ASSUME NEW r \in TaskRows
    PROVE  /\ r.status \in TaskStatuses /\ r.assignedTo \in Contributors \cup {NoOne}
           /\ r.lineage \in Guides \cup {NoGuide}
  BY DEF TaskRows

LEMMA AssignmentFields ==
    ASSUME NEW r \in AssignmentRows
    PROVE  /\ r.status \in AssignmentStatuses /\ r.contributor \in Contributors \cup {NoOne}
           /\ r.lineage \in Guides \cup {NoGuide}
  BY DEF AssignmentRows

LEMMA TimeFacts == Time \subseteq Int /\ Nat \subseteq Time /\ NoTime \in Time /\ NoTime \notin Nat
                   /\ \A t \in Time : t # NoTime => t \in Nat
  BY DEF Time, NoTime

LEMMA Defaults ==
    /\ NoSubmission \in SubmissionRows /\ NoPreparation \in PreparationRows
    /\ NoAssignment \in AssignmentRows /\ NoTxn \in Txns /\ NoTxn.kind = "none"
    /\ NoSubmission.attempt = "absent" /\ NoSubmission.reason = "none"
    /\ NoSubmission.result = "none" /\ NoSubmission.supersedes = FALSE
  BY TimeFacts DEF NoSubmission, SubmissionRows, NoPreparation, PreparationRows, NoAssignment, AssignmentRows,
     NoTxn, Txns, AttemptStatuses, Reasons, Results, AssignmentStatuses

\* The versions already submitted.
LEMMA PastVersions ==
    ASSUME TypeOK
    PROVE  /\ \A v : v \in 1..latest <=> v \in Versions /\ v <= latest
           /\ latest # 0 => latest \in Versions /\ latest \in 1..latest
           /\ assignments # 0 => assignments \in Rows
           /\ \A v \in Versions : \A u \in 1..v : u \in Versions
           /\ \A v \in Versions : v > 1 => v - 1 \in Versions /\ v - 1 \in 1..v
  BY Bounds, BoundsAssumption DEF TypeOK, Versions, Rows

-----------------------------------------------------------------------------
(* Sets of versions.                                                       *)

\* Counting: what a changed row does to the number of counted attempts.
LEMMA CountedNat ==
    ASSUME NEW a, NEW v \in Nat
    PROVE  /\ IsFiniteSet(CountedRows(a, v)) /\ Counted(a, v) \in Nat
           /\ v \in CountedRows(a, v) => Counted(a, v) >= 1
  <1>1. IsFiniteSet(1..v) /\ CountedRows(a, v) \subseteq 1..v
    BY FS_Interval DEF CountedRows
  <1>2. IsFiniteSet(CountedRows(a, v)) /\ Counted(a, v) \in Nat
    BY <1>1, FS_Subset, FS_CardinalityType DEF Counted
  <1>3. Counted(a, v) = 0 <=> CountedRows(a, v) = {}
    BY <1>2, FS_EmptySet DEF Counted
  <1> QED
    BY <1>2, <1>3

LEMMA CountedNext ==
    ASSUME NEW a, NEW v \in Nat
    PROVE  /\ IsFiniteSet(CountedRows(a, v)') /\ Counted(a, v)' \in Nat
  <1>1. IsFiniteSet(1..v) /\ CountedRows(a, v)' \subseteq 1..v
    BY FS_Interval DEF CountedRows
  <1> QED
    BY <1>1, FS_Subset, FS_CardinalityType DEF Counted

Same(x, y) ==
    /\ x.assignment = y.assignment
    /\ x.reason = "checker_coverage_incomplete" <=> y.reason = "checker_coverage_incomplete"

LEMMA CountedSame ==
    ASSUME NEW a, NEW v \in Nat, \A u \in 1..v : Same(submission'[u], submission[u])
    PROVE  Counted(a, v)' = Counted(a, v)
  <1>1. CountedRows(a, v)' = CountedRows(a, v)
    BY DEF CountedRows, Same
  <1> QED
    BY <1>1 DEF Counted

LEMMA CountedAdd ==
    ASSUME NEW a, NEW v \in Nat, \A u \in 1..v : Same(submission'[u], submission[u]),
           submission'[v + 1].assignment = a, submission'[v + 1].reason # "checker_coverage_incomplete"
    PROVE  Counted(a, v + 1)' = Counted(a, v) + 1
  <1>1. CountedRows(a, v + 1)' = CountedRows(a, v) \cup {v + 1} /\ v + 1 \notin CountedRows(a, v)
    BY DEF CountedRows, Same
  <1> QED
    BY <1>1, CountedNat, FS_AddElement DEF Counted

LEMMA CountedDrop ==
    ASSUME NEW a, NEW v \in Nat, v > 0, \A u \in 1..v : u # v => Same(submission'[u], submission[u]),
           submission[v].assignment = a, submission[v].reason # "checker_coverage_incomplete",
           submission'[v].reason = "checker_coverage_incomplete"
    PROVE  Counted(a, v)' = Counted(a, v) - 1
  <1>1. CountedRows(a, v)' = CountedRows(a, v) \ {v} /\ v \in CountedRows(a, v)
    BY DEF CountedRows, Same
  <1> QED
    BY <1>1, CountedNat, FS_RemoveElement DEF Counted

LEMMA CountedNone ==
    ASSUME NEW a, NEW v \in Nat, \A u \in 1..v : submission[u].assignment # a
    PROVE  Counted(a, v) = 0
  <1>1. CountedRows(a, v) = {}
    BY DEF CountedRows
  <1> QED
    BY <1>1, FS_EmptySet DEF Counted

\* Below any number there is a last one outside a set that lacks 1.
LEMMA LastOutside ==
    ASSUME NEW v \in Nat, v > 0, NEW C, 1 \notin C
    PROVE  \E u \in 1..v : u \notin C /\ \A w \in (u + 1)..v : w \in C
  <1> DEFINE B == {d \in Nat : d < v /\ v - d \notin C}
  <1>1. v - 1 \in B
    OBVIOUS
  <1>2. PICK d \in B : \A m \in B : d <= m
    BY <1>1, LeastOf
  <1>3. \A w \in (v - d + 1)..v : w \in C
    <2> SUFFICES ASSUME NEW w \in (v - d + 1)..v, w \notin C PROVE FALSE
      OBVIOUS
    <2>1. v - w \in Nat /\ v - w < v /\ v - (v - w) = w /\ v - w < d
      OBVIOUS
    <2> QED
      BY <1>2, <2>1
  <1> QED
    BY <1>2, <1>3

-----------------------------------------------------------------------------
(* The run of coverage returns a window belongs to.                        *)

IsFirst(u, v) == u \in 1..v /\ ~Continues(u) /\ \A w \in (u + 1)..v : Continues(w)

LEMMA FirstIs == ASSUME NEW v \in Nat, v > 0 PROVE IsFirst(FirstOfRun(v), v)
  <1> DEFINE C == {u \in 1..v : Continues(u)}
  <1>1. 1 \notin C
    BY DEF Continues
  <1>2. PICK u \in 1..v : u \notin C /\ \A w \in (u + 1)..v : w \in C
    BY <1>1, LastOutside
  <1>3. IsFirst(u, v)
    BY <1>2 DEF IsFirst
  <1> QED
    BY <1>3 DEF FirstOfRun, IsFirst

LEMMA FirstIsNext == ASSUME NEW v \in Nat, v > 0 PROVE IsFirst(FirstOfRun(v), v)'
  <1> DEFINE C == {u \in 1..v : Continues(u)'}
  <1>1. 1 \notin C
    BY DEF Continues
  <1>2. PICK u \in 1..v : u \notin C /\ \A w \in (u + 1)..v : w \in C
    BY <1>1, LastOutside
  <1>3. u \in 1..v /\ ~Continues(u)' /\ \A w \in (u + 1)..v : Continues(w)'
    BY <1>2
  <1> QED
    BY <1>3 DEF FirstOfRun, IsFirst

LEMMA FirstUnique ==
    ASSUME NEW v \in Nat, NEW x, NEW y, IsFirst(x, v), IsFirst(y, v)
    PROVE  x = y
  BY DEF IsFirst

\* A run that did not change has the same first return.
LEMMA FirstSame ==
    ASSUME NEW v \in Nat, v > 0, \A u \in 1..v : Continues(u)' <=> Continues(u)
    PROVE  FirstOfRun(v)' = FirstOfRun(v) /\ FirstOfRun(v) \in 1..v
  <1>1. PICK f, g : f = FirstOfRun(v) /\ g = FirstOfRun(v)'
    OBVIOUS
  <1>2. IsFirst(f, v)
    BY <1>1, FirstIs
  <1>3. g \in 1..v /\ ~Continues(g)' /\ \A w \in (g + 1)..v : Continues(w)'
    BY <1>1, FirstIsNext DEF IsFirst
  <1>4. IsFirst(g, v)
    BY <1>3 DEF IsFirst
  <1> QED
    BY <1>1, <1>2, <1>4, FirstUnique DEF IsFirst

-----------------------------------------------------------------------------
(* The running time of a window.                                           *)

\* What a window's length depends on in a submission.
SameClock(x, y) ==
    x.supersedes = y.supersedes /\ x.result = y.result /\ x.lineage = y.lineage /\ x.routedAt = y.routedAt

\* The clock of link k of u's chain stood still at t.
StoodStill(u, k, t) ==
    /\ ~Running(preparation[u][k])
    /\ preparation[u][k].observed <= t /\ t < preparation[u][k + 1].observed
StoppedIn(f, v, t) == \E u \in f..v : \E k \in 1..(head[u] - 1) : StoodStill(u, k, t)

LEMMA PausedIs ==
    ASSUME NEW v
    PROVE  /\ PausedInstants(v) = {t \in 0..now : StoppedIn(FirstOfRun(v), v, t)}
           /\ PausedInstants(v)' = {t \in 0..now' : StoppedIn(FirstOfRun(v), v, t)'}
  BY DEF PausedInstants, StoppedIn, StoodStill

LEMMA PausedFinite ==
    ASSUME NEW v, now \in Nat
    PROVE  IsFiniteSet(PausedInstants(v)) /\ Cardinality(PausedInstants(v)) \in Nat
  <1>1. IsFiniteSet(0..now) /\ PausedInstants(v) \subseteq 0..now
    BY FS_Interval DEF PausedInstants
  <1> QED
    BY <1>1, FS_Subset, FS_CardinalityType

\* The chains of all submissions up to v are observed at instants of the past.
ObservedPast(v) ==
    \A u \in 1..v : head[u] \in Nat /\ \A k \in 1..head[u] : preparation[u][k].observed \in 0..now

\* A window none of whose links changed has the same length, however late it is.
LEMMA WindowKept ==
    ASSUME NEW v \in Nat, v > 0, now \in Nat, now' \in Nat, now <= now', ObservedPast(v), WindowExactAt(v),
           \A u \in 1..v : /\ head'[u] = head[u] /\ preparation'[u] = preparation[u]
                           /\ SameClock(submission'[u], submission[u])
    PROVE  WindowExactAt(v)'
  <1>1. \A u \in 1..v : Continues(u)' <=> Continues(u)
    BY DEF Continues, SameClock
  <1>2. PICK f \in 1..v : f = FirstOfRun(v) /\ FirstOfRun(v)' = f
    BY <1>1, FirstSame
  <1>3. ASSUME NEW u \in 1..v, NEW k \in 1..(head[u] - 1), NEW t \in 0..now'
        PROVE  StoodStill(u, k, t)' <=> t \in 0..now /\ StoodStill(u, k, t)
    <2>1. /\ k \in 1..head[u] /\ k + 1 \in 1..head[u]
          /\ preparation[u][k].observed \in 0..now /\ preparation[u][k + 1].observed \in 0..now
      BY DEF ObservedPast
    <2> QED
      BY <2>1 DEF StoodStill, Running
  <1>4. \A t \in 0..now' : StoppedIn(f, v, t)' <=> t \in 0..now /\ StoppedIn(f, v, t)
    BY <1>3 DEF StoppedIn
  <1>5. PausedInstants(v)' = PausedInstants(v)
    BY <1>2, <1>4, PausedIs
  <1>6. /\ submission'[f].routedAt = submission[f].routedAt /\ submission'[f].lineage = submission[f].lineage
        /\ Head(v)' = Head(v) /\ head'[v] = head[v]
    BY DEF SameClock, Head
  <1> QED
    BY <1>2, <1>5, <1>6 DEF WindowExactAt, WindowEnd, Running

\* A link appended to a chain adds the time since the head it replaces, when
\* that head's clock stood still, and no instant twice.
LEMMA WindowAppended ==
    ASSUME NEW v \in Nat, v > 0, NEW h \in Nat, h > 0, NEW p, NEW c,
           now \in Nat, now' = now, ObservedPast(v), ObservedLast(v), WindowExactAt(v),
           head[v] = h, head'[v] = h + 1, p = Head(v), preparation'[v][h + 1] = c,
           \A u \in 1..v : u # v => head'[u] = head[u] /\ preparation'[u] = preparation[u],
           \A k \in 1..h : preparation'[v][k] = preparation[v][k],
           \A u \in 1..v : SameClock(submission'[u], submission[u]),
           \A u \in 1..v : submission[u].routedAt \in Int /\ DeadlineHours[submission[u].lineage] \in Int,
           c.observed \in 0..now, p.observed <= c.observed,
           WindowEnd(p) \in Int,
           WindowEnd(c) = WindowEnd(p) + (IF Running(p) THEN 0 ELSE c.observed - p.observed)
    PROVE  WindowExactAt(v)'
  <1>1. \A u \in 1..v : Continues(u)' <=> Continues(u)
    BY DEF Continues, SameClock
  <1>2. PICK f \in 1..v : f = FirstOfRun(v) /\ FirstOfRun(v)' = f
    BY <1>1, FirstSame
  <1>3. p = preparation[v][h] /\ p.observed \in 0..now /\ Head(v)' = c
    BY DEF Head, ObservedPast
  <1> DEFINE D == IF Running(p) THEN {} ELSE p.observed..(c.observed - 1)
  <1>4. ASSUME NEW t \in 0..now
        PROVE  StoppedIn(f, v, t)' <=> StoppedIn(f, v, t) \/ t \in D
    <2>1. \A k \in 1..(h - 1) : StoodStill(v, k, t)' <=> StoodStill(v, k, t)
      BY DEF StoodStill, Running
    <2>2. StoodStill(v, h, t)' <=> t \in D
      BY <1>3 DEF StoodStill, Running
    <2>3. \A u \in f..v : u # v => \A k \in 1..(head[u] - 1) : StoodStill(u, k, t)' <=> StoodStill(u, k, t)
      BY DEF StoodStill, Running
    <2>4. \A u \in f..v : u # v => head'[u] = head[u]
      OBVIOUS
    <2>5. 1..(head'[v] - 1) = 1..(h - 1) \cup {h}
      OBVIOUS
    <2>6. v \in f..v
      OBVIOUS
    <2> HIDE DEF D
    <2> QED
      BY <2>1, <2>2, <2>3, <2>4, <2>5, <2>6 DEF StoppedIn
  <1>5. ASSUME NEW t \in 0..now, StoppedIn(f, v, t) PROVE t < p.observed
    <2>1. PICK u \in f..v : \E k \in 1..(head[u] - 1) : StoodStill(u, k, t)
      BY <1>5 DEF StoppedIn
    <2>2. PICK k \in 1..(head[u] - 1) : StoodStill(u, k, t)
      BY <2>1
    <2>3. u \in 1..v /\ head[u] \in Nat
      BY DEF ObservedPast
    <2>4. k + 1 \in 1..head[u]
      BY <2>3
    <2>5. preparation[u][k + 1].observed <= p.observed /\ preparation[u][k + 1].observed \in Int
      BY <2>3, <2>4 DEF ObservedLast, ObservedPast
    <2> QED
      BY <1>3, <2>2, <2>5 DEF StoodStill
  <1>6. D \subseteq 0..now /\ IsFiniteSet(D)
        /\ Cardinality(D) = IF Running(p) THEN 0 ELSE c.observed - p.observed
    <2>1. CASE Running(p)
      BY <2>1, FS_EmptySet
    <2>2. CASE ~Running(p)
      <3>1. PICK x \in 0..now, y \in 0..now : x = p.observed /\ y = c.observed /\ x <= y
        BY <1>3
      <3>2. IsFiniteSet(x..(y - 1)) /\ Cardinality(x..(y - 1)) = y - x /\ x..(y - 1) \subseteq 0..now
        <4>1. x \in Int /\ y - 1 \in Int /\ x <= y
          BY <3>1
        <4>2. IsFiniteSet(x..(y - 1)) /\ Cardinality(x..(y - 1)) = IF x > y - 1 THEN 0 ELSE (y - 1) - x + 1
          BY <4>1, FS_Interval
        <4>3. (IF x > y - 1 THEN 0 ELSE (y - 1) - x + 1) = y - x
          BY <4>1
        <4>4. x..(y - 1) \subseteq 0..now
          BY <3>1
        <4> QED
          BY <4>2, <4>3, <4>4
      <3>3. D = x..(y - 1)
        BY <2>2, <3>1
      <3> HIDE DEF D
      <3> QED
        BY <2>2, <3>1, <3>2, <3>3
    <2> QED
      BY <2>1, <2>2
  <1>a. \A t \in D : t >= p.observed
    BY <1>3
  <1> HIDE DEF D
  <1>b. /\ PausedInstants(v) = {t \in 0..now : StoppedIn(f, v, t)}
        /\ PausedInstants(v)' = {t \in 0..now : StoppedIn(f, v, t)'}
    BY <1>2, PausedIs
  <1>7. PausedInstants(v)' = PausedInstants(v) \cup D
    BY <1>4, <1>6, <1>b
  <1>8. PausedInstants(v) \cap D = {}
    <2> SUFFICES ASSUME NEW t \in PausedInstants(v), t \in D PROVE FALSE
      OBVIOUS
    <2>1. t \in 0..now /\ StoppedIn(f, v, t)
      BY <1>b
    <2> QED
      BY <1>3, <1>5, <1>a, <2>1
  <1>9. PICK n \in Nat : n = Cardinality(PausedInstants(v))
    BY PausedFinite
  <1>10. Cardinality(PausedInstants(v)') = n + Cardinality(D)
    <2>1. IsFiniteSet(PausedInstants(v)) /\ Cardinality({}) = 0
      BY PausedFinite, FS_EmptySet
    <2>2. Cardinality(D) \in Int
      BY <1>3, <1>6
    <2>3. Cardinality(PausedInstants(v) \cup D) = n + Cardinality(D) - Cardinality({})
      BY <1>6, <1>8, <1>9, <2>1, FS_Union
    <2> QED
      BY <1>7, <1>9, <2>1, <2>2, <2>3
  <1>11. PICK r \in Int, d \in Int : r = submission[f].routedAt /\ d = DeadlineHours[submission[f].lineage]
    OBVIOUS
  <1>12. WindowEnd(p) = r + d + n
    BY <1>2, <1>9, <1>11 DEF WindowExactAt
  <1>13. submission'[f].routedAt = r /\ submission'[f].lineage = submission[f].lineage
    BY <1>11 DEF SameClock
  <1>14. PICK m \in Int : m = Cardinality(D)
    BY <1>3, <1>6
  <1>15. WindowEnd(c) = r + d + (n + m)
    BY <1>6, <1>12, <1>14
  <1>16. Cardinality(PausedInstants(v)') = n + m
    BY <1>10, <1>14
  <1> QED
    BY <1>2, <1>3, <1>11, <1>13, <1>15, <1>16 DEF WindowExactAt, WindowEnd, Running

\* The window of a return that continues none begins with its routing.
LEMMA WindowBegins ==
    ASSUME NEW v \in Nat, v > 0, ~Continues(v)', head'[v] = 1, NEW p, preparation'[v][1] = p,
           submission'[v].routedAt \in Int, DeadlineHours[submission'[v].lineage] \in Int,
           WindowEnd(p) = submission'[v].routedAt + DeadlineHours[submission'[v].lineage]
    PROVE  WindowExactAt(v)'
  <1>1. FirstOfRun(v)' = v
    <2>1. PICK f : f = FirstOfRun(v)'
      OBVIOUS
    <2>2. f \in 1..v /\ \A w \in (f + 1)..v : Continues(w)'
      BY <2>1, FirstIsNext DEF IsFirst
    <2> QED
      BY <2>1, <2>2
  <1>2. PausedInstants(v)' = {}
    BY <1>1, PausedIs DEF StoppedIn
  <1>3. Cardinality(PausedInstants(v)') = 0
    BY <1>2, FS_EmptySet
  <1>4. Head(v)' = p
    BY DEF Head
  <1> QED
    BY <1>1, <1>3, <1>4 DEF WindowExactAt, WindowEnd, Running

\* A return that continues a run keeps the window of the one before it.
LEMMA WindowInherited ==
    ASSUME NEW v \in Nat, v > 1, Continues(v)', head'[v] = 1, NEW p, preparation'[v][1] = p,
           WindowExactAt(v - 1)', head'[v - 1] # 0, WindowEnd(p) = WindowEnd(Head(v - 1))'
    PROVE  WindowExactAt(v)'
  <1>1. PICK f : f = FirstOfRun(v - 1)'
    OBVIOUS
  <1>2. f \in 1..(v - 1) /\ ~Continues(f)' /\ \A w \in (f + 1)..(v - 1) : Continues(w)'
    BY <1>1, FirstIsNext, v - 1 \in Nat, v - 1 > 0 DEF IsFirst
  <1>3. PICK g : g = FirstOfRun(v)'
    OBVIOUS
  <1>4. g \in 1..v /\ ~Continues(g)' /\ \A w \in (g + 1)..v : Continues(w)'
    BY <1>3, FirstIsNext DEF IsFirst
  <1>5. g = f
    BY <1>2, <1>4
  <1>6. \A t : StoppedIn(f, v, t)' <=> StoppedIn(f, v - 1, t)'
    <2>1. f..v = f..(v - 1) \cup {v} /\ 1..(head'[v] - 1) = {}
      BY <1>2
    <2> QED
      BY <2>1 DEF StoppedIn
  <1>7. PausedInstants(v)' = PausedInstants(v - 1)'
    BY <1>1, <1>3, <1>5, <1>6, PausedIs
  <1>8. Head(v)' = p
    BY DEF Head
  <1> QED
    BY <1>1, <1>3, <1>5, <1>7, <1>8 DEF WindowExactAt, WindowEnd, Running

-----------------------------------------------------------------------------
(* What a step leaves alone.                                               *)

LEMMA InvParts ==
    ASSUME RevisionInv
    PROVE  /\ TypeOK /\ CustodyOK /\ LatestOK /\ TxnOK
           /\ \A v \in Versions : v > latest => submission[v] = NoSubmission /\ head[v] = 0
           /\ \A v \in 1..latest : AttemptOK(v) /\ OwnerOK(v) /\ ObservedLast(v)
           /\ \A v \in Versions, k \in Heads : ChainOK(v, k)
           /\ \A v \in 1..latest : RevisionOnTime(v) /\ RightCause(v) /\ WindowExactAt(v)
  BY DEF RevisionInv, RevisionsOnTime, RejectedForTheRightCause, WindowExact

LEMMA InvWhole ==
    ASSUME TypeOK', CustodyOK', LatestOK', TxnOK',
           (\A v \in Versions : v > latest => submission[v] = NoSubmission /\ head[v] = 0)',
           (\A v \in 1..latest : AttemptOK(v) /\ OwnerOK(v) /\ ObservedLast(v))',
           (\A v \in Versions, k \in Heads : ChainOK(v, k))',
           (\A v \in 1..latest : RevisionOnTime(v) /\ RightCause(v) /\ WindowExactAt(v))'
    PROVE  RevisionInv'
  BY DEF RevisionInv, RevisionsOnTime, RejectedForTheRightCause, WindowExact

\* The links of every chain were observed in the past.
LEMMA ChainsPast ==
    ASSUME RevisionInv
    PROVE  \A v \in 1..latest : ObservedPast(v)
  <1> SUFFICES ASSUME NEW v \in 1..latest, NEW u \in 1..v
               PROVE  head[u] \in Nat /\ \A k \in 1..head[u] : preparation[u][k].observed \in 0..now
    BY DEF ObservedPast
  <1>1. u \in Versions /\ head[u] \in Nat /\ head[u] <= MaxPreparations
    BY InvParts, RowTypes, PastVersions
  <1>2. \A k \in 1..head[u] : k \in Heads /\ k <= head[u]
    BY <1>1, Bounds
  <1>3. \A k \in 1..head[u] : ChainOK(u, k)
    BY <1>1, <1>2, InvParts
  <1> QED
    BY <1>1, <1>2, <1>3 DEF ChainOK, PreparationOK

RowSame(u) == submission'[u] = submission[u] /\ head'[u] = head[u] /\ preparation'[u] = preparation[u]

\* The properties of a row whose past did not change.
LEMMA RowKept ==
    ASSUME RevisionInv, NEW v \in 1..latest, \A u \in 1..v : RowSame(u), now' \in Nat, now <= now'
    PROVE  /\ AttemptOK(v)' /\ ObservedLast(v)' /\ RevisionOnTime(v)' /\ RightCause(v)'
           /\ WindowExactAt(v)'
  <1>1. /\ TypeOK /\ AttemptOK(v) /\ ObservedLast(v) /\ RevisionOnTime(v) /\ RightCause(v)
        /\ WindowExactAt(v) /\ ObservedPast(v)
    BY InvParts, ChainsPast
  <1>2. v \in Versions /\ v \in Nat /\ v > 0 /\ now \in Nat /\ (v > 1 => v - 1 \in 1..v)
    BY <1>1, RowTypes, PastVersions, Bounds
  <1>3. RowSame(v) /\ (v > 1 => RowSame(v - 1))
    BY <1>2
  <1>4. Head(v)' = Head(v) /\ (v > 1 => Head(v - 1)' = Head(v - 1))
    BY <1>3 DEF Head, RowSame
  <1>5. \A a : Counted(a, v)' = Counted(a, v)
    BY <1>2, CountedSame DEF Same, RowSame
  <1>6. AttemptOK(v)'
    BY <1>1, <1>3, <1>5 DEF AttemptOK, RowSame
  <1>7. ObservedLast(v)'
    BY <1>1, <1>4, <1>3 DEF ObservedLast, RowSame
  <1>8. RevisionOnTime(v)'
    BY <1>1, <1>3, <1>4 DEF RevisionOnTime, RowSame, Running
  <1>9. RightCause(v)'
    <2>1. head[v] # 0 => Head(v).deadline \in Int
      <3>1. head[v] # 0 => head[v] \in Heads
        BY <1>1, <1>2, RowTypes, Bounds
      <3>2. head[v] # 0 => Head(v) \in PreparationRows
        BY <1>1, <1>2, <3>1, RowTypes DEF Head
      <3> QED
        BY <3>2, PreparationFields, TimeFacts
    <2> QED
      BY <1>1, <1>2, <1>3, <1>4, <1>5, <2>1 DEF RightCause, RowSame, Running
  <1>10. WindowExactAt(v)'
    BY <1>1, <1>2, WindowKept DEF RowSame, SameClock
  <1> QED
    BY <1>6, <1>7, <1>8, <1>9, <1>10

\* No assignment row is lost and a released one keeps its outcome.
OwnersKept ==
    /\ assignments' \in Nat /\ assignments <= assignments'
    /\ \A a \in 1..assignments : assignment[a].status \in Released =>
            assignment'[a].status = assignment[a].status

LEMMA OwnerKept ==
    ASSUME RevisionInv, NEW v \in 1..latest, OwnersKept, latest' = latest,
           \A u \in 1..latest : submission'[u].assignment = submission[u].assignment,
           submission'[v] = submission[v]
    PROVE  OwnerOK(v)'
  <1>1. OwnerOK(v) /\ TypeOK /\ assignments \in Nat /\ latest \in Nat /\ AttemptOK(v)
    BY InvParts, RowTypes
  <1>2. PICK a \in 1..assignments : a = submission[v].assignment
    BY <1>1 DEF OwnerOK
  <1>3. submission[v].attempt = "rejected" => assignment'[a].status = assignment[a].status
    BY <1>1, <1>2 DEF OwnerOK, OwnersKept, Released
  <1>4. a \in 1..assignments'
    BY <1>1 DEF OwnersKept
  <1>5. \A u \in (v + 1)..latest : u \in 1..latest
    BY <1>1
  <1> QED
    BY <1>1, <1>2, <1>3, <1>4, <1>5 DEF OwnerOK

\* A preparation stays in order as the clock goes on.
LEMMA PreparationKept ==
    ASSUME NEW p, PreparationOK(p), now \in Nat, now' \in Nat, now <= now'
    PROVE  PreparationOK(p)'
  BY DEF PreparationOK, Running

TimersKept ==
    \A v \in Versions, k \in Heads : timer'[v][k] = "pending" => timer[v][k] = "pending"

\* A step that changes no submission and no chain.
LEMMA QuietStep ==
    ASSUME RevisionInv, TypeOK', CustodyOK', LatestOK', TxnOK',
           UNCHANGED <<latest, submission, head, preparation>>,
           now <= now', OwnersKept, TimersKept
    PROVE  RevisionInv'
  <1>1. TypeOK /\ now \in Nat /\ now' \in Nat
    BY InvParts, RowTypes DEF TypeOK
  <1>2. \A u : RowSame(u)
    BY DEF RowSame
  <1>3. (\A v \in 1..latest : AttemptOK(v) /\ ObservedLast(v) /\ RevisionOnTime(v) /\ RightCause(v) /\ WindowExactAt(v))'
    BY <1>1, <1>2, RowKept
  <1>4. (\A v \in 1..latest : OwnerOK(v))'
    BY OwnerKept
  <1>5. (\A v \in Versions, k \in Heads : ChainOK(v, k))'
    <2> SUFFICES ASSUME NEW v \in Versions, NEW k \in Heads PROVE ChainOK(v, k)'
      OBVIOUS
    <2>1. ChainOK(v, k)
      BY InvParts
    <2>2. PreparationOK(preparation[v][k]) => PreparationOK(preparation[v][k])'
      BY <1>1, PreparationKept DEF PreparationOK, Running
    <2> QED
      BY <2>1, <2>2 DEF ChainOK, TimersKept, Running
  <1>6. (\A v \in Versions : v > latest => submission[v] = NoSubmission /\ head[v] = 0)'
    BY InvParts
  <1> QED
    BY <1>3, <1>4, <1>5, <1>6, InvWhole

\* What does not change in a submission after its commit.
SameOrigin(x, y) ==
    /\ x.assignment = y.assignment /\ x.lineage = y.lineage
    /\ x.supersedes = y.supersedes /\ x.submittedAt = y.submittedAt

\* A step that changes the latest submission and its chain only.
LEMMA LatestStep ==
    ASSUME RevisionInv, TypeOK', CustodyOK', LatestOK', TxnOK',
           NEW n \in Versions, n = latest, latest' = latest, now' = now, OwnersKept,
           \A u \in Versions : u # n => RowSame(u),
           SameOrigin(submission'[n], submission[n]),
           AttemptOK(n)', ObservedLast(n)', RightCause(n)', WindowExactAt(n)',
           submission'[n].attempt = "rejected" =>
                assignment'[submission[n].assignment].status =
                    (IF submission'[n].reason = "revision_limit_reached"
                     THEN "revision_exhausted" ELSE "revision_expired"),
           (\A v \in Versions, k \in Heads : ChainOK(v, k))'
    PROVE  RevisionInv'
  <1>1. /\ TypeOK /\ now \in Nat /\ latest \in Nat /\ n \in 1..latest /\ OwnerOK(n) /\ RevisionOnTime(n)
        /\ assignments \in Nat /\ \A v \in 1..latest : v \in Versions /\ v <= n
    <2>1. TypeOK
      BY InvParts
    <2>2. n \in 1..latest /\ \A v \in 1..latest : v \in Versions /\ v <= n
      BY <2>1, PastVersions, Bounds
    <2> QED
      BY <2>1, <2>2, InvParts, RowTypes
  <1>2. ASSUME NEW v \in 1..latest, v # n
        PROVE  AttemptOK(v)' /\ OwnerOK(v)' /\ ObservedLast(v)' /\ RevisionOnTime(v)' /\ RightCause(v)' /\ WindowExactAt(v)'
    <2>1. \A u \in 1..v : u \in Versions /\ u # n
      BY <1>1, <1>2
    <2>2. \A u \in 1..v : RowSame(u)
      BY <2>1
    <2>3. \A u \in 1..latest : submission'[u].assignment = submission[u].assignment
      BY <1>1 DEF SameOrigin, RowSame
    <2>4. submission'[v] = submission[v]
      BY <1>1, <1>2 DEF RowSame
    <2> QED
      BY <1>1, <2>2, <2>3, <2>4, RowKept, OwnerKept
  <1>3. OwnerOK(n)'
    <2>1. submission'[n].assignment = submission[n].assignment /\ submission[n].assignment \in 1..assignments
      BY <1>1 DEF OwnerOK, SameOrigin
    <2>2. submission'[n].assignment \in 1..assignments'
      BY <1>1, <2>1 DEF OwnersKept
    <2>3. (n + 1)..latest' = {}
      BY <1>1
    <2> QED
      BY <1>1, <2>1, <2>2, <2>3 DEF OwnerOK
  <1>4. RevisionOnTime(n)'
    <2>1. submission[n].supersedes => n > 1
      BY <1>1 DEF RevisionOnTime
    <2>2. n > 1 => n - 1 \in Versions /\ n - 1 # n
      BY <1>1, PastVersions, Bounds
    <2>3. n > 1 => RowSame(n - 1) /\ Head(n - 1)' = Head(n - 1)
      BY <2>2 DEF RowSame, Head
    <2> QED
      BY <1>1, <2>1, <2>3 DEF RevisionOnTime, RowSame, SameOrigin, Running
  <1>5. (\A v \in 1..latest : AttemptOK(v) /\ OwnerOK(v) /\ ObservedLast(v))'
    BY <1>2, <1>3
  <1>6. (\A v \in 1..latest : RevisionOnTime(v) /\ RightCause(v) /\ WindowExactAt(v))'
    BY <1>2, <1>4
  <1>7. (\A v \in Versions : v > latest => submission[v] = NoSubmission /\ head[v] = 0)'
    BY InvParts, <1>1 DEF RowSame
  <1> QED
    BY <1>5, <1>6, <1>7, InvWhole

LEMMA HeadRow ==
    ASSUME TypeOK, NEW v \in Versions, head[v] # 0
    PROVE  head[v] \in Heads /\ Head(v) \in PreparationRows
  <1>1. head[v] \in Heads
    BY RowTypes, Bounds
  <1> QED
    BY <1>1, RowTypes DEF Head

\* Where the task is: the last assignment and the latest submission.
LEMMA Holder ==
    ASSUME RevisionInv, NEW a \in Rows, assignment[a].status = "active"
    PROVE  /\ a = assignments /\ task.status \in Working \ {"accepted"}
           /\ task.assignedTo = assignment[a].contributor /\ assignment[a].lineage = task.lineage
  <1>1. CustodyOK /\ TypeOK /\ assignments \in Nat /\ a \in Nat
    BY InvParts, RowTypes, Bounds
  <1>2. "active" \notin Released /\ "completed" \notin Released
    BY DEF Released
  <1>3. a = assignments /\ assignments # 0
    BY <1>1, <1>2, Bounds DEF CustodyOK, Released
  <1> QED
    BY <1>1, <1>2, <1>3 DEF CustodyOK

-----------------------------------------------------------------------------
(* The steps that change no submission and no chain.                       *)

LEMMA CustodyFrame ==
    ASSUME RevisionInv, UNCHANGED custody
    PROVE  CustodyOK' /\ OwnersKept
  <1>1. CustodyOK /\ TypeOK /\ assignments \in Nat
    BY InvParts, RowTypes
  <1> QED
    BY <1>1 DEF custody, CustodyOK, OwnersKept

LEMMA LatestFrame ==
    ASSUME RevisionInv, UNCHANGED <<custody, latest, submission, head, preparation>>
    PROVE  LatestOK'
  <1>1. LatestOK /\ Counted(assignments, latest)' = Counted(assignments, latest) /\ Head(latest)' = Head(latest)
    BY InvParts DEF custody, Counted, CountedRows, Head
  <1> QED
    BY <1>1 DEF LatestOK, custody

LEMMA TxnFrame ==
    ASSUME RevisionInv, UNCHANGED <<custody, latest, head, preparation, txn>>, now' \in Nat, now <= now'
    PROVE  TxnOK'
  <1>1. TxnOK /\ TypeOK /\ now \in Nat
    BY InvParts, RowTypes
  <1>2. PICK c, p : c = txn.child /\ p = Head(latest)
    OBVIOUS
  <1>3. /\ txn' = txn /\ c = txn'.child /\ p = Head(latest)' /\ task' = task /\ assignments' = assignments
        /\ latest' = latest /\ head' = head
    BY <1>2 DEF custody, Head
  <1>4. PreparationOK(c) => PreparationOK(c)'
    BY <1>1, PreparationKept DEF PreparationOK, Running
  <1>5. txn.kind = "submit" => TxnOK'
    BY <1>1, <1>2, <1>3 DEF TxnOK
  <1>6. txn.kind = "repair" => TxnOK'
    <2> HAVE txn.kind = "repair"
    <2>1. PreparationOK(c)
      BY <1>1, <1>2 DEF TxnOK
    <2> QED
      BY <1>1, <1>2, <1>3, <1>4, <2>1 DEF TxnOK, WindowEnd, Running
  <1> QED
    BY <1>3, <1>5, <1>6 DEF TxnOK

\* Without an open transaction there is nothing to say about one.
LEMMA NoTxnOK == ASSUME txn' = NoTxn \/ (txn' = txn /\ Unlocked) PROVE TxnOK'
  <1>1. txn'.kind = "none"
    BY Defaults DEF Unlocked
  <1> QED
    BY <1>1 DEF TxnOK

LEMMA TickStep == ASSUME RevisionInv, Tick PROVE RevisionInv'
  <1>1. TypeOK /\ now \in Nat /\ now' \in Nat /\ now <= now'
    BY InvParts, RowTypes DEF Tick
  <1>2. TypeOK'
    BY <1>1 DEF Tick, TypeOK, custody, revisions
  <1>3. /\ UNCHANGED <<custody, latest, submission, head, preparation, txn>>
        /\ TimersKept
    BY DEF Tick, revisions, TimersKept
  <1> QED
    BY <1>1, <1>2, <1>3, CustodyFrame, LatestFrame, TxnFrame, QuietStep

LEMMA ActivateStep == ASSUME RevisionInv, NEW g \in Guides \cup {NoGuide}, ActivateGuide(g) PROVE RevisionInv'
  <1>1. TypeOK /\ now \in Nat /\ now' = now
    BY InvParts, RowTypes DEF ActivateGuide
  <1>2. TypeOK'
    BY <1>1 DEF ActivateGuide, TypeOK, custody, revisions
  <1>3. /\ UNCHANGED <<custody, latest, submission, head, preparation, txn>>
        /\ TimersKept
    BY DEF ActivateGuide, revisions, TimersKept
  <1> QED
    BY <1>1, <1>2, <1>3, CustodyFrame, LatestFrame, TxnFrame, QuietStep

LEMMA TimerStep ==
    ASSUME RevisionInv, NEW v \in Versions, NEW k \in Heads, NEW s \in {"acknowledged", "dead_letter"},
           timer' = [timer EXCEPT ![v][k] = s],
           UNCHANGED <<now, active, custody, latest, submission, head, preparation, txn>>
    PROVE  RevisionInv'
  <1>1. TypeOK /\ now \in Nat /\ now' = now
    BY InvParts, RowTypes
  <1>2. timer' \in [Versions -> [Heads -> TimerStates]] /\ TimersKept
    BY <1>1 DEF TypeOK, TimerStates, TimersKept
  <1>3. TypeOK'
    BY <1>1, <1>2 DEF TypeOK, custody
  <1> QED
    BY <1>1, <1>2, <1>3, CustodyFrame, LatestFrame, TxnFrame, QuietStep

LEMMA AcknowledgeStep ==
    ASSUME RevisionInv, NEW v \in Versions, NEW k \in Heads, AcknowledgeTimer(v, k)
    PROVE  RevisionInv'
  BY TimerStep DEF AcknowledgeTimer

LEMMA DeadLetterStep ==
    ASSUME RevisionInv, NEW v \in Versions, NEW k \in Heads, DeadLetterTimer(v, k)
    PROVE  RevisionInv'
  BY TimerStep DEF DeadLetterTimer

\* A step before the first claim, or between two.
LEMMA OfferStep ==
    ASSUME RevisionInv, Unlocked, task.status \notin Working, task'.status \notin Working,
           task' \in TaskRows, task'.assignedTo = task.assignedTo,
           task'.status # "draft" => task'.lineage \in Guides,
           UNCHANGED <<now, active, assignments, assignment, latest, submission, revisions, txn>>
    PROVE  RevisionInv'
  <1>1. TypeOK /\ now \in Nat /\ now' = now /\ CustodyOK /\ LatestOK /\ assignments \in Nat
    BY InvParts, RowTypes
  <1>2. TypeOK' /\ TimersKept
    BY <1>1 DEF TypeOK, revisions, TimersKept
  <1>3. CustodyOK' /\ OwnersKept
    BY <1>1 DEF CustodyOK, OwnersKept
  <1>4. LatestOK'
    BY <1>1 DEF LatestOK, Submitted, Working
  <1>5. TxnOK'
    BY NoTxnOK
  <1> QED
    BY <1>1, <1>2, <1>3, <1>4, <1>5, QuietStep DEF revisions

LEMMA ScreenStep == ASSUME RevisionInv, Screen PROVE RevisionInv'
  <1>1. /\ task \in TaskRows /\ active \in Guides
        /\ task' = [task EXCEPT !.status = "screening", !.lineage = active]
    BY InvParts, RowTypes DEF Screen
  <1>2. task' \in TaskRows /\ task'.status = "screening" /\ task'.lineage = active /\ task'.assignedTo = task.assignedTo
    BY <1>1 DEF TaskRows, TaskStatuses
  <1> QED
    BY <1>1, <1>2, OfferStep DEF Screen, Working

LEMMA ReleaseTaskStep == ASSUME RevisionInv, ReleaseTask PROVE RevisionInv'
  <1>1. task \in TaskRows /\ task' = [task EXCEPT !.status = "ready"] /\ task.lineage \in Guides
    BY InvParts, RowTypes DEF ReleaseTask, CustodyOK
  <1>2. task' \in TaskRows /\ task'.status = "ready" /\ task'.lineage = task.lineage /\ task'.assignedTo = task.assignedTo
    BY <1>1 DEF TaskRows, TaskStatuses
  <1> QED
    BY <1>1, <1>2, OfferStep DEF ReleaseTask, Working

LEMMA ClaimStep == ASSUME RevisionInv, NEW c \in Contributors, Claim(c) PROVE RevisionInv'
  <1>1. /\ TypeOK /\ now \in Nat /\ now' = now /\ CustodyOK /\ LatestOK /\ assignments \in Nat
        /\ task \in TaskRows /\ task.status = "ready" /\ task.lineage \in Guides /\ latest' = latest
    BY InvParts, RowTypes DEF Claim, CustodyOK
  <1>2. PICK n \in Rows : n = assignments + 1
    BY <1>1, Bounds DEF Claim
  <1>3. PICK r \in AssignmentRows :
            /\ r = [contributor |-> c, status |-> "active", lineage |-> task.lineage]
            /\ r.contributor = c /\ r.status = "active" /\ r.lineage = task.lineage
    <2>1. PICK g \in Guides : g = task.lineage
      BY <1>1
    <2>2. [contributor |-> c, status |-> "active", lineage |-> g] \in AssignmentRows
      BY DEF AssignmentRows, AssignmentStatuses
    <2> QED
      BY <2>1, <2>2
  <1>4. assignment' = [assignment EXCEPT ![n] = r] /\ assignments' = n
    BY <1>2, <1>3 DEF Claim
  <1>5. /\ assignment' \in [Rows -> AssignmentRows] /\ assignment'[n] = r
        /\ \A a \in Rows : a # n => assignment'[a] = assignment[a]
    BY <1>1, <1>4 DEF TypeOK
  <1>6. task' \in TaskRows /\ task'.status = "in_progress" /\ task'.lineage = task.lineage /\ task'.assignedTo = c
    BY <1>1 DEF Claim, TaskRows, TaskStatuses, Working
  <1>7. TypeOK' /\ TimersKept
    BY <1>1, <1>2, <1>4, <1>5, <1>6, Bounds DEF TypeOK, revisions, TimersKept, Claim, Rows
  <1>8. CustodyOK'
    <2>1. \A a \in Rows : a < n => assignment'[a].status \in Released
      <3> SUFFICES ASSUME NEW a \in Rows, a < n PROVE assignment'[a].status \in Released
        OBVIOUS
      <3>1. a \in Nat /\ (a < assignments \/ a = assignments)
        BY <1>1, <1>2, Bounds
      <3>2. assignment[a].status \in Released
        BY <1>1, <1>2, <3>1, Bounds DEF CustodyOK, Working
      <3> QED
        BY <1>5, <1>2, Bounds, <3>2
    <2>2. \A a \in Rows : a > n => assignment'[a].status = "absent"
      BY <1>1, <1>2, <1>5, Bounds DEF CustodyOK
    <2>3. n # 0
      BY Bounds
    <2> QED
      BY <1>1, <1>3, <1>4, <1>5, <1>6, <2>1, <2>2, <2>3 DEF CustodyOK, Working
  <1>9. OwnersKept
    <2>1. \A a \in 1..assignments : a \in Rows /\ a # n
      BY <1>1, <1>2, Bounds, RowTypes
    <2> QED
      BY <1>1, <1>2, <1>4, <1>5, <2>1, Bounds DEF OwnersKept
  <1>10. LatestOK'
    <2>1. \A v \in 1..latest : submission[v].assignment < n /\ submission'[v] = submission[v]
      <3> SUFFICES ASSUME NEW v \in 1..latest PROVE submission[v].assignment < n
        BY DEF Claim
      <3>1. submission[v].assignment \in 1..assignments
        BY InvParts DEF OwnerOK
      <3> QED
        BY <1>1, <1>2, <3>1
    <2>2. latest # 0 => submission'[latest].attempt = "rejected"
      BY <1>1 DEF LatestOK, Submitted, Claim
    <2> QED
      BY <1>1, <1>4, <1>6, <2>1, <2>2 DEF LatestOK, Submitted
  <1>11. TxnOK'
    BY NoTxnOK DEF Claim
  <1> QED
    BY <1>1, <1>7, <1>8, <1>9, <1>10, <1>11, QuietStep DEF Claim, revisions

\* Releasing the assignment that holds the task.
LEMMA ReleaseFacts ==
    ASSUME RevisionInv, NEW a \in Rows, Holds(a), NEW out \in Released, Release(a, out)
    PROVE  /\ a = assignments /\ assignments' = assignments
           /\ assignment' \in [Rows -> AssignmentRows] /\ task' \in TaskRows
           /\ assignment'[a].status = out
           /\ \A b \in Rows : b # a => assignment'[b] = assignment[b]
           /\ task'.status = "ready" /\ task'.assignedTo = NoOne /\ task'.lineage = task.lineage
           /\ CustodyOK' /\ OwnersKept
  <1>1. TypeOK /\ CustodyOK /\ assignments \in Nat /\ task \in TaskRows
    BY InvParts, RowTypes
  <1>2. a = assignments /\ task.status \in Working \ {"accepted"} /\ assignment[a].status = "active"
    BY Holder DEF Holds
  <1>3. PICK r : r = [assignment[a] EXCEPT !.status = out]
    OBVIOUS
  <1>4. r \in AssignmentRows /\ r.status = out
    BY <1>1, <1>3, RowTypes DEF AssignmentRows, AssignmentStatuses
  <1>5. assignment' = [assignment EXCEPT ![a] = r] /\ assignments' = assignments
    BY <1>3 DEF Release
  <1>6. /\ assignment' \in [Rows -> AssignmentRows] /\ assignment'[a] = r
        /\ \A b \in Rows : b # a => assignment'[b] = assignment[b]
    BY <1>1, <1>4, <1>5 DEF TypeOK
  <1>7. task' \in TaskRows /\ task'.status = "ready" /\ task'.assignedTo = NoOne /\ task'.lineage = task.lineage
    BY <1>1 DEF Release, TaskRows, TaskStatuses
  <1>8. CustodyOK'
    <2>1. task.lineage \in Guides
      BY <1>1, <1>2 DEF CustodyOK, Working
    <2>2. a \in Nat
      BY Bounds
    <2> QED
      BY <1>1, <1>2, <1>4, <1>5, <1>6, <1>7, <2>1, <2>2 DEF CustodyOK, Working
  <1>9. OwnersKept
    <2>1. \A b \in 1..assignments : b \in Rows
      BY <1>1, Bounds, RowTypes
    <2>2. assignment[a].status \notin Released
      BY <1>2 DEF Released
    <2> QED
      BY <1>1, <1>5, <1>6, <2>1, <2>2 DEF OwnersKept
  <1> QED
    BY <1>2, <1>4, <1>5, <1>6, <1>7, <1>8, <1>9

LEMMA InvalidateStep == ASSUME RevisionInv, NEW a \in Rows, InvalidateAssignment(a) PROVE RevisionInv'
  <1>1. TypeOK /\ now \in Nat /\ now' = now /\ latest = 0 /\ latest' = 0
    BY InvParts, RowTypes DEF InvalidateAssignment
  <1>2. /\ assignments' = assignments /\ assignment' \in [Rows -> AssignmentRows] /\ task' \in TaskRows
        /\ task'.status = "ready" /\ CustodyOK' /\ OwnersKept
    BY ReleaseFacts, "authority_revoked" \in Released DEF InvalidateAssignment, Released
  <1>3. TypeOK' /\ TimersKept
    BY <1>1, <1>2 DEF TypeOK, revisions, TimersKept, InvalidateAssignment
  <1>4. LatestOK'
    BY <1>1, <1>2 DEF LatestOK, Submitted
  <1>5. TxnOK'
    BY NoTxnOK DEF InvalidateAssignment
  <1> QED
    BY <1>1, <1>2, <1>3, <1>4, <1>5, QuietStep DEF InvalidateAssignment, revisions

LEMMA RollbackStep == ASSUME RevisionInv, Rollback PROVE RevisionInv'
  <1>1. TypeOK /\ now \in Nat /\ now' = now
    BY InvParts, RowTypes DEF Rollback
  <1>2. TypeOK' /\ TimersKept
    BY <1>1, Defaults DEF TypeOK, revisions, custody, TimersKept, Rollback
  <1>3. TxnOK'
    BY NoTxnOK DEF Rollback
  <1> QED
    BY <1>1, <1>2, <1>3, CustodyFrame, LatestFrame, QuietStep DEF Rollback, revisions

LEMMA SubmitStageStep == ASSUME RevisionInv, NEW a \in Rows, SubmitStage(a) PROVE RevisionInv'
  <1>1. /\ TypeOK /\ now \in Nat /\ now' = now /\ a = assignments /\ latest < MaxSubmissions
        /\ task.status \in {"in_progress", "needs_revision"}
        /\ task.status = "needs_revision" => Head(latest).blocked = "none"
    BY InvParts, RowTypes, Holder DEF SubmitStage, Holds, InitialAdmitted, RevisionAdmitted, CurrentSource
  <1>2. txn' = [NoTxn EXCEPT !.kind = "submit", !.assignment = a]
    BY DEF SubmitStage
  <1>3. txn' \in Txns /\ txn'.kind = "submit" /\ txn'.assignment = a
    BY <1>2, Defaults DEF NoTxn, Txns
  <1>4. TypeOK' /\ TimersKept /\ UNCHANGED <<custody, latest, submission, head, preparation>>
    BY <1>1, <1>3 DEF TypeOK, revisions, custody, TimersKept, SubmitStage
  <1>5. TxnOK'
    <2>1. Head(latest)' = Head(latest) /\ task' = task /\ latest' = latest /\ assignments' = assignments
      BY <1>4 DEF Head, custody
    <2> QED
      BY <1>1, <1>3, <2>1 DEF TxnOK
  <1> QED
    BY <1>1, <1>4, <1>5, CustodyFrame, LatestFrame, QuietStep

-----------------------------------------------------------------------------
(* The revision clock.                                                     *)

LEMMA BlockedFacts ==
    ASSUME NEW g \in Guides \cup {NoGuide}, NEW r \in Nat, ~Blocked(g, r)
    PROVE  g \in Guides /\ r <= MaxRounds[g]
  BY Policies DEF Blocked

Paused(q, left) == [q EXCEPT !.blocked = "context_blocked", !.deadline = NoTime, !.remaining = left]
Resumed(q, end) == [q EXCEPT !.blocked = "none", !.remaining = NoTime, !.deadline = end]
Rebased(p, target, t) == [p EXCEPT !.target = target, !.observed = t]

LEMMA RebasedFacts ==
    ASSUME NEW p \in PreparationRows, NEW g \in Guides \cup {NoGuide}, NEW t \in Nat
    PROVE  /\ Rebased(p, g, t) \in PreparationRows
           /\ Rebased(p, g, t).target = g /\ Rebased(p, g, t).observed = t
           /\ Rebased(p, g, t).nextRound = p.nextRound
  BY TimeFacts DEF PreparationRows, Rebased

LEMMA PausedFacts ==
    ASSUME NEW q \in PreparationRows, NEW left \in Nat
    PROVE  /\ Paused(q, left) \in PreparationRows
           /\ Paused(q, left).blocked = "context_blocked" /\ Paused(q, left).deadline = NoTime
           /\ Paused(q, left).remaining = left
           /\ Paused(q, left).nextRound = q.nextRound /\ Paused(q, left).target = q.target
           /\ Paused(q, left).observed = q.observed
  BY TimeFacts DEF PreparationRows, Paused

LEMMA ResumedFacts ==
    ASSUME NEW q \in PreparationRows, NEW end \in Nat
    PROVE  /\ Resumed(q, end) \in PreparationRows
           /\ Resumed(q, end).blocked = "none" /\ Resumed(q, end).remaining = NoTime
           /\ Resumed(q, end).deadline = end
           /\ Resumed(q, end).nextRound = q.nextRound /\ Resumed(q, end).target = q.target
           /\ Resumed(q, end).observed = q.observed
  BY TimeFacts DEF PreparationRows, Resumed

\* A child keeps the round and the running time of the head it replaces.
LEMMA ChildFacts ==
    ASSUME NEW v, NEW p \in PreparationRows, PreparationOK(p), NEW g \in Guides \cup {NoGuide}, now \in Nat,
           Running(p) => now < p.deadline, NEW c, c = Child(v, p, g)
    PROVE  /\ c \in PreparationRows /\ PreparationOK(c) /\ c.nextRound = p.nextRound
           /\ c.observed = now /\ p.observed \in 0..now
           /\ WindowEnd(p) \in Int
           /\ WindowEnd(c) = WindowEnd(p) + (IF Running(p) THEN 0 ELSE c.observed - p.observed)
  <1>1. PICK t \in Nat : t = now
    OBVIOUS
  <1>2. PICK q \in PreparationRows : q = Rebased(p, g, t) /\ q.target = g /\ q.observed = t /\ q.nextRound = p.nextRound
    BY RebasedFacts
  <1>3. PICK o \in Nat : o = p.observed /\ o <= t
    BY <1>1 DEF PreparationOK
  <1>4. p.nextRound \in Nat
    BY PreparationFields
  <1>5. CASE Blocked(g, p.nextRound)
    <2>1. PICK left \in Nat : left = IF Running(p) THEN p.deadline - t ELSE p.remaining
      BY <1>1 DEF PreparationOK
    <2>2. c = Paused(q, left)
      BY <1>1, <1>2, <1>5, <2>1 DEF Child, Paused, Rebased
    <2>3. /\ c \in PreparationRows /\ c.blocked = "context_blocked" /\ c.deadline = NoTime
          /\ c.remaining = left /\ c.nextRound = p.nextRound /\ c.observed = t
      BY <1>2, <2>2, PausedFacts
    <2>4. ~Running(c) /\ PreparationOK(c)
      BY <1>1, <2>3 DEF Running, PreparationOK
    <2>5. WindowEnd(c) = t + left
      BY <2>3, <2>4 DEF WindowEnd
    <2>6. CASE Running(p)
      BY <1>1, <1>3, <2>1, <2>3, <2>4, <2>5, <2>6 DEF WindowEnd, PreparationOK
    <2>7. CASE ~Running(p)
      BY <1>1, <1>3, <2>1, <2>3, <2>4, <2>5, <2>7 DEF WindowEnd, PreparationOK
    <2> QED
      BY <2>6, <2>7
  <1>6. CASE ~Blocked(g, p.nextRound)
    <2>1. PICK end \in Nat : end = IF Running(p) THEN p.deadline ELSE t + p.remaining
      BY <1>1 DEF PreparationOK
    <2>2. c = Resumed(q, end)
      BY <1>1, <1>2, <1>6, <2>1 DEF Child, Resumed, Rebased
    <2>3. /\ c \in PreparationRows /\ c.blocked = "none" /\ c.deadline = end /\ c.target = g
          /\ c.nextRound = p.nextRound /\ c.observed = t
      BY <1>2, <2>2, ResumedFacts
    <2>4. Running(c) /\ PreparationOK(c)
      BY <1>1, <1>4, <1>6, <2>3, BlockedFacts, TimeFacts DEF Running, PreparationOK
    <2>5. WindowEnd(c) = end
      BY <2>3, <2>4 DEF WindowEnd
    <2>6. CASE Running(p)
      BY <1>1, <1>3, <2>1, <2>3, <2>4, <2>5, <2>6 DEF WindowEnd, PreparationOK
    <2>7. CASE ~Running(p)
      BY <1>1, <1>3, <2>1, <2>3, <2>4, <2>5, <2>7 DEF WindowEnd, PreparationOK
    <2> QED
      BY <2>6, <2>7
  <1> QED
    BY <1>5, <1>6

\* The head of the latest submission of a returned task.
LEMMA ReturnedHead ==
    ASSUME RevisionInv, task.status = "needs_revision"
    PROVE  /\ latest \in Versions /\ latest \in 1..latest /\ latest \in Nat
           /\ head[latest] \in Heads /\ head[latest] \in Nat /\ head[latest] > 0
           /\ submission[latest].attempt = "needs_revision"
           /\ submission[latest].assignment = assignments /\ assignments \in Rows
           /\ Head(latest) \in PreparationRows /\ PreparationOK(Head(latest))
  <1>1. /\ TypeOK /\ LatestOK /\ latest # 0 /\ submission[latest].attempt = "needs_revision"
        /\ submission[latest].assignment = assignments
    BY InvParts DEF LatestOK, Submitted
  <1>2. latest \in Versions /\ latest \in 1..latest /\ latest \in Nat
    BY <1>1, PastVersions, RowTypes
  <1>3. AttemptOK(latest) /\ OwnerOK(latest)
    BY <1>2, InvParts
  <1>4. head[latest] # 0 /\ assignments # 0
    BY <1>1, <1>3, RowTypes DEF AttemptOK, OwnerOK
  <1>5. head[latest] \in Heads /\ Head(latest) \in PreparationRows
    BY <1>1, <1>2, <1>4, HeadRow
  <1>6. ChainOK(latest, head[latest])
    BY <1>2, <1>5, InvParts
  <1>7. head[latest] \in Nat /\ head[latest] > 0
    <2>1. \A k \in Heads : k \in Nat /\ k > 0
      BY Bounds
    <2> QED
      BY <1>5, <2>1
  <1>8. PreparationOK(Head(latest))
    BY <1>6, <1>7 DEF ChainOK, Head
  <1>9. assignments \in Rows
    BY <1>1, <1>4, PastVersions
  <1> QED
    BY <1>1, <1>2, <1>5, <1>7, <1>8, <1>9

LEMMA RepairStageStep == ASSUME RevisionInv, RepairStage PROVE RevisionInv'
  <1>1. /\ TypeOK /\ now \in Nat /\ now' = now /\ head[latest] < MaxPreparations /\ active \in Guides \cup {NoGuide}
        /\ task.status = "needs_revision"
    BY InvParts, RowTypes DEF RepairStage, CurrentSource
  <1>2. PICK p \in PreparationRows : p = Head(latest) /\ PreparationOK(p)
    BY <1>1, ReturnedHead
  <1>3. PICK c : c = Child(latest, p, active)
    OBVIOUS
  <1>4. (Running(p) => now < p.deadline) /\ txn' = [NoTxn EXCEPT !.kind = "repair", !.child = c]
    BY <1>2, <1>3 DEF RepairStage
  <1>5. /\ c \in PreparationRows /\ PreparationOK(c) /\ c.nextRound = p.nextRound
        /\ c.observed = now /\ p.observed \in 0..now
        /\ WindowEnd(c) = WindowEnd(p) + (IF Running(p) THEN 0 ELSE c.observed - p.observed)
    BY <1>1, <1>2, <1>3, <1>4, ChildFacts
  <1>6. txn' \in Txns /\ txn'.kind = "repair" /\ txn'.child = c
    BY <1>4, <1>5, Defaults DEF NoTxn, Txns
  <1>7. TypeOK' /\ TimersKept /\ UNCHANGED <<custody, latest, submission, head, preparation>>
    BY <1>1, <1>6 DEF TypeOK, revisions, custody, TimersKept, RepairStage
  <1>8. TxnOK'
    <2>1. p = Head(latest)' /\ task' = task /\ latest' = latest /\ head' = head
      BY <1>2, <1>7 DEF Head, custody
    <2>2. PreparationOK(c)' /\ p.observed <= c.observed
      BY <1>1, <1>5 DEF PreparationOK, Running
    <2>3. /\ WindowEnd(c)' = WindowEnd(c) /\ WindowEnd(p)' = WindowEnd(p)
      BY DEF WindowEnd, Running
    <2> QED
      BY <1>1, <1>5, <1>6, <2>1, <2>2, <2>3 DEF TxnOK, WindowEnd, Running
  <1> QED
    BY <1>1, <1>7, <1>8, CustodyFrame, LatestFrame, QuietStep

-----------------------------------------------------------------------------
(* A submission is committed and evaluated.                                *)

\* The task moves on while its contributor keeps it.
LEMMA StatusMoves ==
    ASSUME RevisionInv, task.status \in Working \ {"accepted"}, NEW st \in Working \ {"accepted"},
           task' = [task EXCEPT !.status = st], UNCHANGED <<assignments, assignment>>
    PROVE  /\ task' \in TaskRows /\ task'.status = st /\ task'.lineage = task.lineage
           /\ CustodyOK' /\ OwnersKept
  <1>1. TypeOK /\ CustodyOK /\ task \in TaskRows /\ assignments \in Nat
    BY InvParts, RowTypes
  <1>2. task' \in TaskRows /\ task'.status = st /\ task'.lineage = task.lineage /\ task'.assignedTo = task.assignedTo
    BY <1>1 DEF TaskRows, TaskStatuses
  <1>3. st # "draft" /\ task.status # "draft" /\ st # "accepted"
    BY DEF Working
  <1> QED
    BY <1>1, <1>2, <1>3 DEF CustodyOK, OwnersKept

LEMMA SubmitCommitStep == ASSUME RevisionInv, SubmitCommit PROVE RevisionInv'
  <1>1. /\ TypeOK /\ now \in Nat /\ now' = now /\ LatestOK /\ CustodyOK /\ task \in TaskRows /\ latest \in Nat
        /\ assignments \in Nat /\ task.status \in {"in_progress", "needs_revision"} /\ latest < MaxSubmissions
        /\ txn.assignment = assignments /\ (task.status = "needs_revision" => Head(latest).blocked = "none")
    BY InvParts, RowTypes DEF SubmitCommit, TxnOK
  <1>2. PICK n \in Versions : n = latest + 1 /\ n > 0 /\ n \in Nat /\ n # latest
    BY <1>1, Bounds
  <1>3. PICK A \in Rows : A = assignments /\ assignment[A].status = "active" /\ task.lineage \in Guides
    BY <1>1, PastVersions DEF CustodyOK, Working
  <1>4. PICK L \in Guides : L = task.lineage
    BY <1>3
  <1>5. PICK again \in BOOLEAN : again = (task.status = "needs_revision")
    OBVIOUS
  <1>6. PICK s : s = [NoSubmission EXCEPT !.assignment = A, !.lineage = L, !.supersedes = again,
                        !.attempt = "evaluation_pending", !.submittedAt = now]
    OBVIOUS
  <1>7. /\ s \in SubmissionRows /\ s.assignment = A /\ s.lineage = L /\ s.supersedes = again
        /\ s.attempt = "evaluation_pending" /\ s.submittedAt = now /\ s.reason = "none"
    <2>1. \A t \in Nat : [NoSubmission EXCEPT !.assignment = A, !.lineage = L, !.supersedes = again,
                        !.attempt = "evaluation_pending", !.submittedAt = t] \in SubmissionRows
      BY Defaults, TimeFacts DEF SubmissionRows, NoSubmission, AttemptStatuses
    <2> QED
      BY <1>1, <1>6, <2>1 DEF NoSubmission
  <1>8. submission' = [submission EXCEPT ![n] = s] /\ latest' = n
    BY <1>1, <1>2, <1>3, <1>4, <1>5, <1>6 DEF SubmitCommit
  <1>9. /\ submission' \in [Versions -> SubmissionRows] /\ submission'[n] = s
        /\ \A u \in Versions : u # n => submission'[u] = submission[u]
    BY <1>1, <1>7, <1>8 DEF TypeOK
  <1>10. /\ task' \in TaskRows /\ task'.status = "evaluation_pending" /\ task'.lineage = L
         /\ CustodyOK' /\ OwnersKept
    BY <1>1, <1>4, StatusMoves DEF SubmitCommit, Working
  <1>11. TypeOK'
    BY <1>1, <1>2, <1>8, <1>9, <1>10, Defaults DEF TypeOK, SubmitCommit, revisions, Versions
  <1>12. TxnOK'
    BY NoTxnOK DEF SubmitCommit
  <1>13. \A v \in 1..latest : v \in Versions /\ v # n /\ v < n
    BY <1>1, <1>2, PastVersions
  <1>14. \A u \in Versions : u # n => RowSame(u)
    BY <1>9 DEF RowSame, SubmitCommit, revisions
  <1>15. ASSUME NEW v \in 1..latest
         PROVE  AttemptOK(v)' /\ ObservedLast(v)' /\ RevisionOnTime(v)' /\ RightCause(v)' /\ WindowExactAt(v)'
    <2>1. \A u \in 1..v : u \in 1..latest
      BY <1>1
    <2> QED
      BY <1>1, <1>13, <1>14, <2>1, RowKept
  <1>16. head'[n] = 0 /\ head' = head /\ preparation' = preparation
    BY <1>1, <1>2, InvParts DEF SubmitCommit, revisions
  <1>17. task.status = "needs_revision" =>
            /\ latest \in 1..latest /\ latest \in Versions /\ head[latest] # 0
            /\ submission[latest].attempt = "needs_revision" /\ submission[latest].assignment = A
            /\ Head(latest) \in PreparationRows /\ PreparationOK(Head(latest))
    BY <1>3, ReturnedHead
  <1>a. n - 1 = latest /\ (task.status = "needs_revision" => n > 1)
    BY <1>1, <1>2, <1>17
  <1>18. ASSUME NEW v \in 1..latest PROVE OwnerOK(v)'
    <2>1. OwnerOK(v) /\ v \in Versions /\ submission'[v] = submission[v]
      BY <1>9, <1>13, InvParts
    <2>2. PICK a \in 1..assignments : a = submission[v].assignment
      BY <2>1 DEF OwnerOK
    <2>3. submission[v].attempt = "rejected" =>
            a # A /\ assignment'[a].status = assignment[a].status
      BY <1>3, <2>1, <2>2 DEF OwnerOK, SubmitCommit
    <2>4. submission[v].attempt = "rejected" => \A u \in (v + 1)..n : submission'[u].assignment # a
      <3> SUFFICES ASSUME submission[v].attempt = "rejected", NEW u \in (v + 1)..n, u # n
                   PROVE  submission'[u].assignment # a
        BY <1>7, <1>9, <2>3
      <3>1. u \in (v + 1)..latest /\ u \in 1..latest
        BY <1>1, <1>2
      <3>2. u \in Versions
        BY <1>13, <3>1
      <3> QED
        BY <1>9, <2>1, <2>2, <3>1, <3>2 DEF OwnerOK
    <2>5. submission[v].attempt \in {"needs_revision", "rejected"}
      <3>1. v = latest => submission[v].attempt \in {"needs_revision", "rejected"}
        BY <1>1 DEF LatestOK, Submitted
      <3>2. v < latest => submission[v].attempt \in {"needs_revision", "rejected"}
        BY <2>1 DEF OwnerOK
      <3> QED
        BY <1>1, <3>1, <3>2
    <2> QED
      BY <1>8, <1>10, <2>1, <2>2, <2>3, <2>4, <2>5 DEF OwnerOK, SubmitCommit, OwnersKept
  <1>19. AttemptOK(n)' /\ OwnerOK(n)' /\ ObservedLast(n)' /\ RightCause(n)' /\ WindowExactAt(n)'
    <2>1. AttemptOK(n)'
      <3>1. again => n > 1 /\ n - 1 = latest /\ submission'[n - 1].attempt = "needs_revision"
        BY <1>2, <1>5, <1>9, <1>17, <1>a
      <3> QED
        BY <1>7, <1>9, <1>16, <3>1 DEF AttemptOK
    <2>2. OwnerOK(n)'
      <3>1. A \in 1..assignments' /\ (n + 1)..latest' = {}
        BY <1>1, <1>2, <1>3, <1>8, Bounds DEF SubmitCommit
      <3> QED
        BY <1>1, <1>2, <1>7, <1>8, <1>9, <3>1 DEF OwnerOK
    <2> QED
      BY <1>7, <1>9, <1>16, <2>1, <2>2 DEF ObservedLast, RightCause, WindowExactAt
  <1>20. RevisionOnTime(n)'
    <2> SUFFICES ASSUME again PROVE RevisionOnTime(n)'
      BY <1>7, <1>9 DEF RevisionOnTime
    <2>1. n > 1 /\ n - 1 = latest /\ task.status = "needs_revision"
      BY <1>5, <1>a
    <2>2. Head(n - 1)' = Head(latest) /\ submission'[n - 1] = submission[latest] /\ head'[n - 1] = head[latest]
      BY <1>9, <1>16, <1>17, <2>1, <1>2 DEF Head
    <2>3. /\ Head(latest).blocked = "none" /\ Running(Head(latest)) /\ now < Head(latest).deadline
          /\ Head(latest).target = L
      BY <1>1, <1>4, <1>17, <2>1 DEF SubmitCommit, CommitOnTime, PreparationOK, LatestOK
    <2> QED
      BY <1>7, <1>9, <1>17, <2>1, <2>2, <2>3 DEF RevisionOnTime, Running
  <1>21. LatestOK'
    <2>1. Counted(A, n)' = Counted(A, latest) + 1
      <3>1. \A u \in 1..latest : Same(submission'[u], submission[u])
        BY <1>9, <1>13 DEF Same
      <3> QED
        BY <1>1, <1>2, <1>7, <1>9, <3>1, CountedAdd
    <2>2. Counted(A, latest) \in Nat /\ MaxRounds[L] \in Nat
      BY <1>1, CountedNat, Policies
    <2>3. Counted(A, latest) <= MaxRounds[L]
      <3>1. CASE task.status = "in_progress"
        <4>1. \A u \in 1..latest : submission[u].assignment # A
          <5> SUFFICES ASSUME NEW u \in 1..latest PROVE submission[u].assignment # A
            OBVIOUS
          <5>1. submission[u].assignment \in 1..assignments /\ submission[u].assignment < assignments
            BY <1>1, <3>1, InvParts DEF LatestOK, OwnerOK
          <5> QED
            BY <1>1, <1>3, <5>1
        <4> QED
          BY <1>1, <2>2, <4>1, CountedNone
      <3>2. CASE task.status = "needs_revision"
        <4>1. PICK p : p = Head(latest)
          OBVIOUS
        <4>2. p.blocked = "none" /\ p.target = L /\ p.nextRound = Counted(A, latest)
          BY <1>1, <1>3, <1>4, <3>2, <4>1 DEF LatestOK
        <4>3. p.nextRound <= MaxRounds[p.target]
          BY <1>17, <3>2, <4>1, <4>2 DEF PreparationOK
        <4> QED
          BY <4>2, <4>3
      <3> QED
        BY <1>1, <3>1, <3>2
    <2>4. assignments' = A /\ submission'[n].attempt = "evaluation_pending" /\ submission'[n].assignment = A
      BY <1>3, <1>7, <1>9 DEF SubmitCommit
    <2>5. Counted(assignments, latest)' = Counted(A, n)'
      BY <1>8, <2>4
    <2>6. Counted(assignments, latest)' <= MaxRounds[L] + 1
      BY <2>1, <2>2, <2>3, <2>5
    <2> QED
      BY <1>2, <1>7, <1>8, <1>9, <1>10, <2>4, <2>6 DEF LatestOK, Submitted
  <1>22. \A v \in 1..n : v = n \/ v \in 1..latest
    BY <1>1, <1>2
  <1>23. (\A v \in 1..latest : AttemptOK(v) /\ OwnerOK(v) /\ ObservedLast(v))'
    BY <1>8, <1>15, <1>18, <1>19, <1>22
  <1>24. (\A v \in 1..latest : RevisionOnTime(v) /\ RightCause(v) /\ WindowExactAt(v))'
    BY <1>8, <1>15, <1>19, <1>20, <1>22
  <1>25. (\A v \in Versions, k \in Heads : ChainOK(v, k))'
    BY <1>1, <1>16, InvParts DEF ChainOK, PreparationOK, Running, SubmitCommit, revisions
  <1>26. (\A v \in Versions : v > latest => submission[v] = NoSubmission /\ head[v] = 0)'
    BY <1>1, <1>2, <1>8, <1>9, <1>16, InvParts, Bounds
  <1> QED
    BY <1>10, <1>11, <1>12, <1>21, <1>23, <1>24, <1>25, <1>26, InvWhole

\* The submission under evaluation has no decision and no chain yet.
LEMMA UnderEvaluation ==
    ASSUME RevisionInv, task.status = "evaluation_pending"
    PROVE  /\ latest \in Versions /\ latest \in 1..latest /\ latest \in Nat
           /\ submission[latest].attempt = "evaluation_pending" /\ submission[latest].reason = "none"
           /\ submission[latest].assignment = assignments /\ assignments \in Rows
           /\ submission[latest].lineage = task.lineage /\ task.lineage \in Guides
           /\ assignment[assignments].lineage = task.lineage
           /\ assignment[assignments].status = "active"
           /\ task.assignedTo = assignment[assignments].contributor
           /\ head[latest] = 0 /\ submission[latest] \in SubmissionRows
           /\ Counted(assignments, latest) <= MaxRounds[task.lineage] + 1
           /\ latest \in CountedRows(assignments, latest)
  <1>1. /\ TypeOK /\ LatestOK /\ CustodyOK /\ latest # 0 /\ submission[latest].attempt = "evaluation_pending"
        /\ submission[latest].assignment = assignments
    BY InvParts DEF LatestOK, Submitted
  <1>2. latest \in Versions /\ latest \in 1..latest /\ latest \in Nat
    BY <1>1, PastVersions, RowTypes
  <1>3. AttemptOK(latest)
    BY <1>2, InvParts
  <1>4. assignments \in Rows /\ assignments # 0
    BY <1>1, PastVersions DEF CustodyOK, Working
  <1>5. head[latest] = 0 /\ submission[latest].reason = "none"
    BY <1>1, <1>3 DEF AttemptOK
  <1>6. latest \in CountedRows(assignments, latest)
    BY <1>1, <1>2, <1>5 DEF CountedRows
  <1> QED
    BY <1>1, <1>2, <1>4, <1>5, <1>6, RowTypes DEF LatestOK, CustodyOK, Working

\* A step on the submission under evaluation that opens no window: it stays
\* undecided, is sent to review, is accepted, or is rejected at the cap.
LEMMA VerdictStep ==
    ASSUME RevisionInv, task.status = "evaluation_pending", TypeOK', CustodyOK', LatestOK', TxnOK', OwnersKept,
           UNCHANGED <<now, latest, revisions>>,
           NEW n, n = latest, NEW s, submission' = [submission EXCEPT ![n] = s],
           SameOrigin(s, submission[n]),
           \/ s.attempt \in {"evaluation_pending", "review_pending", "accepted"} /\ s.reason = "none"
           \/ /\ s.attempt = "rejected" /\ s.reason = "revision_limit_reached" /\ s.result = "failed"
              /\ Counted(s.assignment, n) - 1 = MaxRounds[s.lineage]
              /\ assignment'[s.assignment].status = "revision_exhausted"
    PROVE  RevisionInv'
  <1>1. /\ TypeOK /\ n \in Versions /\ n \in Nat /\ n \in 1..latest /\ submission[n].reason = "none" /\ head[n] = 0
        /\ AttemptOK(n)
    BY UnderEvaluation, InvParts
  <1>2. submission'[n] = s /\ \A u \in Versions : u # n => RowSame(u)
    BY <1>1 DEF TypeOK, RowSame, revisions
  <1>3. head'[n] = 0 /\ head' = head /\ preparation' = preparation /\ timer' = timer
    BY <1>1 DEF revisions
  <1>4. Counted(s.assignment, n)' = Counted(s.assignment, n)
    <2>1. \A u \in 1..n : u \in Versions
      BY <1>1, PastVersions
    <2>2. \A u \in 1..n : Same(submission'[u], submission[u])
      BY <1>1, <1>2, <2>1 DEF Same, RowSame, SameOrigin
    <2>3. \A a : Counted(a, n)' = Counted(a, n)
      BY <1>1, <2>2, CountedSame
    <2> QED
      BY <2>3
  <1>5. s.supersedes => n > 1 /\ submission'[n - 1].attempt = "needs_revision"
    <2> HAVE s.supersedes
    <2>1. n > 1 /\ submission[n - 1].attempt = "needs_revision"
      BY <1>1 DEF AttemptOK, SameOrigin
    <2>2. n - 1 \in Versions /\ n - 1 # n
      BY <1>1, <2>1, PastVersions
    <2> QED
      BY <1>2, <2>1, <2>2 DEF RowSame
  <1>6. AttemptOK(n)'
    <2>1. s.lineage \in Guides
      BY <1>1 DEF AttemptOK, SameOrigin
    <2> QED
      BY <1>2, <1>3, <1>5, <2>1 DEF AttemptOK
  <1>7. RightCause(n)'
    BY <1>2, <1>3, <1>4 DEF RightCause
  <1>8. ObservedLast(n)' /\ WindowExactAt(n)'
    BY <1>3 DEF ObservedLast, WindowExactAt
  <1>9. (\A v \in Versions, k \in Heads : ChainOK(v, k))'
    BY <1>3, InvParts DEF ChainOK, PreparationOK, Running
  <1>10. SameOrigin(submission'[n], submission[n])
    BY <1>2
  <1>11. submission'[n].attempt = "rejected" =>
                assignment'[submission[n].assignment].status =
                    (IF submission'[n].reason = "revision_limit_reached"
                     THEN "revision_exhausted" ELSE "revision_expired")
    BY <1>2 DEF SameOrigin
  <1> QED
    BY <1>1, <1>2, <1>6, <1>7, <1>8, <1>9, <1>10, <1>11, LatestStep

LEMMA EvaluateStep == ASSUME RevisionInv, NEW r \in Results \ {"none"}, Evaluate(r) PROVE RevisionInv'
  <1>1. task.status = "evaluation_pending" /\ TypeOK /\ LatestOK
    BY InvParts DEF Evaluate
  <1>2. PICK n \in Versions, x \in SubmissionRows : n = latest /\ x = submission[n]
            /\ n \in Nat /\ x.attempt = "evaluation_pending" /\ x.reason = "none"
    BY <1>1, UnderEvaluation
  <1>3. PICK s : s = [x EXCEPT !.result = r]
    OBVIOUS
  <1>4. s \in SubmissionRows /\ SameOrigin(s, x) /\ s.attempt = "evaluation_pending" /\ s.reason = "none"
    BY <1>2, <1>3 DEF SubmissionRows, SameOrigin
  <1>5. submission' = [submission EXCEPT ![n] = s]
    BY <1>2, <1>3 DEF Evaluate
  <1>6. /\ submission' \in [Versions -> SubmissionRows] /\ submission'[n] = s
        /\ \A u \in Versions : u # n => submission'[u] = submission[u]
    BY <1>1, <1>4, <1>5 DEF TypeOK
  <1>7. TypeOK' /\ TxnOK'
    BY <1>1, <1>6, NoTxnOK DEF TypeOK, Evaluate, custody, revisions
  <1>8. CustodyOK' /\ OwnersKept
    BY CustodyFrame DEF Evaluate
  <1>9. LatestOK'
    <2>1. \A u \in 1..n : u \in Versions
      BY <1>1, <1>2, PastVersions
    <2>2. \A u \in 1..n : Same(submission'[u], submission[u])
      BY <1>2, <1>4, <1>6, <2>1 DEF Same, SameOrigin
    <2>3. \A a : Counted(a, n)' = Counted(a, n)
      BY <1>2, <2>2, CountedSame
    <2>4. PICK A : A = assignments
      OBVIOUS
    <2>5. assignments' = A /\ latest' = n /\ task' = task
      BY <1>2, <2>4 DEF Evaluate, custody
    <2>6. Counted(assignments, latest)' = Counted(A, n)
      BY <2>3, <2>5
    <2> QED
      BY <1>1, <1>2, <1>4, <1>6, <2>4, <2>5, <2>6 DEF LatestOK, SameOrigin, Submitted
  <1> QED
    BY <1>1, <1>2, <1>4, <1>5, <1>7, <1>8, <1>9, VerdictStep DEF Evaluate

Routed(s, outcome, reason, t) == [s EXCEPT !.attempt = outcome, !.reason = reason, !.routedAt = t]

LEMMA RoutedFacts ==
    ASSUME NEW s \in SubmissionRows, NEW outcome \in AttemptStatuses, NEW reason \in Reasons, NEW t \in Nat
    PROVE  LET r == Routed(s, outcome, reason, t) IN
           /\ r \in SubmissionRows /\ SameOrigin(r, s) /\ r.attempt = outcome /\ r.reason = reason
           /\ r.result = s.result /\ r.routedAt = t
  BY TimeFacts DEF SubmissionRows, Routed, SameOrigin

\* What a routing decision writes.
LEMMA DecidedFacts ==
    ASSUME RevisionInv, NEW v, Routable(v), NEW outcome \in AttemptStatuses, NEW reason \in Reasons,
           Decided(v, outcome, reason)
    PROVE  /\ v = latest /\ v \in Versions /\ v \in Nat /\ task.status = "evaluation_pending"
           /\ submission' \in [Versions -> SubmissionRows]
           /\ \E s \in SubmissionRows :
                /\ submission' = [submission EXCEPT ![v] = s] /\ submission'[v] = s
                /\ SameOrigin(s, submission[v]) /\ s.attempt = outcome /\ s.reason = reason
                /\ s.result = submission[v].result /\ s.routedAt = now
  <1>1. v = latest /\ task.status = "evaluation_pending" /\ TypeOK /\ now \in Nat
    BY InvParts, RowTypes DEF Routable
  <1>2. v \in Versions /\ v \in Nat /\ submission[v] \in SubmissionRows
    BY <1>1, UnderEvaluation
  <1>3. PICK s : s = Routed(submission[v], outcome, reason, now)
    OBVIOUS
  <1>4. /\ s \in SubmissionRows /\ SameOrigin(s, submission[v]) /\ s.attempt = outcome /\ s.reason = reason
        /\ s.result = submission[v].result /\ s.routedAt = now
    BY <1>1, <1>2, <1>3, RoutedFacts
  <1>5. submission' = [submission EXCEPT ![v] = s]
    BY <1>3 DEF Decided, Routed
  <1>6. submission' \in [Versions -> SubmissionRows] /\ submission'[v] = s
    BY <1>1, <1>2, <1>4, <1>5 DEF TypeOK
  <1> QED
    BY <1>1, <1>2, <1>4, <1>5, <1>6

LEMMA ReviewStep == ASSUME RevisionInv, NEW v \in Versions, RouteReview(v) PROVE RevisionInv'
  <1>1. TypeOK /\ Routable(v) /\ Decided(v, "review_pending", "none")
    BY InvParts DEF RouteReview
  <1>2. /\ v = latest /\ v \in Versions /\ task.status = "evaluation_pending"
        /\ submission' \in [Versions -> SubmissionRows]
    BY <1>1, DecidedFacts DEF AttemptStatuses, Reasons
  <1>3. PICK s \in SubmissionRows :
            /\ submission' = [submission EXCEPT ![v] = s] /\ submission'[v] = s
            /\ SameOrigin(s, submission[v]) /\ s.attempt = "review_pending" /\ s.reason = "none"
    BY <1>1, DecidedFacts DEF AttemptStatuses, Reasons
  <1>4. task' \in TaskRows /\ task'.status = "review_pending" /\ CustodyOK' /\ OwnersKept
    BY <1>2, StatusMoves DEF RouteReview, Working
  <1>5. TypeOK' /\ TxnOK'
    BY <1>1, <1>2, <1>4, NoTxnOK DEF TypeOK, RouteReview, revisions
  <1>6. LatestOK'
    BY <1>2, <1>3, <1>4, UnderEvaluation DEF LatestOK, Submitted, RouteReview, SameOrigin
  <1> QED
    BY <1>1, <1>2, <1>3, <1>4, <1>5, <1>6, VerdictStep DEF RouteReview

LEMMA AcceptStep == ASSUME RevisionInv, NEW v \in Versions, RouteAccept(v) PROVE RevisionInv'
  <1>1. TypeOK /\ CustodyOK /\ Routable(v) /\ Decided(v, "accepted", "none") /\ task \in TaskRows /\ assignments \in Nat
    BY InvParts, RowTypes DEF RouteAccept
  <1>2. /\ v = latest /\ v \in Versions /\ task.status = "evaluation_pending"
        /\ submission' \in [Versions -> SubmissionRows]
    BY <1>1, DecidedFacts DEF AttemptStatuses, Reasons
  <1>3. PICK s \in SubmissionRows :
            /\ submission' = [submission EXCEPT ![v] = s] /\ submission'[v] = s
            /\ SameOrigin(s, submission[v]) /\ s.attempt = "accepted" /\ s.reason = "none"
    BY <1>1, DecidedFacts DEF AttemptStatuses, Reasons
  <1>4. PICK A \in Rows : A = assignments /\ submission[v].assignment = A /\ assignment[A].status = "active"
    BY <1>2, UnderEvaluation
  <1>5. PICK r : r = [assignment[A] EXCEPT !.status = "completed"]
    OBVIOUS
  <1>6. /\ r \in AssignmentRows /\ r.status = "completed" /\ r.lineage = assignment[A].lineage
        /\ r.contributor = assignment[A].contributor
    BY <1>1, <1>5, RowTypes DEF AssignmentRows, AssignmentStatuses
  <1>7. assignment' = [assignment EXCEPT ![A] = r] /\ assignments' = A
    BY <1>4, <1>5 DEF RouteAccept
  <1>8. /\ assignment' \in [Rows -> AssignmentRows] /\ assignment'[A] = r
        /\ \A a \in Rows : a # A => assignment'[a] = assignment[a]
    BY <1>1, <1>6, <1>7 DEF TypeOK
  <1>9. task' \in TaskRows /\ task'.status = "accepted" /\ task'.lineage = task.lineage /\ task'.assignedTo = task.assignedTo
    BY <1>1 DEF RouteAccept, TaskRows, TaskStatuses, Working
  <1>10. CustodyOK'
    <2>1. \A a \in Rows : a < A \/ a > A \/ a = A
      BY Bounds
    <2>2. /\ assignments # 0 /\ task.assignedTo \in Contributors /\ task.lineage \in Guides
          /\ assignment[A].contributor = task.assignedTo /\ assignment[A].lineage = task.lineage
          /\ \A a \in Rows : (a > A => assignment[a].status = "absent") /\ (a < A => assignment[a].status \in Released)
      BY <1>1, <1>2, <1>4 DEF CustodyOK, Working
    <2>3. \A a \in Rows : (a > A => assignment'[a].status = "absent") /\ (a < A => assignment'[a].status \in Released)
      BY <1>8, <2>2, Bounds
    <2> QED
      BY <1>4, <1>6, <1>7, <1>8, <1>9, <2>2, <2>3 DEF CustodyOK, Working
  <1>11. OwnersKept
    <2>1. \A a \in 1..assignments : a \in Rows
      BY <1>1, Bounds, RowTypes
    <2>2. assignment[A].status \notin Released
      BY <1>4 DEF Released
    <2> QED
      BY <1>1, <1>4, <1>7, <1>8, <2>1, <2>2 DEF OwnersKept
  <1>12. TypeOK' /\ TxnOK'
    BY <1>1, <1>2, <1>8, <1>9, NoTxnOK DEF TypeOK, RouteAccept, revisions
  <1>13. LatestOK'
    BY <1>2, <1>3, <1>4, <1>7, <1>9, UnderEvaluation DEF LatestOK, Submitted, RouteAccept, SameOrigin
  <1> QED
    BY <1>1, <1>2, <1>3, <1>10, <1>11, <1>12, <1>13, VerdictStep DEF RouteAccept

LEMMA ExhaustStep == ASSUME RevisionInv, NEW v \in Versions, RouteExhaust(v) PROVE RevisionInv'
  <1>1. TypeOK /\ Routable(v) /\ Decided(v, "rejected", "revision_limit_reached")
    BY InvParts DEF RouteExhaust
  <1>2. /\ v = latest /\ v \in Versions /\ task.status = "evaluation_pending"
        /\ submission' \in [Versions -> SubmissionRows]
    BY <1>1, DecidedFacts DEF AttemptStatuses, Reasons
  <1>3. PICK s \in SubmissionRows :
            /\ submission' = [submission EXCEPT ![v] = s] /\ submission'[v] = s
            /\ SameOrigin(s, submission[v]) /\ s.attempt = "rejected" /\ s.reason = "revision_limit_reached"
            /\ s.result = submission[v].result
    BY <1>1, DecidedFacts DEF AttemptStatuses, Reasons
  <1>4. PICK A \in Rows : A = assignments /\ submission[v].assignment = A
    BY <1>2, UnderEvaluation
  <1>5. /\ s.result = "failed" /\ s.assignment = A
        /\ Counted(s.assignment, v) - 1 = MaxRounds[s.lineage]
    BY <1>3, <1>4 DEF RouteExhaust, Exhausts, Recommendation, SameOrigin
  <1>6. Holds(A) /\ Release(A, "revision_exhausted") /\ "revision_exhausted" \in Released
    BY <1>1, <1>4 DEF RouteExhaust, Routable, Released
  <1>7. /\ assignments' = assignments /\ assignment' \in [Rows -> AssignmentRows] /\ task' \in TaskRows
        /\ task'.status = "ready" /\ CustodyOK' /\ OwnersKept /\ assignment'[A].status = "revision_exhausted"
    BY <1>6, ReleaseFacts
  <1>8. TypeOK' /\ TxnOK'
    BY <1>1, <1>2, <1>7, NoTxnOK DEF TypeOK, RouteExhaust, revisions
  <1>9. LatestOK'
    BY <1>2, <1>3, <1>7 DEF LatestOK, Submitted, RouteExhaust
  <1> QED
    BY <1>1, <1>2, <1>3, <1>5, <1>7, <1>8, <1>9, VerdictStep DEF RouteExhaust

-----------------------------------------------------------------------------
(* A window runs out.                                                      *)

Expired(s) == [s EXCEPT !.attempt = "rejected", !.reason = "revision_deadline_expired"]

LEMMA ExpiredFacts ==
    ASSUME NEW s \in SubmissionRows
    PROVE  LET r == Expired(s) IN
           /\ r \in SubmissionRows /\ SameOrigin(r, s) /\ SameClock(r, s)
           /\ r.attempt = "rejected" /\ r.reason = "revision_deadline_expired" /\ r.result = s.result
  BY DEF SubmissionRows, Expired, SameOrigin, SameClock, AttemptStatuses, Reasons

LEMMA ExpireStep ==
    ASSUME RevisionInv, NEW v \in Versions, NEW k \in Heads, ExpireWindow(v, k)
    PROVE  RevisionInv'
  <1>1. /\ TypeOK /\ now \in Nat /\ now' = now /\ v = latest /\ latest' = latest
        /\ task.status = "needs_revision" /\ Holds(submission[v].assignment)
        /\ head' = head /\ preparation' = preparation /\ txn' = txn /\ Unlocked
        /\ timer[v][k] = "pending" /\ preparation[v][k].deadline <= now
        /\ Head(v).deadline = preparation[v][k].deadline
    BY InvParts, RowTypes DEF ExpireWindow, TimerGoverns, CurrentSource, Due
  <1>2. /\ v \in 1..latest /\ v \in Nat /\ head[v] \in Nat /\ head[v] > 0 /\ head[v] \in Heads
        /\ submission[v].attempt = "needs_revision" /\ submission[v].assignment = assignments
        /\ assignments \in Rows
    BY <1>1, ReturnedHead
  <1>3. PICK x \in SubmissionRows : x = submission[v] /\ AttemptOK(v) /\ OwnerOK(v)
    BY <1>1, <1>2, RowTypes, InvParts
  <1>4. PICK s : s = Expired(x)
    OBVIOUS
  <1>5. /\ s \in SubmissionRows /\ SameOrigin(s, x) /\ SameClock(s, x)
        /\ s.attempt = "rejected" /\ s.reason = "revision_deadline_expired" /\ s.result = x.result
    BY <1>4, ExpiredFacts
  <1>6. submission' = [submission EXCEPT ![v] = s]
    BY <1>3, <1>4 DEF ExpireWindow, Expired
  <1>7. /\ submission' \in [Versions -> SubmissionRows] /\ submission'[v] = s
        /\ \A u \in Versions : u # v => RowSame(u)
    BY <1>1, <1>5, <1>6 DEF TypeOK, RowSame
  <1>8. PICK A \in Rows : A = assignments /\ x.assignment = A
    BY <1>2, <1>3
  <1>9. /\ assignments' = assignments /\ assignment' \in [Rows -> AssignmentRows] /\ task' \in TaskRows
        /\ task'.status = "ready" /\ CustodyOK' /\ OwnersKept /\ assignment'[A].status = "revision_expired"
    <2>1. Holds(A) /\ Release(A, "revision_expired") /\ "revision_expired" \in Released
      BY <1>1, <1>3, <1>8 DEF ExpireWindow, Released
    <2> QED
      BY <2>1, ReleaseFacts
  <1>10. timer' \in [Versions -> [Heads -> TimerStates]] /\ TimersKept
    <2>1. PICK st \in {"pending", "acknowledged"} : timer' = [timer EXCEPT ![v][k] = st]
      BY DEF ExpireWindow
    <2> QED
      BY <1>1, <2>1 DEF TypeOK, TimerStates, TimersKept
  <1>11. TypeOK' /\ TxnOK'
    BY <1>1, <1>7, <1>9, <1>10, NoTxnOK DEF TypeOK, ExpireWindow
  <1>12. LatestOK'
    BY <1>1, <1>5, <1>7, <1>9 DEF LatestOK, Submitted
  <1>13. AttemptOK(v)'
    <2>1. s.supersedes => v > 1 /\ submission'[v - 1].attempt = "needs_revision"
      <3> HAVE s.supersedes
      <3>1. v > 1 /\ submission[v - 1].attempt = "needs_revision"
        BY <1>3, <1>5 DEF AttemptOK, SameOrigin
      <3>2. v - 1 \in Versions /\ v - 1 # v
        BY <1>1, <1>2, <3>1, PastVersions
      <3> QED
        BY <1>7, <3>1, <3>2 DEF RowSame
    <2>2. s.lineage \in Guides
      BY <1>3, <1>5 DEF AttemptOK, SameOrigin
    <2> QED
      BY <1>5, <1>7, <2>1, <2>2 DEF AttemptOK
  <1>14. \A u \in 1..v : u \in Versions
    BY <1>1, PastVersions
  <1>15. RightCause(v)'
    <2>1. ChainOK(v, k)
      BY InvParts
    <2>2. Running(Head(v)) /\ Head(v).deadline <= now
      BY <1>1, <2>1 DEF ChainOK, Running
    <2>3. s.result = "failed" => Counted(A, v)' - 1 < MaxRounds[s.lineage]
      <3> HAVE s.result = "failed"
      <3>1. x.reason = "none" /\ Counted(A, v) <= MaxRounds[x.lineage]
        BY <1>2, <1>3, <1>5, <1>8 DEF AttemptOK
      <3>2. \A u \in 1..v : Same(submission'[u], submission[u])
        BY <1>3, <1>5, <1>7, <1>14, <3>1 DEF Same, RowSame, SameOrigin
      <3>3. Counted(A, v)' = Counted(A, v) /\ Counted(A, v) \in Nat
        BY <1>2, <3>2, CountedSame, CountedNat
      <3>4. MaxRounds[x.lineage] \in Nat /\ s.lineage = x.lineage
        BY <1>3, <1>5, Policies DEF AttemptOK, SameOrigin
      <3> QED
        BY <3>1, <3>3, <3>4
    <2>4. s.assignment = A /\ Head(v)' = Head(v) /\ head'[v] # 0
      BY <1>1, <1>2, <1>5, <1>8 DEF SameOrigin, Head
    <2> QED
      BY <1>1, <1>5, <1>7, <2>2, <2>3, <2>4 DEF RightCause, Running
  <1>16. WindowExactAt(v)'
    <2>1. ObservedPast(v) /\ WindowExactAt(v)
      BY <1>2, InvParts, ChainsPast
    <2>2. \A u \in 1..v : SameClock(submission'[u], submission[u])
      BY <1>3, <1>5, <1>7, <1>14 DEF RowSame, SameClock
    <2> QED
      BY <1>1, <1>2, <2>1, <2>2, WindowKept
  <1>17. ObservedLast(v)'
    BY <1>1, <1>2, InvParts DEF ObservedLast, Head
  <1>18. (\A u \in Versions, j \in Heads : ChainOK(u, j))'
    BY <1>1, <1>10, InvParts DEF ChainOK, PreparationOK, Running, TimersKept
  <1>19. SameOrigin(submission'[v], submission[v])
    BY <1>3, <1>5, <1>7
  <1>20. submission'[v].attempt = "rejected" =>
                assignment'[submission[v].assignment].status =
                    (IF submission'[v].reason = "revision_limit_reached"
                     THEN "revision_exhausted" ELSE "revision_expired")
    BY <1>3, <1>5, <1>7, <1>8, <1>9
  <1> QED
    BY <1>1, <1>7, <1>9, <1>11, <1>12, <1>13, <1>15, <1>16, <1>17, <1>18, <1>19, <1>20, LatestStep

-----------------------------------------------------------------------------
(* A preparation is appended.                                              *)

LEMMA AppendFacts ==
    ASSUME TypeOK, NEW v \in Versions, NEW h, h = head[v], h < MaxPreparations, NEW p \in PreparationRows,
           AppendPreparation(v, p)
    PROVE  /\ h \in Nat /\ h + 1 \in Heads
           /\ head' \in [Versions -> 0..MaxPreparations]
           /\ preparation' \in [Versions -> [Heads -> PreparationRows]]
           /\ timer' \in [Versions -> [Heads -> TimerStates]]
           /\ head'[v] = h + 1 /\ preparation'[v][h + 1] = p
           /\ \A k \in Heads : k # h + 1 => preparation'[v][k] = preparation[v][k] /\ timer'[v][k] = timer[v][k]
           /\ timer'[v][h + 1] = "pending" => Running(p)
           /\ \A u \in Versions : u # v =>
                head'[u] = head[u] /\ preparation'[u] = preparation[u] /\ timer'[u] = timer[u]
  <1>1. h \in Nat /\ h <= MaxPreparations /\ MaxPreparations \in Nat
    BY RowTypes, Bounds
  <1>2. PICK k \in Heads : k = h + 1 /\ k \in 0..MaxPreparations
    BY <1>1, Bounds
  <1>3. PICK t \in TimerStates : t = TimerFor(p, k) /\ (t = "pending" => Running(p))
    BY DEF TimerFor, TimerStates
  <1>4. /\ head' = [head EXCEPT ![v] = k] /\ preparation' = [preparation EXCEPT ![v][k] = p]
        /\ timer' = [timer EXCEPT ![v][k] = t]
    BY <1>2, <1>3 DEF AppendPreparation
  <1>5. head' \in [Versions -> 0..MaxPreparations] /\ head'[v] = k /\ \A u \in Versions : u # v => head'[u] = head[u]
    BY <1>2, <1>4 DEF TypeOK
  <1>6. /\ preparation' \in [Versions -> [Heads -> PreparationRows]] /\ preparation'[v][k] = p
        /\ \A j \in Heads : j # k => preparation'[v][j] = preparation[v][j]
        /\ \A u \in Versions : u # v => preparation'[u] = preparation[u]
    BY <1>4 DEF TypeOK
  <1>7. /\ timer' \in [Versions -> [Heads -> TimerStates]] /\ timer'[v][k] = t
        /\ \A j \in Heads : j # k => timer'[v][j] = timer[v][j]
        /\ \A u \in Versions : u # v => timer'[u] = timer[u]
    BY <1>4 DEF TypeOK
  <1> QED
    BY <1>1, <1>2, <1>3, <1>5, <1>6, <1>7

LEMMA ChainAppended ==
    ASSUME RevisionInv, NEW v \in Versions, head[v] < MaxPreparations, NEW p \in PreparationRows,
           PreparationOK(p), AppendPreparation(v, p), now' = now
    PROVE  (\A u \in Versions, k \in Heads : ChainOK(u, k))'
  <1>1. TypeOK
    BY InvParts
  <1>2. PICK h \in Nat : h = head[v]
    BY <1>1, RowTypes
  <1>3. /\ h + 1 \in Heads /\ head'[v] = h + 1 /\ preparation'[v][h + 1] = p
        /\ \A k \in Heads : k # h + 1 => preparation'[v][k] = preparation[v][k] /\ timer'[v][k] = timer[v][k]
        /\ timer'[v][h + 1] = "pending" => Running(p)
        /\ \A u \in Versions : u # v =>
             head'[u] = head[u] /\ preparation'[u] = preparation[u] /\ timer'[u] = timer[u]
    BY <1>1, <1>2, AppendFacts
  <1> SUFFICES ASSUME NEW u \in Versions, NEW k \in Heads PROVE ChainOK(u, k)'
    OBVIOUS
  <1>4. ChainOK(u, k) /\ k \in Nat
    BY InvParts, Bounds
  <1>5. \A q : PreparationOK(q) => PreparationOK(q)'
    BY DEF PreparationOK, Running
  <1>6. CASE u # v
    BY <1>3, <1>4, <1>5, <1>6 DEF ChainOK, PreparationOK, Running
  <1>7. CASE u = v /\ k # h + 1
    <2>1. k <= h + 1 => k <= h
      BY <1>4, <1>7
    <2>2. k <= h => k <= h + 1
      BY <1>4
    <2> QED
      BY <1>2, <1>3, <1>4, <1>7, <2>1, <2>2 DEF ChainOK, PreparationOK, Running
  <1>8. CASE u = v /\ k = h + 1
    BY <1>2, <1>3, <1>5, <1>8 DEF ChainOK, PreparationOK, Running
  <1> QED
    BY <1>6, <1>7, <1>8

\* Adopting a target keeps task and assignment on one lineage.
LEMMA AdoptFacts ==
    ASSUME RevisionInv, NEW A \in Rows, A = assignments, task.status \in Working \ {"accepted"},
           NEW p \in PreparationRows, PreparationOK(p), Adopt(A, p)
    PROVE  /\ task' \in TaskRows /\ task'.status = "needs_revision" /\ assignments' = assignments
           /\ p.blocked = "none" => task'.lineage = p.target
           /\ assignment' \in [Rows -> AssignmentRows]
           /\ CustodyOK' /\ OwnersKept
  <1>1. TypeOK /\ CustodyOK /\ task \in TaskRows /\ assignments \in Nat /\ assignment[A] \in AssignmentRows
    BY InvParts, RowTypes
  <1>2. /\ assignment[A].status = "active" /\ assignment[A].lineage = task.lineage /\ task.lineage \in Guides
        /\ task.assignedTo \in Contributors /\ assignment[A].contributor = task.assignedTo /\ assignments # 0
    BY <1>1 DEF CustodyOK, Working
  <1>3. PICK g \in Guides : g = IF p.blocked = "none" THEN p.target ELSE task.lineage
    BY <1>2 DEF PreparationOK
  <1>4. PICK r : r = [assignment[A] EXCEPT !.lineage = g]
    OBVIOUS
  <1>5. r \in AssignmentRows /\ r.status = "active" /\ r.lineage = g /\ r.contributor = task.assignedTo
    <2>1. \A x \in AssignmentRows : LET y == [x EXCEPT !.lineage = g] IN
            y \in AssignmentRows /\ y.status = x.status /\ y.lineage = g /\ y.contributor = x.contributor
      BY DEF AssignmentRows
    <2> QED
      BY <1>1, <1>2, <1>4, <2>1
  <1>6. assignment' = [assignment EXCEPT ![A] = r] /\ assignments' = assignments
    <2>1. r = [assignment[A] EXCEPT !.lineage = IF p.blocked = "none" THEN p.target ELSE assignment[A].lineage]
      BY <1>2, <1>3, <1>4
    <2>2. /\ assignments' = assignments
          /\ assignment' = [assignment EXCEPT ![A] =
                [assignment[A] EXCEPT !.lineage = IF p.blocked = "none" THEN p.target ELSE assignment[A].lineage]]
      BY DEF Adopt
    <2> QED
      BY <2>1, <2>2
  <1>7. /\ assignment' \in [Rows -> AssignmentRows] /\ assignment'[A] = r
        /\ \A a \in Rows : a # A => assignment'[a] = assignment[a]
    BY <1>1, <1>5, <1>6 DEF TypeOK
  <1>8. task' \in TaskRows /\ task'.status = "needs_revision" /\ task'.lineage = g /\ task'.assignedTo = task.assignedTo
    <2>1. task' = [task EXCEPT !.status = "needs_revision", !.lineage = g]
      BY <1>3 DEF Adopt
    <2> QED
      BY <1>1, <2>1 DEF TaskRows, TaskStatuses, Working
  <1>9. CustodyOK'
    <2>1. \A a \in Rows : (a > A => assignment'[a].status = "absent") /\ (a < A => assignment'[a].status \in Released)
      BY <1>1, <1>7, Bounds DEF CustodyOK
    <2> QED
      BY <1>2, <1>5, <1>6, <1>7, <1>8, <2>1 DEF CustodyOK, Working
  <1>10. OwnersKept
    <2>1. \A a \in 1..assignments : a \in Rows
      BY <1>1, Bounds, RowTypes
    <2>2. assignment[A].status \notin Released
      BY <1>2 DEF Released
    <2> QED
      BY <1>1, <1>6, <1>7, <2>1, <2>2 DEF OwnersKept
  <1> QED
    BY <1>3, <1>6, <1>7, <1>8, <1>9, <1>10

LEMMA RepairCommitStep == ASSUME RevisionInv, RepairCommit PROVE RevisionInv'
  <1>1. /\ TypeOK /\ LatestOK /\ now \in Nat /\ now' = now /\ latest' = latest /\ submission' = submission
        /\ txn.kind = "repair" /\ TxnOK /\ task.status = "needs_revision" /\ head[latest] < MaxPreparations
    BY InvParts, RowTypes DEF RepairCommit, TxnOK
  <1>2. PICK n \in Versions : n = latest
    BY <1>1, ReturnedHead
  <1>3. PICK A \in Rows : A = assignments /\ submission[n].assignment = A
    BY <1>1, <1>2, ReturnedHead
  <1>4. PICK p \in PreparationRows : p = Head(n) /\ PreparationOK(p)
    BY <1>1, <1>2, ReturnedHead
  <1>5. PICK h \in Nat : h = head[n] /\ h > 0 /\ h < MaxPreparations
    BY <1>1, <1>2, ReturnedHead
  <1>6. PICK c \in PreparationRows : c = txn.child
    BY <1>1, RowTypes DEF Txns
  <1>7. /\ PreparationOK(c) /\ c.nextRound = p.nextRound /\ p.observed <= c.observed
        /\ WindowEnd(c) = WindowEnd(p) + (IF Running(p) THEN 0 ELSE c.observed - p.observed)
    BY <1>1, <1>2, <1>4, <1>6 DEF TxnOK
  <1>8. AppendPreparation(n, c) /\ Adopt(A, c)
    BY <1>2, <1>3, <1>6 DEF RepairCommit
  <1>9. /\ h + 1 \in Heads /\ head' \in [Versions -> 0..MaxPreparations]
        /\ preparation' \in [Versions -> [Heads -> PreparationRows]]
        /\ timer' \in [Versions -> [Heads -> TimerStates]]
        /\ head'[n] = h + 1 /\ preparation'[n][h + 1] = c
        /\ \A k \in Heads : k # h + 1 => preparation'[n][k] = preparation[n][k]
        /\ \A u \in Versions : u # n => head'[u] = head[u] /\ preparation'[u] = preparation[u]
    BY <1>1, <1>5, <1>8, AppendFacts
  <1>10. /\ task' \in TaskRows /\ task'.status = "needs_revision" /\ assignments' = assignments
         /\ c.blocked = "none" => task'.lineage = c.target
         /\ assignment' \in [Rows -> AssignmentRows]
         /\ CustodyOK' /\ OwnersKept
    BY <1>1, <1>3, <1>7, <1>8, AdoptFacts DEF Working
  <1>11. TypeOK' /\ TxnOK'
    BY <1>1, <1>9, <1>10, Defaults, NoTxnOK DEF TypeOK, RepairCommit
  <1>12. /\ n \in Nat /\ n > 0 /\ n \in 1..latest /\ \A u \in 1..n : u \in Versions
         /\ \A k \in 1..h : k \in Heads /\ k # h + 1
    <2>1. n \in Nat /\ n > 0 /\ n \in 1..latest /\ \A u \in 1..n : u \in Versions
      BY <1>1, <1>2, PastVersions, Bounds
    <2>2. \A k \in 1..h : k \in Heads /\ k # h + 1
      BY <1>5, Bounds
    <2> QED
      BY <2>1, <2>2
  <1>13. Head(n)' = c /\ Counted(assignments, latest)' = Counted(assignments, latest)
    BY <1>1, <1>9, <1>10 DEF Head, Counted, CountedRows
  <1>14. LatestOK'
    <2>1. p.nextRound = Counted(assignments, latest) /\ submission[n].attempt = "needs_revision"
      BY <1>1, <1>2, <1>4, ReturnedHead DEF LatestOK
    <2>2. Head(latest)' = c
      BY <1>1, <1>2, <1>13
    <2>3. latest' # 0 /\ submission'[latest'].attempt = "needs_revision" /\ submission'[latest'].assignment = assignments'
      BY <1>1, <1>2, <1>3, <1>10, <1>12, <2>1
    <2> QED
      BY <1>7, <1>10, <1>13, <2>1, <2>2, <2>3 DEF LatestOK, Submitted
  <1>15. AttemptOK(n) /\ ObservedLast(n) /\ ObservedPast(n) /\ WindowExactAt(n) /\ submission[n].attempt = "needs_revision"
    BY <1>1, <1>2, <1>12, InvParts, ChainsPast, ReturnedHead
  <1>16. AttemptOK(n)'
    <2>1. \A a : Counted(a, n)' = Counted(a, n)
      BY <1>1 DEF Counted, CountedRows
    <2>2. head'[n] # 0
      BY <1>9
    <2> QED
      BY <1>1, <1>15, <2>1, <2>2 DEF AttemptOK
  <1>17. ObservedLast(n)'
    <2> SUFFICES ASSUME NEW u \in 1..n, NEW k \in 1..head'[u] PROVE preparation'[u][k].observed <= c.observed
      BY <1>13 DEF ObservedLast
    <2>0. c.observed \in Int /\ p.observed \in Int
      BY <1>4, <1>7 DEF PreparationOK
    <2>1. CASE u = n /\ k = h + 1
      BY <1>9, <2>0, <2>1
    <2>2. CASE ~(u = n /\ k = h + 1)
      <3>1. k \in 1..head[u] /\ preparation'[u][k] = preparation[u][k]
        BY <1>5, <1>9, <1>12, <2>2
      <3>2. preparation[u][k].observed <= p.observed /\ preparation[u][k].observed \in Int
        BY <1>4, <1>5, <1>15, <3>1 DEF ObservedLast, ObservedPast
      <3> QED
        BY <1>7, <2>0, <3>1, <3>2
    <2> QED
      BY <2>1, <2>2
  <1>18. WindowExactAt(n)'
    <2>1. \A u \in 1..n : submission[u].routedAt \in Int /\ DeadlineHours[submission[u].lineage] \in Int
      <3> SUFFICES ASSUME NEW u \in 1..n PROVE submission[u].routedAt \in Int /\ DeadlineHours[submission[u].lineage] \in Int
        OBVIOUS
      <3>1. u \in 1..latest /\ u \in Versions
        BY <1>2, <1>12
      <3>2. submission[u] \in SubmissionRows /\ submission[u].lineage \in Guides
        BY <1>1, <3>1, InvParts, RowTypes DEF AttemptOK
      <3> QED
        BY <3>2, SubmissionFields, TimeFacts, Policies
    <2>2. \A u \in 1..n : SameClock(submission'[u], submission[u])
      BY <1>1 DEF SameClock
    <2>3. c.observed \in 0..now /\ WindowEnd(p) \in Int
      BY <1>1, <1>4, <1>7 DEF PreparationOK, WindowEnd
    <2>4. \A u \in 1..n : u # n => head'[u] = head[u] /\ preparation'[u] = preparation[u]
      BY <1>9, <1>12
    <2>5. \A k \in 1..h : preparation'[n][k] = preparation[n][k]
      BY <1>9, <1>12
    <2> QED
      BY <1>1, <1>4, <1>5, <1>7, <1>9, <1>12, <1>15, <2>1, <2>2, <2>3, <2>4, <2>5, WindowAppended
  <1>19. RightCause(n)'
    BY <1>1, <1>15 DEF RightCause, AttemptOK
  <1>20. (\A v \in Versions, k \in Heads : ChainOK(v, k))'
    BY <1>1, <1>2, <1>7, <1>8, ChainAppended
  <1>21. /\ \A u \in Versions : u # n => RowSame(u)
         /\ SameOrigin(submission'[n], submission[n])
         /\ submission'[n].attempt # "rejected"
    BY <1>1, <1>9, <1>15 DEF RowSame, SameOrigin
  <1> QED
    BY <1>1, <1>2, <1>10, <1>11, <1>14, <1>16, <1>17, <1>18, <1>19, <1>20, <1>21, LatestStep

\* The window a return falls into.
Origin(v) ==
    IF Inherits(v) THEN Head(v - 1).deadline ELSE now + DeadlineHours[submission[v].lineage]

Opened(v, g, r, t) ==
    [NoPreparation EXCEPT !.target = g, !.nextRound = r, !.observed = t, !.max = MaxRounds[submission[v].lineage]]

LEMMA OpenedFacts ==
    ASSUME NEW v, submission[v].lineage \in Guides, NEW g \in Guides \cup {NoGuide}, NEW r \in Nat, NEW t \in Nat
    PROVE  LET q == Opened(v, g, r, t) IN
           /\ q \in PreparationRows /\ q.target = g /\ q.nextRound = r /\ q.observed = t
           /\ q.deadline = NoTime /\ q.remaining = NoTime /\ q.blocked = "none"
  <1>1. PICK m \in Nat : m = MaxRounds[submission[v].lineage]
    BY Policies
  <1>2. PICK q : q = [NoPreparation EXCEPT !.target = g, !.nextRound = r, !.observed = t, !.max = m]
    OBVIOUS
  <1>3. /\ q \in PreparationRows /\ q.target = g /\ q.nextRound = r /\ q.observed = t
        /\ q.deadline = NoTime /\ q.remaining = NoTime /\ q.blocked = "none"
    BY <1>2, TimeFacts DEF NoPreparation, PreparationRows
  <1>4. Opened(v, g, r, t) = q
    BY <1>1, <1>2 DEF Opened
  <1> QED
    BY <1>3, <1>4

Late(q, end) == [q EXCEPT !.deadline = end, !.blocked = "revision_deadline_expired"]
Waiting(q, left) == [q EXCEPT !.remaining = left, !.blocked = "context_blocked"]
Open(q, end) == [q EXCEPT !.deadline = end]

LEMMA LateFacts ==
    ASSUME NEW q \in PreparationRows, NEW end \in Nat
    PROVE  /\ Late(q, end) \in PreparationRows
           /\ Late(q, end).deadline = end /\ Late(q, end).blocked = "revision_deadline_expired"
           /\ Late(q, end).observed = q.observed /\ Late(q, end).nextRound = q.nextRound
  BY TimeFacts DEF PreparationRows, Late

LEMMA WaitingFacts ==
    ASSUME NEW q \in PreparationRows, NEW left \in Nat
    PROVE  /\ Waiting(q, left) \in PreparationRows /\ Waiting(q, left).deadline = q.deadline
           /\ Waiting(q, left).remaining = left /\ Waiting(q, left).blocked = "context_blocked"
           /\ Waiting(q, left).observed = q.observed /\ Waiting(q, left).nextRound = q.nextRound
  BY TimeFacts DEF PreparationRows, Waiting

LEMMA OpenFacts ==
    ASSUME NEW q \in PreparationRows, NEW end \in Nat
    PROVE  /\ Open(q, end) \in PreparationRows /\ Open(q, end).deadline = end
           /\ Open(q, end).blocked = q.blocked /\ Open(q, end).target = q.target
           /\ Open(q, end).observed = q.observed /\ Open(q, end).nextRound = q.nextRound
  BY TimeFacts DEF PreparationRows, Open

\* The root of a chain ends its window where the return's origin says.
LEMMA RootFacts ==
    ASSUME NEW v, submission[v].lineage \in Guides, NEW g \in Guides \cup {NoGuide}, NEW r \in Nat,
           now \in Nat, Origin(v) \in Nat, NEW p, p = Root(v, g, r)
    PROVE  /\ p \in PreparationRows /\ PreparationOK(p) /\ p.nextRound = r /\ p.observed = now
           /\ WindowEnd(p) = Origin(v)
  <1>1. PICK t \in Nat : t = now
    OBVIOUS
  <1>2. PICK o \in Nat : o = Origin(v)
    OBVIOUS
  <1>3. PICK q \in PreparationRows :
            /\ q = Opened(v, g, r, t) /\ q.target = g /\ q.nextRound = r /\ q.observed = t
            /\ q.deadline = NoTime /\ q.remaining = NoTime /\ q.blocked = "none"
    BY OpenedFacts
  <1>4. PICK d \in Nat : d = DeadlineHours[submission[v].lineage]
    BY Policies
  <1>5. CASE o <= t
    <2>1. p = Late(q, o)
      BY <1>1, <1>2, <1>3, <1>5 DEF Root, Late, Opened, Origin
    <2>2. /\ p \in PreparationRows /\ p.deadline = o /\ p.blocked = "revision_deadline_expired"
          /\ p.observed = t /\ p.nextRound = r
      <3>1. /\ Late(q, o) \in PreparationRows
            /\ Late(q, o).deadline = o /\ Late(q, o).blocked = "revision_deadline_expired"
            /\ Late(q, o).observed = q.observed /\ Late(q, o).nextRound = q.nextRound
        BY LateFacts
      <3> QED
        BY <1>3, <2>1, <3>1
    <2>3. Running(p)
      BY <2>2, TimeFacts DEF Running
    <2> QED
      BY <1>1, <1>2, <2>2, <2>3 DEF PreparationOK, WindowEnd
  <1>6. CASE ~(o <= t) /\ Blocked(g, r)
    <2>1. PICK left \in Nat : left = o - t
      BY <1>6
    <2>2. (IF Inherits(v) THEN o - t ELSE d) = left
      BY <1>1, <1>2, <1>4, <2>1 DEF Origin
    <2>3. p = Waiting(q, left)
      BY <1>1, <1>2, <1>3, <1>4, <1>6, <2>2 DEF Root, Waiting, Opened, Origin
    <2>4. /\ p \in PreparationRows /\ p.deadline = NoTime /\ p.remaining = left /\ p.blocked = "context_blocked"
          /\ p.observed = t /\ p.nextRound = r
      <3>1. /\ Waiting(q, left) \in PreparationRows /\ Waiting(q, left).deadline = q.deadline
            /\ Waiting(q, left).remaining = left /\ Waiting(q, left).blocked = "context_blocked"
            /\ Waiting(q, left).observed = q.observed /\ Waiting(q, left).nextRound = q.nextRound
        BY WaitingFacts
      <3> QED
        BY <1>3, <2>3, <3>1
    <2>5. ~Running(p)
      BY <2>4 DEF Running
    <2> QED
      BY <1>1, <1>2, <2>1, <2>4, <2>5 DEF PreparationOK, WindowEnd
  <1>7. CASE ~(o <= t) /\ ~Blocked(g, r)
    <2>1. p = Open(q, o)
      BY <1>1, <1>2, <1>3, <1>7 DEF Root, Open, Opened, Origin
    <2>2. /\ p \in PreparationRows /\ p.deadline = o /\ p.blocked = "none" /\ p.target = g
          /\ p.observed = t /\ p.nextRound = r
      <3>1. /\ Open(q, o) \in PreparationRows /\ Open(q, o).deadline = o
            /\ Open(q, o).blocked = q.blocked /\ Open(q, o).target = q.target
            /\ Open(q, o).observed = q.observed /\ Open(q, o).nextRound = q.nextRound
        BY OpenFacts
      <3> QED
        BY <1>3, <2>1, <3>1
    <2>3. Running(p) /\ g \in Guides /\ r <= MaxRounds[g]
      BY <1>7, <2>2, TimeFacts, BlockedFacts DEF Running
    <2> QED
      BY <1>1, <1>2, <2>2, <2>3 DEF PreparationOK, WindowEnd
  <1> QED
    BY <1>5, <1>6, <1>7

LEMMA ReturnStep == ASSUME RevisionInv, NEW v \in Versions, RouteReturn(v) PROVE RevisionInv'
  <1>1. /\ TypeOK /\ Routable(v) /\ now \in Nat /\ now' = now /\ latest' = latest /\ txn' = txn /\ Unlocked
        /\ active \in Guides \cup {NoGuide} /\ Recommendation(v) = "needs_revision" /\ ~Exhausts(v)
    BY InvParts, RowTypes DEF RouteReturn
  <1>2. v = latest /\ task.status = "evaluation_pending" /\ submission[v].result # "none"
    BY <1>1 DEF Routable
  <1>3. /\ v \in 1..latest /\ v \in Nat /\ v > 0 /\ submission[v].reason = "none" /\ head[v] = 0
        /\ submission[v].lineage \in Guides /\ submission[v] \in SubmissionRows
        /\ v \in CountedRows(assignments, v)
    BY <1>2, UnderEvaluation, Bounds
  <1>4. PICK A \in Rows : A = assignments /\ submission[v].assignment = A /\ v \in CountedRows(A, v)
    BY <1>2, UnderEvaluation
  <1>5. PICK coverage \in BOOLEAN : coverage = (submission[v].result = "coverage")
    OBVIOUS
  <1>6. submission[v].result \in {"failed", "coverage"}
    BY <1>1 DEF Recommendation
  <1>7. PICK n \in Nat : n = Counted(A, v) /\ n >= 1
    BY <1>3, <1>4, CountedNat
  <1>8. PICK L \in Guides, m \in Nat : L = submission[v].lineage /\ m = MaxRounds[L]
    BY <1>3, Policies
  <1>9. n - 1 <= m /\ (~coverage => n <= m)
    <2>1. n - 1 <= m
      BY <1>1, <1>4, <1>7, <1>8 DEF Routable
    <2>2. ~coverage => n - 1 # m
      BY <1>1, <1>4, <1>5, <1>7, <1>8 DEF Exhausts
    <2> QED
      BY <2>1, <2>2
  <1>10. PICK r \in Nat : r = n - (IF coverage THEN 1 ELSE 0)
    BY <1>7
  <1>11. PICK p : p = Root(v, active, r)
    OBVIOUS
  <1>12. PICK reason \in Reasons : reason = IF coverage THEN "checker_coverage_incomplete" ELSE "none"
    BY DEF Reasons
  <1>13. Decided(v, "needs_revision", reason) /\ AppendPreparation(v, p) /\ Adopt(A, p)
    BY <1>4, <1>5, <1>7, <1>10, <1>11, <1>12 DEF RouteReturn
  <1>14. submission' \in [Versions -> SubmissionRows]
    BY <1>1, <1>13, DecidedFacts DEF AttemptStatuses
  <1>15. PICK s \in SubmissionRows :
            /\ submission' = [submission EXCEPT ![v] = s] /\ submission'[v] = s
            /\ SameOrigin(s, submission[v]) /\ s.attempt = "needs_revision" /\ s.reason = reason
            /\ s.result = submission[v].result /\ s.routedAt = now
    BY <1>1, <1>13, DecidedFacts DEF AttemptStatuses
  <1>16. /\ s.assignment = A /\ s.lineage = L /\ s.supersedes = submission[v].supersedes
         /\ \A u \in Versions : u # v => submission'[u] = submission[u]
         /\ \A u \in 1..v : u \in Versions
    BY <1>1, <1>4, <1>8, <1>15, PastVersions DEF SameOrigin, TypeOK
  \* What the return before this one says, when this one inherits its window.
  <1>17. submission[v].supersedes =>
            /\ v > 1 /\ v - 1 \in Versions /\ v - 1 # v /\ v - 1 \in 1..latest /\ head[v - 1] # 0
            /\ Head(v - 1) \in PreparationRows /\ Running(Head(v - 1)) /\ Head(v - 1).deadline \in Nat
            /\ submission[v - 1].attempt = "needs_revision"
            /\ submission[v - 1].reason = "checker_coverage_incomplete" <=> submission[v - 1].result = "coverage"
    <2> HAVE submission[v].supersedes
    <2>1. RevisionOnTime(v) /\ AttemptOK(v)
      BY <1>3, InvParts
    <2>2. v > 1 /\ head[v - 1] # 0 /\ Running(Head(v - 1)) /\ submission[v - 1].attempt = "needs_revision"
      BY <2>1 DEF RevisionOnTime, AttemptOK
    <2>3. v - 1 \in Versions /\ v - 1 # v /\ v - 1 \in 1..latest
      BY <1>1, <1>2, <1>3, <2>2, PastVersions
    <2>4. Head(v - 1) \in PreparationRows
      BY <1>1, <2>2, <2>3, HeadRow
    <2>5. Head(v - 1).deadline \in Nat
      BY <2>2, <2>4, PreparationFields, TimeFacts DEF Running
    <2>6. AttemptOK(v - 1)
      BY <2>3, InvParts
    <2> QED
      BY <2>2, <2>3, <2>4, <2>5, <2>6 DEF AttemptOK
  <1>18. Origin(v) \in Nat
    BY <1>1, <1>3, <1>17, Policies DEF Origin, Inherits
  <1>19. /\ p \in PreparationRows /\ PreparationOK(p) /\ p.nextRound = r /\ p.observed = now
         /\ WindowEnd(p) = Origin(v)
    BY <1>1, <1>3, <1>11, <1>18, RootFacts
  <1>20. head[v] < MaxPreparations /\ head[v] + 1 = 1
    BY <1>3, BoundsAssumption
  <1>21. /\ head' \in [Versions -> 0..MaxPreparations]
         /\ preparation' \in [Versions -> [Heads -> PreparationRows]]
         /\ timer' \in [Versions -> [Heads -> TimerStates]]
         /\ head'[v] = 1 /\ preparation'[v][1] = p
         /\ \A u \in Versions : u # v => head'[u] = head[u] /\ preparation'[u] = preparation[u]
    BY <1>1, <1>3, <1>13, <1>19, <1>20, AppendFacts
  <1>22. /\ task' \in TaskRows /\ task'.status = "needs_revision" /\ assignments' = assignments
         /\ p.blocked = "none" => task'.lineage = p.target
         /\ assignment' \in [Rows -> AssignmentRows]
         /\ CustodyOK' /\ OwnersKept
    BY <1>2, <1>4, <1>13, <1>19, AdoptFacts DEF Working
  <1>23. TypeOK' /\ TxnOK'
    BY <1>1, <1>14, <1>21, <1>22, NoTxnOK DEF TypeOK, RouteReturn
  <1>24. \A u \in Versions : u # v => RowSame(u)
    BY <1>16, <1>21 DEF RowSame
  <1>25. Counted(A, v)' = r
    <2>1. \A u \in 1..v : u # v => Same(submission'[u], submission[u])
      BY <1>16 DEF Same
    <2>2. CASE coverage
      <3>1. Counted(A, v)' = Counted(A, v) - 1
        BY <1>3, <1>4, <1>12, <1>15, <2>1, <2>2, CountedDrop
      <3> QED
        BY <1>7, <1>10, <2>2, <3>1
    <2>3. CASE ~coverage
      <3>1. \A u \in 1..v : Same(submission'[u], submission[u])
        BY <1>3, <1>4, <1>12, <1>15, <1>16, <2>1, <2>3 DEF Same
      <3>2. Counted(A, v)' = Counted(A, v)
        BY <1>3, <3>1, CountedSame
      <3> QED
        BY <1>7, <1>10, <2>3, <3>2
    <2> QED
      BY <2>2, <2>3
  <1>26. Head(v)' = p
    BY <1>21 DEF Head
  <1>27. LatestOK'
    <2>1. assignments' = A /\ latest' = v
      BY <1>1, <1>2, <1>4, <1>22
    <2>2. Head(latest)' = p /\ Counted(assignments, latest)' = r
      BY <1>25, <1>26, <2>1
    <2> QED
      BY <1>3, <1>15, <1>16, <1>19, <1>22, <2>1, <2>2 DEF LatestOK, Submitted
  <1>28. AttemptOK(v)'
    <2>1. s.supersedes => v > 1 /\ submission'[v - 1].attempt = "needs_revision"
      BY <1>16, <1>17
    <2>2. s.result = "failed" => r <= m
      BY <1>5, <1>9, <1>10, <1>15
    <2>3. s.result \in {"failed", "coverage"} /\ s.reason = IF s.result = "coverage" THEN "checker_coverage_incomplete" ELSE "none"
      BY <1>5, <1>6, <1>12, <1>15
    <2>4. s.result = "failed" => Counted(s.assignment, v)' <= MaxRounds[s.lineage]
      BY <1>8, <1>16, <1>25, <2>2
    <2>5. submission'[v].result = "failed" => Counted(submission[v].assignment, v)' <= MaxRounds[submission'[v].lineage]
      BY <1>15, <1>16, <1>25, <2>2, <1>8
    <2> QED
      BY <1>15, <1>16, <1>21, <2>1, <2>3, <2>5 DEF AttemptOK
  <1>29. RightCause(v)'
    BY <1>12, <1>15 DEF RightCause
  <1>30. (\A u \in Versions, k \in Heads : ChainOK(u, k))'
    BY <1>1, <1>13, <1>19, <1>20, ChainAppended
  <1>31. ObservedLast(v)'
    <2> SUFFICES ASSUME NEW u \in 1..v, NEW k \in 1..head'[u] PROVE preparation'[u][k].observed <= now
      BY <1>19, <1>26 DEF ObservedLast
    <2>1. u \in Versions /\ head'[u] \in 0..MaxPreparations
      BY <1>16, <1>21
    <2>2. k \in Heads /\ k <= head'[u]
      BY <2>1, Bounds
    <2>3. ChainOK(u, k)'
      BY <1>30, <2>1, <2>2
    <2> QED
      BY <1>1, <2>2, <2>3 DEF ChainOK, PreparationOK
  <1>32. Continues(v)' <=> Inherits(v)
    BY <1>15, <1>16, <1>17, <1>3 DEF Continues, Inherits
  <1>33. WindowExactAt(v)'
    <2>1. CASE Inherits(v)
      <3>1. v > 1 /\ submission[v].supersedes
        BY <2>1 DEF Inherits
      <3>2. \A u \in 1..(v - 1) : RowSame(u)
        BY <1>3, <1>16, <1>24
      <3>3. WindowExactAt(v - 1)'
        BY <1>1, <1>17, <3>1, <3>2, RowKept
      <3>4. RowSame(v - 1) /\ Head(v - 1)' = Head(v - 1) /\ head'[v - 1] # 0
        BY <1>17, <1>24, <3>1 DEF RowSame, Head
      <3>5. WindowEnd(p) = WindowEnd(Head(v - 1))'
        BY <1>17, <1>19, <2>1, <3>1, <3>4 DEF Origin, WindowEnd, Running
      <3> QED
        BY <1>3, <1>21, <1>32, <2>1, <3>1, <3>3, <3>4, <3>5, WindowInherited
    <2>2. CASE ~Inherits(v)
      <3>1. PICK d \in Nat : d = DeadlineHours[L]
        BY Policies
      <3>2. WindowEnd(p) = now + d
        BY <1>8, <1>19, <2>2, <3>1 DEF Origin
      <3>3. submission'[v].routedAt = now /\ DeadlineHours[submission'[v].lineage] = d
        BY <1>15, <1>16, <3>1
      <3> QED
        BY <1>1, <1>3, <1>21, <1>32, <2>2, <3>2, <3>3, WindowBegins
    <2> QED
      BY <2>1, <2>2
  <1>34. SameOrigin(submission'[v], submission[v]) /\ submission'[v].attempt # "rejected"
    BY <1>15
  <1> QED
    BY <1>1, <1>2, <1>22, <1>23, <1>24, <1>27, <1>28, <1>29, <1>30, <1>31, <1>33, <1>34, LatestStep

-----------------------------------------------------------------------------
(* The theorems.                                                           *)

LEMMA InitInv == Init => RevisionInv
  <1> SUFFICES ASSUME Init PROVE RevisionInv
    OBVIOUS
  <1>1. /\ latest = 0 /\ assignments = 0 /\ txn.kind = "none" /\ task.status = "draft" /\ task.assignedTo = NoOne
        /\ \A v \in Versions : submission[v] = NoSubmission /\ head[v] = 0
        /\ \A v \in Versions, k \in Heads : timer[v][k] = "none"
        /\ \A a \in Rows : assignment[a].status = "absent"
    BY Defaults DEF Init, NoAssignment
  <1>2. TypeOK
    <2>1. task \in TaskRows
      BY DEF Init, TaskRows, TaskStatuses
    <2>2. now \in Nat /\ active \in Guides \cup {NoGuide} /\ txn \in Txns
      BY Defaults DEF Init
    <2>3. assignments \in 0..MaxAssignments /\ latest \in 0..MaxSubmissions /\ 0 \in 0..MaxPreparations
      BY BoundsAssumption DEF Init
    <2>4. assignment \in [Rows -> AssignmentRows] /\ submission \in [Versions -> SubmissionRows]
      BY Defaults DEF Init
    <2>5. head \in [Versions -> 0..MaxPreparations]
      BY <2>3 DEF Init
    <2>6. [k \in Heads |-> NoPreparation] \in [Heads -> PreparationRows]
      BY Defaults
    <2>7. [k \in Heads |-> "none"] \in [Heads -> TimerStates]
      BY DEF TimerStates
    <2>8. preparation \in [Versions -> [Heads -> PreparationRows]]
      BY <2>6 DEF Init
    <2>9. timer \in [Versions -> [Heads -> TimerStates]]
      BY <2>7 DEF Init
    <2> QED
      BY <2>1, <2>2, <2>3, <2>4, <2>5, <2>8, <2>9 DEF TypeOK
  <1>3. CustodyOK
    <2>1. \A a \in Rows : a \in Nat /\ a # 0 /\ ~(a < 0)
      BY Bounds
    <2>2. task.status \notin Working
      BY <1>1 DEF Working
    <2> QED
      BY <1>1, <2>1, <2>2 DEF CustodyOK
  <1>4. LatestOK /\ TxnOK
    BY <1>1 DEF LatestOK, TxnOK, Submitted
  <1>5. \A v \in Versions, k \in Heads : ChainOK(v, k)
    <2> SUFFICES ASSUME NEW v \in Versions, NEW k \in Heads PROVE ChainOK(v, k)
      OBVIOUS
    <2>1. head[v] = 0 /\ timer[v][k] = "none" /\ k \in Nat /\ k # 0
      BY <1>1, Bounds
    <2> QED
      BY <2>1 DEF ChainOK
  <1>6. 1..latest = {}
    BY <1>1
  <1> QED
    BY <1>1, <1>2, <1>3, <1>4, <1>5, <1>6 DEF RevisionInv, RevisionsOnTime, RejectedForTheRightCause, WindowExact

LEMMA NextInv == RevisionInv /\ [Next]_vars => RevisionInv'
  <1> SUFFICES ASSUME RevisionInv, [Next]_vars PROVE RevisionInv'
    OBVIOUS
  <1>1. CASE UNCHANGED vars
    <2>1. /\ TypeOK /\ TypeOK' /\ now \in Nat /\ now' = now /\ TimersKept
          /\ UNCHANGED <<custody, latest, submission, head, preparation, txn>>
      BY <1>1, InvParts, RowTypes DEF vars, TypeOK, TimersKept, custody
    <2> QED
      BY <2>1, CustodyFrame, LatestFrame, TxnFrame, QuietStep
  <1>2. CASE Next
    BY <1>2, TickStep, ActivateStep, ScreenStep, ReleaseTaskStep, ClaimStep, InvalidateStep, SubmitStageStep,
       SubmitCommitStep, RollbackStep, EvaluateStep, ReviewStep, AcceptStep, ExhaustStep, ReturnStep,
       RepairStageStep, RepairCommitStep, ExpireStep, AcknowledgeStep, DeadLetterStep DEF Next
  <1> QED
    BY <1>1, <1>2

\* The inductive invariant: task, assignments, submissions and preparations
\* agree whatever is claimed, submitted, routed, repaired, expired or delivered
\* late, for any number of rows and any policies.
THEOREM RevisionInvariant == Spec => []RevisionInv
  BY InitInv, NextInv, PTL DEF Spec

\* Type correctness of the task model.
THEOREM TaskTyped == Spec => []TypeOK
  <1>1. RevisionInv => TypeOK
    BY DEF RevisionInv
  <1> QED
    BY <1>1, RevisionInvariant, PTL

\* Every revision was committed inside the window it answers, under the lineage
\* that window adopted (guard_new_revision_submission,
\* guard_revision_submission_deadline).
THEOREM NoLateRevision == Spec => []RevisionsOnTime
  <1>1. RevisionInv => RevisionsOnTime
    BY DEF RevisionInv
  <1> QED
    BY <1>1, RevisionInvariant, PTL

\* A rejected submission names its cause: the cap for a failed last round, the
\* deadline for a window that ran out (guard_task_revision_exhaustion,
\* guard_task_revision_expiration).
THEOREM CauseIsRight == Spec => []RejectedForTheRightCause
  <1>1. RevisionInv => RejectedForTheRightCause
    BY DEF RevisionInv
  <1> QED
    BY <1>1, RevisionInvariant, PTL

\* A window lasts its policy's hours plus the time its clock stood still, through
\* every pause, resumption, rebase and inheritance
\* (project_revision_preparation_clock).
THEOREM WindowsExact == Spec => []WindowExact
  <1>1. RevisionInv => WindowExact
    BY DEF RevisionInv
  <1> QED
    BY <1>1, RevisionInvariant, PTL

\* A completed evaluation can be routed: _prepare never raises on it.
THEOREM ResultsRoutable == Spec => []NeverUnroutable
  <1>1. ASSUME RevisionInv PROVE NeverUnroutable
    <2> SUFFICES ASSUME task.status = "evaluation_pending", submission[latest].result # "none"
                 PROVE  Routable(latest)
      BY DEF NeverUnroutable
    <2>1. PICK v \in Versions : v = latest
      BY <1>1, UnderEvaluation
    <2>2. PICK A \in Rows : A = assignments
      BY <1>1, UnderEvaluation
    <2>3. /\ submission[v].assignment = A /\ Holds(A) /\ submission[v].lineage = task.lineage
          /\ task.lineage \in Guides /\ assignment[A].lineage = task.lineage /\ v \in Nat
          /\ Counted(A, v) <= MaxRounds[task.lineage] + 1
      BY <1>1, <2>1, <2>2, UnderEvaluation DEF Holds
    <2>4. Counted(A, v) \in Nat /\ MaxRounds[task.lineage] \in Nat
      BY <2>3, CountedNat, Policies
    <2>5. Counted(A, v) - 1 <= MaxRounds[task.lineage]
      BY <2>3, <2>4
    <2>6. v # 0
      BY Bounds
    <2> QED
      BY <2>1, <2>3, <2>5, <2>6 DEF Routable
  <1> QED
    BY <1>1, RevisionInvariant, PTL

\* An open window can be used: the submission path admits what the head admits
\* (require_revision_capacity, select_submission_context).
THEOREM WindowsUsable == Spec => []OpenWindowUsable
  <1>1. ASSUME RevisionInv PROVE OpenWindowUsable
    <2> SUFFICES ASSUME CurrentSource(latest), Head(latest).blocked = "none", now < Head(latest).deadline
                 PROVE  /\ RevisionAdmitted(submission[latest].assignment)
                        /\ assignment[submission[latest].assignment].lineage = task.lineage
      BY DEF OpenWindowUsable
    <2>1. task.status = "needs_revision" /\ TypeOK /\ LatestOK /\ CustodyOK
      BY <1>1, InvParts DEF CurrentSource
    <2>2. PICK A \in Rows : A = assignments /\ submission[latest].assignment = A
      BY <1>1, <2>1, ReturnedHead
    <2>3. PICK p : p = Head(latest) /\ PreparationOK(p)
      BY <1>1, <2>1, ReturnedHead
    <2>4. p.target = task.lineage /\ p.nextRound = Counted(A, latest) /\ p.blocked = "none" /\ now < p.deadline
      BY <2>1, <2>2, <2>3 DEF LatestOK
    <2>5. Running(p) /\ Counted(A, latest) <= MaxRounds[task.lineage]
      BY <2>3, <2>4 DEF PreparationOK
    <2>6. assignment[A].lineage = task.lineage
      BY <2>1, <2>2 DEF CustodyOK, Working
    <2> QED
      BY <2>2, <2>3, <2>4, <2>5, <2>6 DEF RevisionAdmitted
  <1> QED
    BY <1>1, RevisionInvariant, PTL

\* The task names a contributor exactly while one assignment carries it, and a
\* released assignment has the rejection that released it.
THEOREM CustodyAgrees == Spec => []CustodyMatchesOutcome
  <1>1. ASSUME RevisionInv PROVE CustodyMatchesOutcome
    <2>1. TypeOK /\ CustodyOK /\ assignments \in Nat
      BY <1>1, InvParts, RowTypes
    <2>2. (task.status \in Working) <=> (task.assignedTo # NoOne)
      BY <2>1, Policies DEF CustodyOK
    <2>3. ASSUME NEW a \in Rows, assignment[a].status \in {"active", "completed"}
          PROVE  /\ task.assignedTo = assignment[a].contributor
                 /\ (assignment[a].status = "completed") <=> (task.status = "accepted")
                 /\ \A b \in Rows \ {a} : assignment[b].status \notin {"active", "completed"}
      <3>1. a = assignments /\ a \in Nat
        BY <2>1, <2>3, Bounds DEF CustodyOK, Released
      <3>2. task.status \in Working
        BY <2>1, <2>3, <3>1, Bounds DEF CustodyOK, Released
      <3>3. \A b \in Rows \ {a} : assignment[b].status \in Released \cup {"absent"}
        BY <2>1, <3>1, Bounds DEF CustodyOK
      <3> QED
        BY <2>1, <2>3, <3>1, <3>2, <3>3 DEF CustodyOK, Released
    <2>4. \A v \in 1..latest : OwnerOK(v)
      BY <1>1, InvParts
    <2> QED
      BY <2>2, <2>3, <2>4 DEF CustodyMatchesOutcome, OwnerOK
  <1> QED
    BY <1>1, RevisionInvariant, PTL


-----------------------------------------------------------------------------
(* What a step may never do.                                               *)

LEMMA NothingDecided ==
    ASSUME UNCHANGED <<submission, assignment, preparation>>
    PROVE  DecisionsKept
  BY DEF DecisionsKept

\* The latest submission of a task under evaluation or revision is undecided.
LEMMA LatestUndecided ==
    ASSUME RevisionInv, task.status \in {"evaluation_pending", "needs_revision"},
           \A v \in Versions : v # latest => submission'[v] = submission[v]
    PROVE  \A v \in 1..latest :
             submission[v].attempt \in {"accepted", "rejected"} \/ v < latest => submission'[v] = submission[v]
  <1>1. TypeOK /\ latest \in Nat /\ submission[latest].attempt \in {"evaluation_pending", "needs_revision"}
    BY InvParts, RowTypes, UnderEvaluation, ReturnedHead
  <1>2. \A v \in 1..latest : v \in Versions /\ (v < latest => v # latest)
    BY <1>1, PastVersions
  <1> QED
    BY <1>1, <1>2

\* Only the assignment that holds the task changes, or a new row.
LEMMA HolderUndecided ==
    ASSUME NEW a, assignment[a].status \in {"active", "absent"},
           \A b \in Rows : b # a => assignment'[b] = assignment[b]
    PROVE  \A b \in Rows : assignment[b].status \in Released \cup {"completed"} => assignment'[b] = assignment[b]
  BY DEF Released

LEMMA ClaimKeeps == ASSUME RevisionInv, NEW c \in Contributors, Claim(c) PROVE DecisionsKept
  <1>1. TypeOK /\ CustodyOK /\ assignments \in Nat /\ assignments < MaxAssignments
    BY InvParts, RowTypes DEF Claim
  <1>2. PICK n \in Rows : n = assignments + 1 /\ n > assignments
    BY <1>1, Bounds
  <1>3. assignment[n].status = "absent"
    BY <1>1, <1>2 DEF CustodyOK
  <1>4. \A b \in Rows : b # n => assignment'[b] = assignment[b]
    BY <1>1, <1>2 DEF Claim, TypeOK
  <1>5. submission' = submission /\ preparation' = preparation
    BY DEF Claim, revisions
  <1> QED
    BY <1>3, <1>4, <1>5, HolderUndecided DEF DecisionsKept

LEMMA ReleaseKeeps ==
    ASSUME RevisionInv, NEW a \in Rows, Holds(a), NEW out \in Released, Release(a, out)
    PROVE  \A b \in Rows : assignment[b].status \in Released \cup {"completed"} => assignment'[b] = assignment[b]
  <1>1. assignment[a].status = "active"
    BY DEF Holds
  <1> QED
    BY <1>1, ReleaseFacts, HolderUndecided

LEMMA InvalidateKeeps == ASSUME RevisionInv, NEW a \in Rows, InvalidateAssignment(a) PROVE DecisionsKept
  <1>1. Holds(a) /\ Release(a, "authority_revoked") /\ "authority_revoked" \in Released
    BY DEF InvalidateAssignment, Released
  <1>2. submission' = submission /\ preparation' = preparation
    BY DEF InvalidateAssignment, revisions
  <1> QED
    BY <1>1, <1>2, ReleaseKeeps DEF DecisionsKept

LEMMA SubmitCommitKeeps == ASSUME RevisionInv, SubmitCommit PROVE DecisionsKept
  <1>1. TypeOK /\ latest \in Nat
    BY InvParts, RowTypes
  <1>2. \A v \in 1..latest : v \in Versions /\ v # latest + 1
    BY <1>1, PastVersions
  <1>3. \A v \in Versions : v # latest + 1 => submission'[v] = submission[v]
    BY <1>1 DEF SubmitCommit, TypeOK
  <1>4. assignment' = assignment /\ preparation' = preparation
    BY DEF SubmitCommit, revisions
  <1> QED
    BY <1>2, <1>3, <1>4 DEF DecisionsKept

LEMMA EvaluateKeeps == ASSUME RevisionInv, NEW r \in Results \ {"none"}, Evaluate(r) PROVE DecisionsKept
  <1>1. TypeOK /\ task.status = "evaluation_pending"
    BY InvParts DEF Evaluate
  <1>2. \A v \in Versions : v # latest => submission'[v] = submission[v]
    BY <1>1 DEF Evaluate, TypeOK
  <1>3. assignment' = assignment /\ preparation' = preparation
    BY DEF Evaluate, custody, revisions
  <1> QED
    BY <1>1, <1>2, <1>3, LatestUndecided DEF DecisionsKept

\* A routing decision changes the latest submission only.
LEMMA DecidedKeeps ==
    ASSUME RevisionInv, NEW v, Routable(v), NEW outcome, NEW reason, Decided(v, outcome, reason)
    PROVE  /\ \A u \in 1..latest :
                submission[u].attempt \in {"accepted", "rejected"} \/ u < latest => submission'[u] = submission[u]
           /\ v = latest /\ v \in Versions /\ submission[v].assignment = assignments /\ assignments \in Rows
           /\ assignment[assignments].status = "active" /\ Holds(assignments) /\ head[v] = 0 /\ TypeOK
           /\ task.status = "evaluation_pending"
  <1>1. TypeOK /\ task.status = "evaluation_pending" /\ v = latest
    BY InvParts DEF Routable
  <1>2. \A u \in Versions : u # latest => submission'[u] = submission[u]
    BY <1>1 DEF Decided, TypeOK
  <1> QED
    BY <1>1, <1>2, LatestUndecided, UnderEvaluation DEF Holds

LEMMA RouteKeeps ==
    ASSUME RevisionInv, NEW v \in Versions, RouteReview(v) \/ RouteAccept(v) \/ RouteExhaust(v)
    PROVE  DecisionsKept
  <1>1. CASE RouteReview(v)
    <2>1. Routable(v) /\ Decided(v, "review_pending", "none") /\ UNCHANGED <<assignment, preparation>>
      BY <1>1 DEF RouteReview, revisions
    <2> QED
      BY <2>1, DecidedKeeps DEF DecisionsKept
  <1>2. CASE RouteAccept(v)
    <2>1. Routable(v) /\ Decided(v, "accepted", "none") /\ UNCHANGED preparation
      BY <1>2 DEF RouteAccept, revisions
    <2>2. PICK A \in Rows : /\ A = submission[v].assignment /\ assignment[A].status = "active" /\ TypeOK
                            /\ \A u \in 1..latest : submission[u].attempt \in {"accepted", "rejected"} \/ u < latest =>
                                 submission'[u] = submission[u]
      BY <2>1, DecidedKeeps
    <2>3. \A b \in Rows : b # A => assignment'[b] = assignment[b]
      BY <1>2, <2>2 DEF RouteAccept, TypeOK
    <2> QED
      BY <2>1, <2>2, <2>3, HolderUndecided DEF DecisionsKept
  <1>3. CASE RouteExhaust(v)
    <2>1. /\ Routable(v) /\ Decided(v, "rejected", "revision_limit_reached") /\ UNCHANGED preparation
          /\ Release(submission[v].assignment, "revision_exhausted") /\ "revision_exhausted" \in Released
      BY <1>3 DEF RouteExhaust, revisions, Released
    <2>2. PICK A \in Rows : /\ A = submission[v].assignment /\ Holds(A)
                            /\ \A u \in 1..latest : submission[u].attempt \in {"accepted", "rejected"} \/ u < latest =>
                                 submission'[u] = submission[u]
      BY <2>1, DecidedKeeps
    <2> QED
      BY <2>1, <2>2, ReleaseKeeps DEF DecisionsKept
  <1> QED
    BY <1>1, <1>2, <1>3

\* A new link leaves the chain before it alone, an adopted lineage every
\* assignment but the one that holds the task.
LEMMA LinkKeeps ==
    ASSUME TypeOK, NEW v \in Versions, NEW p, AppendPreparation(v, p)
    PROVE  \A u \in Versions, k \in Heads : k <= head[u] => preparation'[u][k] = preparation[u][k]
  <1> SUFFICES ASSUME NEW u \in Versions, NEW k \in Heads, k <= head[u] PROVE preparation'[u][k] = preparation[u][k]
    OBVIOUS
  <1>1. k \in Nat /\ head[u] \in Nat
    BY RowTypes, Bounds
  <1>2. CASE u = v
    <2>1. k # head[v] + 1
      BY <1>1, <1>2
    <2> QED
      BY <1>2, <2>1 DEF AppendPreparation, TypeOK
  <1>3. CASE u # v
    BY <1>3 DEF AppendPreparation, TypeOK
  <1> QED
    BY <1>2, <1>3

LEMMA AdoptKeeps ==
    ASSUME TypeOK, NEW a \in Rows, assignment[a].status = "active", NEW p, Adopt(a, p)
    PROVE  \A b \in Rows : assignment[b].status \in Released \cup {"completed"} => assignment'[b] = assignment[b]
  <1>1. \A b \in Rows : b # a => assignment'[b] = assignment[b]
    BY DEF Adopt, TypeOK
  <1> QED
    BY <1>1, HolderUndecided

LEMMA ReturnKeeps == ASSUME RevisionInv, NEW v \in Versions, RouteReturn(v) PROVE DecisionsKept
  <1>1. PICK outcome, reason, p :
            Routable(v) /\ Decided(v, outcome, reason) /\ AppendPreparation(v, p) /\ Adopt(submission[v].assignment, p)
    BY DEF RouteReturn
  <1>2. PICK A \in Rows : /\ A = submission[v].assignment /\ assignment[A].status = "active" /\ TypeOK
                          /\ \A u \in 1..latest : submission[u].attempt \in {"accepted", "rejected"} \/ u < latest =>
                               submission'[u] = submission[u]
    BY <1>1, DecidedKeeps
  <1> QED
    BY <1>1, <1>2, LinkKeeps, AdoptKeeps DEF DecisionsKept

LEMMA RepairCommitKeeps == ASSUME RevisionInv, RepairCommit PROVE DecisionsKept
  <1>1. /\ TypeOK /\ CustodyOK /\ task.status = "needs_revision" /\ submission' = submission
        /\ AppendPreparation(latest, txn.child) /\ Adopt(submission[latest].assignment, txn.child)
    BY InvParts DEF RepairCommit, TxnOK
  <1>2. PICK A \in Rows : A = submission[latest].assignment /\ A = assignments
    BY <1>1, ReturnedHead
  <1>3. latest \in Versions /\ assignment[A].status = "active"
    BY <1>1, <1>2, ReturnedHead DEF CustodyOK, Working
  <1> QED
    BY <1>1, <1>2, <1>3, LinkKeeps, AdoptKeeps DEF DecisionsKept

LEMMA ExpireKeeps ==
    ASSUME RevisionInv, NEW v \in Versions, NEW k \in Heads, ExpireWindow(v, k)
    PROVE  DecisionsKept
  <1>1. /\ TypeOK /\ task.status = "needs_revision" /\ v = latest /\ Holds(submission[v].assignment)
        /\ Release(submission[v].assignment, "revision_expired") /\ "revision_expired" \in Released
        /\ preparation' = preparation
    BY InvParts DEF ExpireWindow, TimerGoverns, CurrentSource, Released
  <1>2. PICK A \in Rows : A = submission[v].assignment
    BY <1>1, ReturnedHead
  <1>3. \A u \in Versions : u # latest => submission'[u] = submission[u]
    BY <1>1 DEF ExpireWindow, TypeOK
  <1> QED
    BY <1>1, <1>2, <1>3, LatestUndecided, ReleaseKeeps DEF DecisionsKept

\* A decided attempt, a released or completed assignment and an earlier link of a
\* preparation chain never change again, in any step of any behaviour.
THEOREM DecisionsStand == Spec => DecisionsFinal
  <1>1. RevisionInv /\ [Next]_vars => [DecisionsKept]_vars
    <2> SUFFICES ASSUME RevisionInv, Next PROVE DecisionsKept
      OBVIOUS
    <2>1. CASE \/ Tick \/ Screen \/ ReleaseTask \/ Rollback \/ RepairStage
               \/ \E g \in Guides \cup {NoGuide} : ActivateGuide(g)
               \/ \E a \in Rows : SubmitStage(a)
               \/ \E v \in Versions, k \in Heads : AcknowledgeTimer(v, k) \/ DeadLetterTimer(v, k)
      BY <2>1, NothingDecided DEF Tick, Screen, ReleaseTask, Rollback, RepairStage, ActivateGuide, SubmitStage,
         AcknowledgeTimer, DeadLetterTimer, custody, revisions
    <2>2. CASE ~(\/ Tick \/ Screen \/ ReleaseTask \/ Rollback \/ RepairStage
                 \/ \E g \in Guides \cup {NoGuide} : ActivateGuide(g)
                 \/ \E a \in Rows : SubmitStage(a)
                 \/ \E v \in Versions, k \in Heads : AcknowledgeTimer(v, k) \/ DeadLetterTimer(v, k))
      BY <2>2, ClaimKeeps, InvalidateKeeps, SubmitCommitKeeps, EvaluateKeeps, RouteKeeps, ReturnKeeps,
         RepairCommitKeeps, ExpireKeeps DEF Next
    <2> QED
      BY <2>1, <2>2
  <1> QED
    BY <1>1, RevisionInvariant, PTL DEF Spec, DecisionsFinal

-----------------------------------------------------------------------------
(* A deadline that has passed.                                             *)

LEMMA PassedKept ==
    ASSUME TypeOK, NEW v \in Versions, DeadlinePassed(v), now' \in Nat, now' >= now,
           UNCHANGED <<custody, latest, submission, head, preparation>>
    PROVE  DeadlinePassed(v)'
  <1>1. head[v] # 0 /\ CurrentSource(v) /\ Running(Head(v)) /\ Head(v).deadline <= now /\ now \in Nat
    BY RowTypes DEF DeadlinePassed, CurrentSource
  <1>2. Head(v).deadline \in Int
    BY <1>1, HeadRow, PreparationFields, TimeFacts
  <1>3. Head(v)' = Head(v)
    BY DEF Head
  <1>4. CurrentSource(v)'
    BY <1>1 DEF CurrentSource, Holds, custody
  <1> QED
    BY <1>1, <1>2, <1>3, <1>4 DEF DeadlinePassed, Running

\* Once the deadline of a current window has passed, no step reopens or uses the
\* window: its source leaves only by being rejected
\* (guard_revision_submission_deadline, guard_revision_preparation_closure).
THEOREM PassedStaysPassed == Spec => PassedDeadlineIsFinal
  <1>1. RevisionInv /\ [Next]_vars => [\A v \in Versions : LeavesByRejection(v)]_vars
    <2> SUFFICES ASSUME RevisionInv, Next, NEW v \in Versions, DeadlinePassed(v)
                 PROVE  DeadlinePassed(v)' \/ submission'[v].attempt = "rejected"
      BY DEF LeavesByRejection
    <2>1. /\ TypeOK /\ now \in Nat /\ task.status = "needs_revision" /\ v = latest /\ Running(Head(latest))
          /\ Head(latest).deadline <= now /\ head[latest] # 0
      BY InvParts, RowTypes DEF DeadlinePassed, CurrentSource
    <2>2. Head(latest).deadline \in Int
      BY <2>1, HeadRow, PreparationFields, TimeFacts
    <2>3. ~CommitOnTime /\ ~RepairOnTime
      BY <2>1, <2>2 DEF CommitOnTime, RepairOnTime
    <2>4. CASE Tick
      <3>1. now' \in Nat /\ now' >= now /\ UNCHANGED <<custody, latest, submission, head, preparation>>
        BY <2>1, <2>4 DEF Tick, revisions
      <3> QED
        BY <2>1, <3>1, PassedKept
    <2>5. CASE \/ Rollback \/ RepairStage
               \/ \E g \in Guides \cup {NoGuide} : ActivateGuide(g)
               \/ \E a \in Rows : SubmitStage(a)
               \/ \E u \in Versions, k \in Heads : AcknowledgeTimer(u, k) \/ DeadLetterTimer(u, k)
      <3>1. now' = now /\ UNCHANGED <<custody, latest, submission, head, preparation>>
        BY <2>5 DEF Rollback, RepairStage, ActivateGuide, SubmitStage, AcknowledgeTimer, DeadLetterTimer, revisions
      <3>2. now' \in Nat /\ now' >= now
        BY <2>1, <3>1
      <3> QED
        BY <2>1, <3>1, <3>2, PassedKept
    <2>6. ASSUME NEW u \in Versions, NEW k \in Heads, ExpireWindow(u, k)
          PROVE  submission'[v].attempt = "rejected"
      <3>1. u = v /\ submission[v] \in SubmissionRows
        BY <2>1, <2>6, RowTypes DEF ExpireWindow, TimerGoverns, CurrentSource
      <3>2. submission' = [submission EXCEPT ![v] = Expired(submission[v])]
        BY <2>6, <3>1 DEF ExpireWindow, Expired
      <3>3. submission'[v] = Expired(submission[v])
        BY <2>1, <3>2 DEF TypeOK
      <3> QED
        BY <3>1, <3>3, ExpiredFacts
    <2>7. ~(\/ Screen \/ ReleaseTask \/ SubmitCommit \/ RepairCommit
            \/ \E c \in Contributors : Claim(c)
            \/ \E a \in Rows : InvalidateAssignment(a)
            \/ \E r \in Results \ {"none"} : Evaluate(r)
            \/ \E u \in Versions : RouteReview(u) \/ RouteAccept(u) \/ RouteExhaust(u) \/ RouteReturn(u))
      <3>1. \A u \in Versions : ~Routable(u)
        BY <2>1 DEF Routable
      <3>2. ~SubmitCommit /\ ~RepairCommit
        BY <2>3 DEF SubmitCommit, RepairCommit
      <3>3. \A u \in Versions : ~RouteReview(u) /\ ~RouteAccept(u) /\ ~RouteExhaust(u) /\ ~RouteReturn(u)
        BY <3>1 DEF RouteReview, RouteAccept, RouteExhaust, RouteReturn
      <3> QED
        BY <2>1, <3>2, <3>3 DEF Screen, ReleaseTask, Claim, InvalidateAssignment, Evaluate
    <2> QED
      BY <2>4, <2>5, <2>6, <2>7 DEF Next
  <1> QED
    BY <1>1, RevisionInvariant, PTL DEF Spec, PassedDeadlineIsFinal
=============================================================================
