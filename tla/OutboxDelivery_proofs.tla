----------------------- MODULE OutboxDelivery_proofs -----------------------
(***************************************************************************)
(* Proofs about OutboxDelivery for every set of events and workers, every  *)
(* attempt budget and every choice of lease, timeout and backoff.          *)
(***************************************************************************)
EXTENDS OutboxDelivery, TLAPS

\* The exponential backoff stays a positive delay within the cap.
LEMMA BackoffType ==
    ASSUME NEW g \in Gens
    PROVE  Backoff(g) \in Nat \ {0}
  BY OptionsAssumption DEF Backoff

\* _outcome yields a well-formed receipt fixed at the given time.
LEMMA OutcomeType ==
    ASSUME NEW e, NEW c \in Claims, c.gen \in Gens, NEW i \in Time, NEW cause, NEW t \in Time
    PROVE  /\ Outcome(e, c, i, cause, t) \in Outcomes
           /\ Outcome(e, c, i, cause, t).completedAt = t
           /\ Outcome(e, c, i, cause, t).invokedAt = i
  <1> DEFINE b == Backoff(c.gen)
  <1>1. b \in Nat \ {0}
    BY BackoffType
  <1> HIDE DEF b
  <1>2. ASSUME NEW s \in DeliveryStates, NEW k \in ErrorCodes, NEW u \in BOOLEAN
        PROVE  /\ OutcomeOf(s, k, c, i, t, u) \in Outcomes
               /\ OutcomeOf(s, k, c, i, t, u).completedAt = t
               /\ OutcomeOf(s, k, c, i, t, u).invokedAt = i
    BY <1>1, <1>2 DEF OutcomeOf, Outcomes, Time, NoTime, b
  <1>3. \E s \in DeliveryStates, k \in ErrorCodes, u \in BOOLEAN :
            Outcome(e, c, i, cause, t) = OutcomeOf(s, k, c, i, t, u)
    BY Zenon DEF Outcome, DeliveryStates, ErrorCodes, Claimable, Terminal
  <1> QED
    BY <1>2, <1>3

\* The null rows are well typed.
LEMMA NullTypes ==
    /\ NoClaim \in Claims /\ NoOutcome \in Outcomes
    /\ \A e \in Events : IdleWork(e) \in Works
  BY EventsAssumption
  DEF Works, IdleWork, Claims, NoClaim, Outcomes, NoOutcome, Time, NoTime, DeliveryStates,
      Claimable, Terminal, ErrorCodes, FinalizationCauses, HandlerOutcomes, Places, LockedPlaces

\* The verdicts of _outcome: only an acknowledging call within its lease is
\* acknowledged, and a call that was entered is repeated only when its handler
\* asked for it or repeating is registered as safe.
LEMMA OutcomeVerdict ==
    ASSUME NEW e, NEW c \in Claims, c.gen \in Gens, NEW i \in Time, NEW cause, NEW t \in Time,
           OutcomeDefined(c, i, cause, t)
    PROVE  LET r == Outcome(e, c, i, cause, t) IN
           /\ r.state \in {"retryable", "acknowledged", "dead_letter"}
           /\ r.state = "acknowledged" => cause = "acknowledge" /\ i # NoTime /\ r.finalizedAt < c.expiresAt
           /\ r.state = "retryable" => c.gen < MaxAttempts
           /\ r.state = "retryable" /\ i # NoTime => e \in ReplaySafe \/ cause = "retry"
  <1>1. c.expiresAt \in Int /\ t \in Int
    BY DEF Claims, Time, NoTime
  <1> QED
    BY <1>1 DEF Outcome, OutcomeOf, OutcomeDefined, Unknown, Expired

LEMMA InitType == Init => TypeOK
  <1> SUFFICES ASSUME Init PROVE TypeOK
    OBVIOUS
  <1> USE DEF Init
  <1>1. event \in [Events -> EventRows]
    BY NullTypes DEF EventRows, DeliveryStates, ErrorCodes, Time, NoTime, Claimable, Terminal
  <1>2. attempt \in [Events -> [Gens -> AttemptRows]]
    BY NullTypes DEF AttemptRows, Time, NoTime
  <1>3. work \in [Workers -> Works]
    BY NullTypes
  <1> QED
    BY <1>1, <1>2, <1>3, EventsAssumption DEF TypeOK

\* Done and Raise keep the program states typed.
LEMMA DoneType ==
    ASSUME TypeOK, NEW w \in Workers
    PROVE  /\ Done(w) => work' \in [Workers -> Works]
           /\ Raise(w) => work' \in [Workers -> Works] /\ queue' \in SUBSET Events
  <1>1. work \in [Workers -> Works] /\ work[w] \in Works /\ queue \in SUBSET Events
    BY DEF TypeOK
  <1>2. work[w].event \in Events
    BY <1>1 DEF Works
  <1>3. IdleWork(work[w].event) \in Works
    BY <1>2, NullTypes
  <1>4. Done(w) => work' \in [Workers -> Works]
    BY <1>1, <1>3 DEF Done
  <1> QED
    BY <1>1, <1>2, <1>4 DEF Raise

\* Updating fields of a program state keeps it well typed.
LEMMA WorkUpdates ==
    ASSUME NEW u \in Works, NEW p \in Places
    PROVE  /\ [u EXCEPT !.at = p] \in Works
           /\ \A k \in FinalizationCauses : [u EXCEPT !.at = p, !.cause = k] \in Works
           /\ \A c \in Claims : [u EXCEPT !.at = p, !.claim = c] \in Works
           /\ \A c \in Claims, k \in FinalizationCauses :
                [u EXCEPT !.at = p, !.claim = c, !.cause = k] \in Works
           /\ \A r \in Outcomes : [u EXCEPT !.at = p, !.receipt = r] \in Works
           /\ \A t \in Time : [u EXCEPT !.at = p, !.deadline = t] \in Works
           /\ \A r \in Outcomes : [u EXCEPT !.receipt = r] \in Works
  BY ZenonT(30) DEF Works

LEMMA ReceiptUpdate ==
    ASSUME NEW r \in Outcomes, NEW t \in Time
    PROVE  [r EXCEPT !.invokedAt = t] \in Outcomes
  BY DEF Outcomes

\* Places and causes the actions name.
LEMMA Names ==
    /\ {"idle", "recover", "claim_read", "claim_lock", "claim_commit", "begin_lock", "begin_commit", "call",
        "invoke", "finalize_read", "finalize_lock", "finalize_commit"} \subseteq Places
    /\ {"expired", "unknown"} \cup HandlerOutcomes \subseteq FinalizationCauses
    /\ {"pending", "claimed"} \subseteq DeliveryStates
    /\ Nat \subseteq Time /\ NoTime \in Time
  BY DEF Places, LockedPlaces, FinalizationCauses, DeliveryStates, Claimable, Time, NoTime

\* Every step keeps every variable in its type: times stay times, generations
\* within the attempt budget, receipts and claims well formed.
LEMMA TypeStep == IInv /\ [Next]_vars => TypeOK'
  <1> SUFFICES ASSUME IInv, [Next]_vars PROVE TypeOK'
    OBVIOUS
  <1>0. TypeOK /\ WorkerInv
    BY DEF IInv
  <1>1. ASSUME NEW w \in Workers
        PROVE  /\ work[w] \in Works /\ work[w].event \in Events /\ work[w].claim \in Claims
               /\ work[w].receipt \in Outcomes /\ work[w].cause \in FinalizationCauses
               /\ event[work[w].event] \in EventRows /\ event[work[w].event].claim \in Claims
    BY <1>0 DEF TypeOK, Works, EventRows
  <1>2. ASSUME NEW e \in Events, Append(e) PROVE TypeOK'
    <2>1. event[e] \in EventRows /\ Max2(now, NotBefore[e]) \in Time
      BY <1>0, EventsAssumption, Names DEF TypeOK, Max2
    <2>2. [event[e] EXCEPT !.state = "pending", !.next = Max2(now, NotBefore[e])] \in EventRows
      BY ZenonT(30), <2>1, Names DEF EventRows
    <2> QED
      BY <1>0, <1>2, <2>2 DEF Append, TypeOK, handlers
  <1>3. ASSUME NEW e \in Events, ScanPending(e) \/ MessageLost(e) PROVE TypeOK'
    BY <1>0, <1>3, EventsAssumption DEF ScanPending, MessageLost, TypeOK, database, handlers
  <1>4. ASSUME NEW w \in Workers, NEW e \in Events, Deliver(w, e) PROVE TypeOK'
    <2>1. [IdleWork(e) EXCEPT !.at = "recover"] \in Works
      BY ZenonT(30), NullTypes, WorkUpdates, Names
    <2> QED
      BY <1>0, <1>4, <2>1 DEF Deliver, TypeOK, database, handlers
  <1>5. ASSUME NEW w \in Workers, Recover(w) PROVE TypeOK'
    <2>1. work' \in [Workers -> Works]
      <3>1. /\ [work[w] EXCEPT !.at = "finalize_read", !.claim = event[work[w].event].claim,
                               !.cause = "expired"] \in Works
            /\ [work[w] EXCEPT !.at = "claim_read"] \in Works
        BY ZenonT(30), <1>1, WorkUpdates, Names
      <3> QED
        BY ZenonT(30), <1>0, <1>5, <3>1 DEF Recover, Goto, TypeOK
    <2> QED
      BY <1>0, <1>5, <2>1 DEF Recover, TypeOK, database, handlers
  <1>6. ASSUME NEW w \in Workers, ClaimRead(w) PROVE TypeOK'
    <2>1. CASE Done(w)
      BY <1>0, <1>6, <2>1, DoneType DEF ClaimRead, TypeOK, database, handlers
    <2>2. CASE ~Done(w)
      <3> DEFINE c == [gen |-> event[work[w].event].gen + 1, owner |-> w,
                       claimedAt |-> now, expiresAt |-> now + Lease]
      <3>1. event[work[w].event].gen < MaxAttempts
            /\ work' = [work EXCEPT ![w] = [@ EXCEPT !.at = "claim_lock", !.claim = c]]
        BY <1>6, <2>2 DEF ClaimRead
      <3>2. c \in Claims
        <4>1. event[work[w].event].gen \in Gens \cup {0}
          BY <1>1 DEF EventRows
        <4>2. event[work[w].event].gen + 1 \in Gens
          BY <3>1, <4>1, OptionsAssumption DEF Gens
        <4>3. now \in Nat /\ now + Lease \in Nat
          BY <1>0, OptionsAssumption DEF TypeOK
        <4> QED
          BY <4>2, <4>3, Names DEF Claims
      <3> HIDE DEF c
      <3>3. work' \in [Workers -> Works]
        <4>1. [work[w] EXCEPT !.at = "claim_lock", !.claim = c] \in Works
          BY ZenonT(30), <1>1, <3>2, WorkUpdates, Names
        <4> QED
          BY <1>0, <3>1, <4>1 DEF TypeOK
      <3> QED
        BY <1>0, <1>6, <2>2, <3>3 DEF ClaimRead, TypeOK, database, handlers
    <2> QED
      BY <2>1, <2>2
  <1>7. ASSUME NEW w \in Workers, ClaimLock(w) \/ BeginLock(w) \/ InvokeUnknown(w) PROVE TypeOK'
    <2>1. CASE Done(w)
      BY <1>0, <1>7, <2>1, DoneType DEF ClaimLock, BeginLock, InvokeUnknown, TypeOK, database, handlers
    <2>2. CASE ~Done(w)
      <3>1. work' \in [Workers -> Works]
        <4>1. [work[w].receipt EXCEPT !.invokedAt = now] \in Outcomes
          BY <1>0, <1>1, ReceiptUpdate, Names DEF TypeOK
        <4>2. /\ [work[w] EXCEPT !.at = "begin_commit", !.receipt = [work[w].receipt EXCEPT !.invokedAt = now]] \in Works
              /\ [work[w] EXCEPT !.at = "claim_commit"] \in Works
              /\ [work[w] EXCEPT !.at = "finalize_read", !.cause = "unknown"] \in Works
          BY ZenonT(30), <1>1, <4>1, WorkUpdates, Names
        <4>3. work \in [Workers -> Works]
          BY <1>0 DEF TypeOK
        <4>4. CASE ClaimLock(w)
          BY <2>2, <4>2, <4>3, <4>4 DEF ClaimLock, Goto
        <4>5. CASE BeginLock(w)
          BY <2>2, <4>2, <4>3, <4>5 DEF BeginLock
        <4>6. CASE InvokeUnknown(w)
          BY <4>2, <4>3, <4>6 DEF InvokeUnknown
        <4> QED
          BY <1>7, <4>4, <4>5, <4>6
      <3> QED
        BY <1>0, <1>7, <3>1 DEF ClaimLock, BeginLock, InvokeUnknown, TypeOK, database, handlers
    <2> QED
      BY <2>1, <2>2
  <1>8. ASSUME NEW w \in Workers, ClaimCommit(w) PROVE TypeOK'
    <2> DEFINE e == work[w].event
               c == work[w].claim
    <2>1. e \in Events /\ c \in Claims /\ c.gen \in Gens
      BY ZenonT(30), <1>0, <1>1, <1>8 DEF ClaimCommit, WorkerInv, WorkerOK
    <2>2. event' \in [Events -> EventRows]
      <3>1. [event[e] EXCEPT !.state = "claimed", !.gen = c.gen, !.claim = c, !.next = NoTime] \in EventRows
        BY ZenonT(30), <1>1, <2>1, Names DEF EventRows
      <3> QED
        BY <1>0, <1>8, <2>1, <3>1 DEF ClaimCommit, TypeOK
    <2>3. attempt' \in [Events -> [Gens -> AttemptRows]]
      <3>1. attempt[e] \in [Gens -> AttemptRows] /\ attempt[e][c.gen] \in AttemptRows
        BY <1>0, <2>1 DEF TypeOK
      <3>2. [attempt[e][c.gen] EXCEPT !.stage = "claimed", !.claim = c] \in AttemptRows
        BY ZenonT(30), <2>1, <3>1 DEF AttemptRows
      <3> QED
        BY <1>0, <1>8, <2>1, <3>1, <3>2 DEF ClaimCommit, TypeOK
    <2>4. work' \in [Workers -> Works]
      <3>1. [work[w] EXCEPT !.at = "begin_lock"] \in Works
        BY ZenonT(30), <1>1, WorkUpdates, Names
      <3> QED
        BY <1>0, <1>8, <3>1 DEF ClaimCommit, Goto, TypeOK
    <2> QED
      BY <1>0, <1>8, <2>2, <2>3, <2>4 DEF ClaimCommit, TypeOK, handlers
  <1>9. ASSUME NEW w \in Workers, BeginCommit(w) PROVE TypeOK'
    <2> DEFINE e == work[w].event
               g == work[w].claim.gen
    <2>1. e \in Events /\ g \in Gens /\ work[w].receipt.invokedAt \in Time
      BY ZenonT(30), <1>0, <1>1, <1>9 DEF BeginCommit, WorkerInv, WorkerOK, Holding, HasAttempt, Outcomes
    <2>2. attempt' \in [Events -> [Gens -> AttemptRows]]
      <3>1. attempt[e] \in [Gens -> AttemptRows] /\ attempt[e][g] \in AttemptRows
        BY <1>0, <2>1 DEF TypeOK
      <3>2. [attempt[e][g] EXCEPT !.stage = "invoked", !.invokedAt = work[w].receipt.invokedAt] \in AttemptRows
        BY ZenonT(30), <2>1, <3>1 DEF AttemptRows
      <3> QED
        BY <1>0, <1>9, <2>1, <3>1, <3>2 DEF BeginCommit, TypeOK
    <2>3. work' \in [Workers -> Works]
      <3>1. [work[w] EXCEPT !.at = "call"] \in Works
        BY ZenonT(30), <1>1, WorkUpdates, Names
      <3> QED
        BY <1>0, <1>9, <3>1 DEF BeginCommit, Goto, TypeOK
    <2> QED
      BY <1>0, <1>9, <2>2, <2>3 DEF BeginCommit, TypeOK, handlers
  <1>10. ASSUME NEW w \in Workers, CallHandler(w) PROVE TypeOK'
    <2>1. work[w].event \in Events /\ work[w].claim.gen \in Gens
      BY ZenonT(30), <1>0, <1>1, <1>10 DEF CallHandler, WorkerInv, WorkerOK, Holding, HasAttempt
    <2>2. work' \in [Workers -> Works]
      <3>1. now + HandlerTimeout \in Time
        BY <1>0, OptionsAssumption, Names DEF TypeOK
      <3>2. [work[w] EXCEPT !.at = "invoke", !.deadline = now + HandlerTimeout] \in Works
        BY ZenonT(30), <1>1, <3>1, WorkUpdates, Names
      <3> QED
        BY <1>0, <1>10, <3>2 DEF CallHandler, TypeOK
    <2>3. handler' \in [Events -> [Gens -> {"none", "running", "fenced", "ended"}]]
          /\ calls' \in [Events -> [Gens -> Nat]]
      BY <1>0, <1>10, <2>1 DEF CallHandler, TypeOK
    <2> QED
      BY <1>0, <1>10, <2>2, <2>3 DEF CallHandler, TypeOK, database
  <1>11. ASSUME NEW e \in Events, NEW g \in Gens, Fence(e, g) \/ EffectCommit(e, g) \/ HandlerFails(e, g)
         PROVE  TypeOK'
    <2>1. CASE Fence(e, g)
      BY <1>0, <2>1 DEF Fence, TypeOK, database
    <2>2. CASE EffectCommit(e, g)
      BY <1>0, <2>2 DEF EffectCommit, TypeOK, database
    <2>3. CASE HandlerFails(e, g)
      BY SMTT(30), <1>0, <2>3 DEF HandlerFails, TypeOK, database
    <2> QED
      BY <1>11, <2>1, <2>2, <2>3
  <1>12. ASSUME NEW w \in Workers, NEW v \in HandlerOutcomes, HandlerReturns(w, v) PROVE TypeOK'
    <2>1. work[w].event \in Events /\ work[w].claim.gen \in Gens
      BY <1>0, <1>1, <1>12 DEF HandlerReturns, WorkerInv, WorkerOK, Holding, HasAttempt
    <2>2. work' \in [Workers -> Works]
      <3>1. [work[w] EXCEPT !.at = "finalize_read", !.cause = v] \in Works
        BY ZenonT(30), <1>1, WorkUpdates, Names
      <3> QED
        BY <1>0, <1>12, <3>1 DEF HandlerReturns, TypeOK
    <2>3. handler' \in [Events -> [Gens -> {"none", "running", "fenced", "ended"}]]
          /\ verdict' \in [Events -> [Gens -> HandlerOutcomes \cup {"none"}]]
      BY ZenonT(30), <1>0, <1>12, <2>1 DEF HandlerReturns, TypeOK
    <2> QED
      BY ZenonT(30), <1>0, <1>12, <2>2, <2>3 DEF HandlerReturns, TypeOK, database
  <1>13. ASSUME NEW w \in Workers, FinalizeRead(w) PROVE TypeOK'
    <2>1. CASE Raise(w)
      BY ZenonT(30), <1>0, <1>13, <2>1, DoneType DEF FinalizeRead, TypeOK, database, handlers
    <2>2. CASE ~Raise(w)
      <3> DEFINE e == work[w].event
                 c == work[w].claim
                 a == attempt[e][c.gen]
                 t == IF a.stage = "completed" THEN a.outcome.completedAt ELSE now
                 r == Outcome(e, c, a.invokedAt, work[w].cause, t)
      <3>1. c.gen \in Gens /\ e \in Events /\ c \in Claims
        BY ZenonT(30), <1>0, <1>1, <1>13 DEF FinalizeRead, WorkerInv, WorkerOK, Finalizing, HasAttempt
      <3>2. a \in AttemptRows
        BY <1>0, <3>1 DEF TypeOK
      <3>3. a.invokedAt \in Time /\ t \in Time
        BY <1>0, <3>2, Names DEF TypeOK, AttemptRows, Outcomes
      <3>4. r \in Outcomes
        BY ZenonT(30), <3>1, <3>3, OutcomeType
      <3>5. work' = [work EXCEPT ![w] = [@ EXCEPT !.at = "finalize_lock", !.receipt = r]] /\ UNCHANGED queue
        BY <1>13, <2>2 DEF FinalizeRead
      <3> HIDE DEF r
      <3>6. work' \in [Workers -> Works]
        <4>1. [work[w] EXCEPT !.at = "finalize_lock", !.receipt = r] \in Works
          BY ZenonT(30), <1>1, <3>4, WorkUpdates, Names
        <4> QED
          BY <1>0, <3>5, <4>1 DEF TypeOK
      <3> QED
        BY <1>0, <1>13, <3>5, <3>6 DEF FinalizeRead, TypeOK, database, handlers
    <2> QED
      BY <2>1, <2>2
  <1>14. ASSUME NEW w \in Workers, FinalizeLock(w) PROVE TypeOK'
    <2> DEFINE a == attempt[work[w].event][work[w].claim.gen]
    <2>1. work[w].event \in Events /\ work[w].claim.gen \in Gens
      BY ZenonT(30), <1>0, <1>1, <1>14 DEF FinalizeLock, WorkerInv, WorkerOK, Finalizing, HasAttempt
    <2>2. a.outcome \in Outcomes
      BY SMTT(30), <1>0, <2>1 DEF TypeOK, AttemptRows
    <2> HIDE DEF a
    <2>3. \/ Done(w) /\ UNCHANGED queue
          \/ Raise(w)
          \/ work' = [work EXCEPT ![w] = [@ EXCEPT !.receipt = a.outcome]] /\ UNCHANGED queue
          \/ Goto(w, "finalize_commit") /\ UNCHANGED queue
      BY <1>14 DEF FinalizeLock, a
    <2>4. work' \in [Workers -> Works] /\ queue' \in SUBSET Events
      <3>1. CASE Done(w) /\ UNCHANGED queue
        BY <1>0, <3>1, DoneType DEF TypeOK
      <3>2. CASE Raise(w)
        BY <1>0, <3>2, DoneType
      <3>3. CASE work' = [work EXCEPT ![w] = [@ EXCEPT !.receipt = a.outcome]] /\ UNCHANGED queue
        BY ZenonT(30), <1>0, <1>1, <2>2, <3>3, WorkUpdates, Names DEF TypeOK
      <3>4. CASE Goto(w, "finalize_commit") /\ UNCHANGED queue
        BY ZenonT(30), <1>0, <1>1, <3>4, WorkUpdates, Names DEF TypeOK, Goto
      <3> QED
        BY <2>3, <3>1, <3>2, <3>3, <3>4
    <2> QED
      BY <1>0, <1>14, <2>4 DEF FinalizeLock, TypeOK, database, handlers
  <1>15. ASSUME NEW w \in Workers, FinalizeCommit(w) PROVE TypeOK'
    <2> DEFINE e == work[w].event
               g == work[w].claim.gen
               r == work[w].receipt
    <2>1. e \in Events /\ g \in Gens /\ r \in Outcomes
      BY ZenonT(30), <1>0, <1>1, <1>15 DEF FinalizeCommit, WorkerInv, WorkerOK, Finalizing, HasAttempt
    <2> HIDE DEF e, g, r
    <2>2. attempt' \in [Events -> [Gens -> AttemptRows]]
      <3>1. attempt[e] \in [Gens -> AttemptRows] /\ attempt[e][g] \in AttemptRows
        BY <1>0, <2>1 DEF TypeOK
      <3>2. [attempt[e][g] EXCEPT !.stage = "completed", !.outcome = r] \in AttemptRows
        BY ZenonT(30), <2>1, <3>1 DEF AttemptRows
      <3> QED
        BY <1>0, <1>15, <2>1, <3>1, <3>2 DEF FinalizeCommit, TypeOK, e, g, r
    <2>3. event' \in [Events -> EventRows]
      <3>1. [event[e] EXCEPT !.state = r.state, !.error = r.error, !.next = r.next,
                             !.finalizedAt = r.finalizedAt, !.claim = NoClaim] \in EventRows
        <4>1. event[e] \in EventRows
          BY <1>0, <2>1 DEF TypeOK
        <4>2. r.state \in DeliveryStates /\ r.error \in ErrorCodes /\ r.next \in Time /\ r.finalizedAt \in Time
          BY <2>1 DEF Outcomes
        <4> QED
          BY ZenonT(30), <4>1, <4>2, NullTypes DEF EventRows
      <3> QED
        BY <1>0, <1>15, <2>1, <3>1 DEF FinalizeCommit, TypeOK, e, r
    <2>4. work' \in [Workers -> Works]
      BY <1>0, <1>15, DoneType DEF FinalizeCommit
    <2> QED
      BY <1>0, <1>15, <2>2, <2>3, <2>4 DEF FinalizeCommit, TypeOK, handlers
  <1>16. ASSUME NEW w \in Workers, FinalizeRefused(w) \/ LeaseLapsed(w) \/ Unavailable(w) \/ WorkerLost(w) PROVE TypeOK'
    <2>1. work' \in [Workers -> Works] /\ queue' \in SUBSET Events
      BY <1>0, <1>1, <1>16, DoneType DEF FinalizeRefused, LeaseLapsed, Unavailable, WorkerLost, TypeOK
    <2>2. faults' \in 0..MaxFaults
      BY <1>0, <1>16, EventsAssumption DEF FinalizeRefused, LeaseLapsed, Unavailable, WorkerLost, TypeOK
    <2> QED
      BY <1>0, <1>16, <2>1, <2>2 DEF FinalizeRefused, LeaseLapsed, Unavailable, WorkerLost, TypeOK, database, handlers
  <1>17. CASE Tick \/ Stall
    BY <1>0, <1>17, EventsAssumption DEF Tick, Stall, TypeOK, database, handlers
  <1>18. CASE UNCHANGED vars
    BY <1>0, <1>18 DEF vars, TypeOK
  <1> QED
    BY <1>2, <1>3, <1>4, <1>5, <1>6, <1>7, <1>8, <1>9, <1>10, <1>11, <1>12, <1>13, <1>14, <1>15,
       <1>16, <1>17, <1>18
    DEF Next, WorkerStep

-----------------------------------------------------------------------------
(* Which steps write which variables *)

LEMMA DatabaseWriters ==
    ASSUME [Next]_vars
    PROVE  \/ UNCHANGED <<event, attempt>>
           \/ \E e \in Events : Append(e)
           \/ \E w \in Workers : ClaimCommit(w) \/ BeginCommit(w) \/ FinalizeCommit(w)
  BY ZenonT(30) DEF Next, WorkerStep, vars, database, ScanPending, MessageLost, Deliver, Recover, ClaimRead, ClaimLock,
         BeginLock, CallHandler, Fence, EffectCommit, HandlerFails, HandlerReturns, InvokeUnknown,
         FinalizeRead, FinalizeLock, FinalizeRefused, LeaseLapsed, Unavailable, WorkerLost, Tick, Stall

\* The rows of an event stay consistent with each other.
LEMMA RowsStep == IInv /\ [Next]_vars => RowsInv'
  <1> SUFFICES ASSUME IInv, [Next]_vars, NEW d \in Events PROVE RowOK(d)'
    BY DEF RowsInv
  <1>0. TypeOK /\ RowOK(d) /\ RowsInv /\ WorkerInv
    BY DEF IInv, RowsInv
  <1>1. event[d] \in EventRows /\ event[d].gen \in Nat /\ \A g \in Gens : g \in Nat \ {0}
    BY <1>0, OptionsAssumption DEF TypeOK, EventRows, Gens
  <1>2. CASE event'[d] = event[d] /\ attempt'[d] = attempt[d]
    BY <1>0, <1>2 DEF RowOK, AttemptOK, NewestOK
  <1>3. ASSUME NEW e \in Events, Append(e) PROVE RowOK(d)'
    <2>1. CASE d # e
      BY <1>0, <1>2, <1>3, <2>1 DEF Append, TypeOK
    <2>2. CASE d = e
      <3>1. event[d].gen = 0 /\ event'[d].state = "pending" /\ event'[d].gen = event[d].gen /\ attempt' = attempt
        BY <1>0, <1>1, <1>3, <2>2 DEF Append, RowOK, TypeOK, EventRows
      <3> QED
        BY <1>0, <3>1 DEF RowOK, AttemptOK
    <2> QED
      BY <2>1, <2>2
  <1>4. ASSUME NEW w \in Workers, ClaimCommit(w) PROVE RowOK(d)'
    <2> DEFINE e == work[w].event
               c == work[w].claim
    <2>1. /\ e \in Events /\ c.gen \in Gens /\ c \in Claims
          /\ event[e].state \in Claimable /\ event[e].gen + 1 = c.gen
      BY <1>0, <1>4 DEF ClaimCommit, WorkerInv, WorkerOK, TypeOK, Works
    <2>2. CASE d # e
      BY <1>0, <1>2, <1>4, <2>1, <2>2 DEF ClaimCommit, TypeOK
    <2>3. CASE d = e
      <3>1. /\ event'[d].state = "claimed" /\ event'[d].gen = c.gen /\ event'[d].claim = c
            /\ \A g \in Gens : g # c.gen => attempt'[d][g] = attempt[d][g]
            /\ attempt'[d][c.gen].stage = "claimed" /\ attempt'[d][c.gen].claim = c
            /\ attempt'[d][c.gen].invokedAt = attempt[d][c.gen].invokedAt
        BY <1>0, <1>4, <2>1, <2>3 DEF ClaimCommit, TypeOK, EventRows, AttemptRows
      <3> HIDE DEF c, e
      <3>2. event[d].gen > 0 => event[d].state = "retryable" /\ attempt[d][event[d].gen].stage = "completed"
                                /\ attempt[d][event[d].gen].outcome.state = "retryable"
        BY <1>0, <1>1, <2>1, <2>3 DEF RowOK, NewestOK, Claimable
      <3>3. ASSUME NEW g \in Gens PROVE AttemptOK(d, g)'
        <4>1. CASE g # c.gen
          BY <1>0, <1>1, <2>1, <2>3, <3>1, <3>2, <4>1 DEF RowOK, AttemptOK
        <4>2. CASE g = c.gen
          BY <1>0, <1>1, <2>1, <2>3, <3>1, <4>2 DEF RowOK, AttemptOK
        <4> QED
          BY <4>1, <4>2
      <3>4. NewestOK(d)'
        BY ZenonT(30), <3>1 DEF NewestOK
      <3> QED
        BY <1>1, <2>1, <3>1, <3>3, <3>4 DEF RowOK
    <2> QED
      BY <2>2, <2>3
  <1>5. ASSUME NEW w \in Workers, BeginCommit(w) PROVE RowOK(d)'
    <2> DEFINE e == work[w].event
               g == work[w].claim.gen
    <2>1. /\ e \in Events /\ g \in Gens /\ work[w].receipt.invokedAt # NoTime
          /\ event[e].state = "claimed" /\ event[e].gen = g /\ attempt[e][g].stage = "claimed"
      BY <1>0, <1>5 DEF BeginCommit, WorkerInv, WorkerOK, HasAttempt, Matches, Holding, TypeOK, Works
    <2>2. CASE d # e
      BY <1>0, <1>2, <1>5, <2>1, <2>2 DEF BeginCommit, TypeOK
    <2>3. CASE d = e
      <3>1. /\ event' = event
            /\ \A h \in Gens : h # g => attempt'[d][h] = attempt[d][h]
            /\ attempt'[d][g].stage = "invoked" /\ attempt'[d][g].claim = attempt[d][g].claim
            /\ attempt'[d][g].invokedAt # NoTime
        BY <1>0, <1>5, <2>1, <2>3 DEF BeginCommit, TypeOK, AttemptRows
      <3> HIDE DEF e, g
      <3>2. ASSUME NEW h \in Gens PROVE AttemptOK(d, h)'
        BY <1>0, <1>1, <2>1, <2>3, <3>1 DEF RowOK, AttemptOK
      <3>3. NewestOK(d)'
        BY <1>0, <1>1, <2>1, <2>3, <3>1 DEF RowOK, NewestOK
      <3> QED
        BY <1>0, <3>1, <3>2, <3>3 DEF RowOK
    <2> QED
      BY <2>2, <2>3
  <1>6. ASSUME NEW w \in Workers, FinalizeCommit(w) PROVE RowOK(d)'
    <2> DEFINE e == work[w].event
               c == work[w].claim
               r == work[w].receipt
               a == attempt[e][c.gen]
    <2>1. /\ e \in Events /\ c.gen \in Gens /\ c \in Claims /\ r \in Outcomes /\ a \in AttemptRows
          /\ event[e].state = "claimed" /\ event[e].gen = c.gen /\ a.stage \in {"claimed", "invoked"}
          /\ OutcomeDefined(c, a.invokedAt, work[w].cause, r.completedAt)
          /\ r = Outcome(e, c, a.invokedAt, work[w].cause, r.completedAt)
      <3>1. e \in Events /\ c \in Claims /\ r \in Outcomes
        BY <1>0 DEF TypeOK, Works
      <3>2. /\ HasAttempt(e, c) /\ Matches(e, c) /\ a.stage # "completed"
            /\ OutcomeDefined(c, a.invokedAt, work[w].cause, r.completedAt)
            /\ r = Outcome(e, c, a.invokedAt, work[w].cause, r.completedAt)
        BY ZenonT(30), <1>0, <1>6 DEF FinalizeCommit, WorkerInv, WorkerOK, Finalizing
      <3>3. c.gen \in Gens /\ a.stage # "none" /\ a \in AttemptRows
        BY <1>0, <3>1, <3>2 DEF HasAttempt, TypeOK
      <3> QED
        BY ZenonT(30), <3>1, <3>2, <3>3 DEF Matches, AttemptRows
    <2>2. r.state \in {"retryable", "acknowledged", "dead_letter"}
      <3>1. a.invokedAt \in Time /\ r.completedAt \in Time
        BY ZenonT(30), <2>1 DEF AttemptRows, Outcomes
      <3> HIDE DEF e, c, r, a
      <3>2. Outcome(e, c, a.invokedAt, work[w].cause, r.completedAt).state
                \in {"retryable", "acknowledged", "dead_letter"}
        BY ZenonT(30), <2>1, <3>1, OutcomeVerdict
      <3> QED
        BY <2>1, <3>2
    <2>3. CASE d # e
      BY <1>0, <1>2, <1>6, <2>1, <2>3 DEF FinalizeCommit, TypeOK
    <2>4. CASE d = e
      <3>1. /\ event'[d].state = r.state /\ event'[d].gen = event[d].gen /\ event'[d].error = r.error
            /\ event'[d].next = r.next /\ event'[d].finalizedAt = r.finalizedAt
        BY <1>0, <1>6, <2>1, <2>4 DEF FinalizeCommit, TypeOK, EventRows
      <3>2. /\ \A h \in Gens : h # c.gen => attempt'[d][h] = attempt[d][h]
            /\ attempt'[d][c.gen] = [attempt[d][c.gen] EXCEPT !.stage = "completed", !.outcome = r]
        BY ZenonT(30), <1>0, <1>6, <2>1, <2>4 DEF FinalizeCommit, TypeOK
      <3> HIDE DEF e, c, r, a
      <3>3. /\ attempt'[d][c.gen].stage = "completed" /\ attempt'[d][c.gen].claim = attempt[d][c.gen].claim
            /\ attempt'[d][c.gen].outcome = r
        BY <2>1, <2>4, <3>2 DEF AttemptRows, a
      <3>4. ASSUME NEW h \in Gens PROVE AttemptOK(d, h)'
        <4>1. CASE h # c.gen
          BY <1>0, <3>1, <3>2, <4>1 DEF RowOK, AttemptOK
        <4>2. CASE h = c.gen
          <5>1. attempt[d][h].stage # "none" /\ event[d].gen = h
            BY <2>1, <2>4, <4>2 DEF a
          <5> QED
            BY <1>0, <1>1, <3>1, <3>3, <4>2, <5>1 DEF RowOK, AttemptOK
        <4> QED
          BY <4>1, <4>2
      <3>5. NewestOK(d)'
        BY <2>1, <2>2, <2>4, <3>1, <3>3 DEF NewestOK
      <3> QED
        BY ZenonT(30), <1>0, <1>1, <2>1, <2>2, <2>4, <3>1, <3>4, <3>5 DEF RowOK
    <2> QED
      BY <2>3, <2>4
  <1> QED
    BY <1>2, <1>3, <1>4, <1>5, <1>6, DatabaseWriters

-----------------------------------------------------------------------------
(* How a step moves one worker *)

\* Worker w goes to place p and stays with its event; no other worker moves.
Moved(w, p) ==
    /\ work'[w].at = p /\ work'[w].event = work[w].event
    /\ \A v \in Workers \ {w} : work'[v] = work[v]

KeepsClaim(w) == work'[w].claim = work[w].claim
KeepsCause(w) == work'[w].cause = work[w].cause

LEMMA DoneMoves ==
    ASSUME TypeOK, NEW w \in Workers
    PROVE  /\ Done(w) => Moved(w, "idle")
           /\ Raise(w) => Moved(w, "idle")
  BY DEF TypeOK, Done, Raise, IdleWork, Moved

LEMMA DeliverMoves ==
    ASSUME TypeOK, NEW w \in Workers, NEW e \in Events, Deliver(w, e)
    PROVE  /\ work'[w].at = "recover" /\ work'[w].event = e
           /\ \A v \in Workers \ {w} : work'[v] = work[v]
  BY DEF TypeOK, Deliver, IdleWork

\* Where each worker step leads and what it carries along.
LEMMA StepMoves ==
    ASSUME TypeOK, NEW w \in Workers
    PROVE  /\ Recover(w) =>
                \/ Moved(w, "claim_read")
                \/ /\ Moved(w, "finalize_read") /\ event[work[w].event].state = "claimed"
                   /\ work'[w].claim = event[work[w].event].claim /\ work'[w].cause = "expired"
           /\ ClaimRead(w) =>
                \/ Moved(w, "idle")
                \/ /\ Moved(w, "claim_lock") /\ event[work[w].event].gen < MaxAttempts
                   /\ work'[w].claim.gen = event[work[w].event].gen + 1 /\ work'[w].claim.owner = w
           /\ ClaimLock(w) =>
                \/ Moved(w, "idle")
                \/ /\ Moved(w, "claim_commit") /\ KeepsClaim(w) /\ ~Locked(work[w].event)
                   /\ ClaimAdmitted(work[w].event, work[w].claim)
           /\ ClaimCommit(w) => Moved(w, "begin_lock") /\ KeepsClaim(w)
           /\ BeginLock(w) =>
                \/ Moved(w, "idle")
                \/ /\ Moved(w, "begin_commit") /\ KeepsClaim(w) /\ ~Locked(work[w].event)
                   /\ BeginAdmitted(work[w].event, work[w].claim) /\ work'[w].receipt.invokedAt = now
           /\ BeginCommit(w) => Moved(w, "call") /\ KeepsClaim(w)
           /\ CallHandler(w) => Moved(w, "invoke") /\ KeepsClaim(w)
           /\ InvokeUnknown(w) => Moved(w, "finalize_read") /\ KeepsClaim(w) /\ work'[w].cause = "unknown"
           /\ \A v : HandlerReturns(w, v) => Moved(w, "finalize_read") /\ KeepsClaim(w) /\ work'[w].cause = v
           /\ FinalizeRead(w) => \/ Moved(w, "idle")
                                 \/ Moved(w, "finalize_lock") /\ KeepsClaim(w) /\ KeepsCause(w)
           /\ FinalizeLock(w) =>
                \/ Moved(w, "idle")
                \/ Moved(w, "finalize_lock") /\ KeepsClaim(w) /\ KeepsCause(w)
                \/ /\ Moved(w, "finalize_commit") /\ KeepsClaim(w) /\ KeepsCause(w) /\ ~Locked(work[w].event)
                   /\ work'[w].receipt = work[w].receipt
                   /\ attempt[work[w].event][work[w].claim.gen].stage # "completed"
                   /\ FinalizeAdmitted(work[w].event, work[w].claim, work[w].cause, work[w].receipt)
  <1>1. work \in [Workers -> Works] /\ work[w] \in Works /\ work[w].receipt \in Outcomes
    BY DEF TypeOK, Works
  \* After the update of w's record, w has the new record and the others theirs.
  <1>2. ASSUME NEW x, work' = [work EXCEPT ![w] = x]
        PROVE  work'[w] = x /\ \A v \in Workers \ {w} : work'[v] = work[v]
    BY <1>1, <1>2
  <1>3. Recover(w) => \/ Moved(w, "claim_read")
                      \/ /\ Moved(w, "finalize_read") /\ event[work[w].event].state = "claimed"
                         /\ work'[w].claim = event[work[w].event].claim /\ work'[w].cause = "expired"
    <2> DEFINE x == [work[w] EXCEPT !.at = "claim_read"]
               y == [work[w] EXCEPT !.at = "finalize_read", !.claim = event[work[w].event].claim, !.cause = "expired"]
    <2>1. /\ x.at = "claim_read" /\ x.event = work[w].event
          /\ y.at = "finalize_read" /\ y.event = work[w].event /\ y.cause = "expired"
          /\ y.claim = event[work[w].event].claim
      BY <1>1 DEF Works
    <2>2. Recover(w) => \/ work' = [work EXCEPT ![w] = x]
                        \/ work' = [work EXCEPT ![w] = y] /\ event[work[w].event].state = "claimed"
      BY DEF Recover, Goto
    <2> HIDE DEF x, y
    <2> QED
      BY <1>2, <2>1, <2>2 DEF Moved
  <1>4. ClaimRead(w) => \/ Moved(w, "idle")
                        \/ /\ Moved(w, "claim_lock") /\ event[work[w].event].gen < MaxAttempts
                           /\ work'[w].claim.gen = event[work[w].event].gen + 1 /\ work'[w].claim.owner = w
    <2> DEFINE c == [gen |-> event[work[w].event].gen + 1, owner |-> w,
                     claimedAt |-> now, expiresAt |-> now + Lease]
               x == [work[w] EXCEPT !.at = "claim_lock", !.claim = c]
    <2>1. x.at = "claim_lock" /\ x.event = work[w].event /\ x.claim = c
      BY <1>1 DEF Works
    <2>2. c.gen = event[work[w].event].gen + 1 /\ c.owner = w
      OBVIOUS
    <2>3. ClaimRead(w) => \/ Done(w)
                          \/ work' = [work EXCEPT ![w] = x] /\ event[work[w].event].gen < MaxAttempts
      BY DEF ClaimRead
    <2> HIDE DEF x, c
    <2> QED
      BY <1>2, <2>1, <2>2, <2>3, DoneMoves DEF Moved
  <1>5. ASSUME NEW p PROVE Goto(w, p) => Moved(w, p) /\ KeepsClaim(w) /\ KeepsCause(w) /\ work'[w].receipt = work[w].receipt
    <2> DEFINE x == [work[w] EXCEPT !.at = p]
    <2>1. x.at = p /\ x.event = work[w].event /\ x.claim = work[w].claim /\ x.cause = work[w].cause
          /\ x.receipt = work[w].receipt
      BY <1>1 DEF Works
    <2>2. Goto(w, p) => work' = [work EXCEPT ![w] = x]
      BY DEF Goto
    <2> HIDE DEF x
    <2> QED
      BY <1>2, <2>1, <2>2 DEF Moved, KeepsClaim, KeepsCause
  <1>6. ClaimLock(w) => \/ Moved(w, "idle")
                        \/ /\ Moved(w, "claim_commit") /\ KeepsClaim(w) /\ ~Locked(work[w].event)
                           /\ ClaimAdmitted(work[w].event, work[w].claim)
    BY <1>5, DoneMoves DEF ClaimLock
  <1>7. ClaimCommit(w) => Moved(w, "begin_lock") /\ KeepsClaim(w)
    BY <1>5 DEF ClaimCommit
  <1>8. BeginLock(w) => \/ Moved(w, "idle")
                        \/ /\ Moved(w, "begin_commit") /\ KeepsClaim(w) /\ ~Locked(work[w].event)
                           /\ BeginAdmitted(work[w].event, work[w].claim) /\ work'[w].receipt.invokedAt = now
    <2> DEFINE r == [work[w].receipt EXCEPT !.invokedAt = now]
               x == [work[w] EXCEPT !.at = "begin_commit", !.receipt = r]
    <2>1. r.invokedAt = now
      BY <1>1 DEF Outcomes
    <2>2. BeginLock(w) => \/ Done(w)
                          \/ /\ work' = [work EXCEPT ![w] = x] /\ ~Locked(work[w].event)
                             /\ BeginAdmitted(work[w].event, work[w].claim)
      BY DEF BeginLock
    <2> HIDE DEF r
    <2>3. x.at = "begin_commit" /\ x.event = work[w].event /\ x.claim = work[w].claim /\ x.receipt = r
      BY <1>1 DEF Works
    <2> HIDE DEF x
    <2> QED
      BY <1>2, <2>1, <2>2, <2>3, DoneMoves DEF Moved, KeepsClaim
  <1>9. BeginCommit(w) => Moved(w, "call") /\ KeepsClaim(w)
    BY <1>5 DEF BeginCommit
  <1>10. CallHandler(w) => Moved(w, "invoke") /\ KeepsClaim(w)
    <2> DEFINE x == [work[w] EXCEPT !.at = "invoke", !.deadline = now + HandlerTimeout]
    <2>1. x.at = "invoke" /\ x.event = work[w].event /\ x.claim = work[w].claim
      BY <1>1 DEF Works
    <2>2. CallHandler(w) => work' = [work EXCEPT ![w] = x]
      BY DEF CallHandler
    <2> HIDE DEF x
    <2> QED
      BY <1>2, <2>1, <2>2 DEF Moved, KeepsClaim
  <1>11. ASSUME NEW k
         PROVE  work' = [work EXCEPT ![w] = [@ EXCEPT !.at = "finalize_read", !.cause = k]]
                    => Moved(w, "finalize_read") /\ KeepsClaim(w) /\ work'[w].cause = k
    <2> DEFINE x == [work[w] EXCEPT !.at = "finalize_read", !.cause = k]
    <2>1. x.at = "finalize_read" /\ x.event = work[w].event /\ x.claim = work[w].claim /\ x.cause = k
      BY <1>1 DEF Works
    <2>2. work' = [work EXCEPT ![w] = [@ EXCEPT !.at = "finalize_read", !.cause = k]]
            => work' = [work EXCEPT ![w] = x]
      OBVIOUS
    <2> HIDE DEF x
    <2> QED
      BY ZenonT(30), <1>2, <2>1, <2>2 DEF Moved, KeepsClaim
  <1>12. /\ InvokeUnknown(w) => Moved(w, "finalize_read") /\ KeepsClaim(w) /\ work'[w].cause = "unknown"
         /\ \A v : HandlerReturns(w, v) => Moved(w, "finalize_read") /\ KeepsClaim(w) /\ work'[w].cause = v
    BY ZenonT(30), <1>11 DEF InvokeUnknown, HandlerReturns
  <1>13. FinalizeRead(w) => \/ Moved(w, "idle")
                            \/ Moved(w, "finalize_lock") /\ KeepsClaim(w) /\ KeepsCause(w)
    <2>1. ASSUME NEW r, work' = [work EXCEPT ![w] = [@ EXCEPT !.at = "finalize_lock", !.receipt = r]]
          PROVE  Moved(w, "finalize_lock") /\ KeepsClaim(w) /\ KeepsCause(w)
      <3> DEFINE x == [work[w] EXCEPT !.at = "finalize_lock", !.receipt = r]
      <3>1. x.at = "finalize_lock" /\ x.event = work[w].event /\ x.claim = work[w].claim /\ x.cause = work[w].cause
        BY <1>1 DEF Works
      <3>2. work' = [work EXCEPT ![w] = x]
        BY ZenonT(30), <2>1
      <3> HIDE DEF x
      <3> QED
        BY ZenonT(30), <1>2, <3>1, <3>2 DEF Moved, KeepsClaim, KeepsCause
    <2> QED
      BY ZenonT(30), <2>1, DoneMoves DEF FinalizeRead
  <1>14. FinalizeLock(w) =>
                \/ Moved(w, "idle")
                \/ Moved(w, "finalize_lock") /\ KeepsClaim(w) /\ KeepsCause(w)
                \/ /\ Moved(w, "finalize_commit") /\ KeepsClaim(w) /\ KeepsCause(w) /\ ~Locked(work[w].event)
                   /\ work'[w].receipt = work[w].receipt
                   /\ attempt[work[w].event][work[w].claim.gen].stage # "completed"
                   /\ FinalizeAdmitted(work[w].event, work[w].claim, work[w].cause, work[w].receipt)
    <2>1. ASSUME NEW r, work[w].at = "finalize_lock", work' = [work EXCEPT ![w] = [@ EXCEPT !.receipt = r]]
          PROVE  Moved(w, "finalize_lock") /\ KeepsClaim(w) /\ KeepsCause(w)
      <3> DEFINE x == [work[w] EXCEPT !.receipt = r]
      <3>1. x.at = "finalize_lock" /\ x.event = work[w].event /\ x.claim = work[w].claim /\ x.cause = work[w].cause
        BY <1>1, <2>1 DEF Works
      <3>2. work' = [work EXCEPT ![w] = x]
        BY <2>1
      <3> HIDE DEF x
      <3> QED
        BY ZenonT(30), <1>2, <3>1, <3>2 DEF Moved, KeepsClaim, KeepsCause
    <2> QED
      BY <1>5, <2>1, DoneMoves DEF FinalizeLock
  <1> QED
    BY <1>3, <1>4, <1>6, <1>7, <1>8, <1>9, <1>10, <1>12, <1>13, <1>14
-----------------------------------------------------------------------------
(* Locks *)

\* Every step either takes a free row lock, keeps or releases its own, or
\* touches none.
LEMMA LockStep == IInv /\ [Next]_vars => LockInv'
  <1> SUFFICES ASSUME IInv, [Next]_vars PROVE LockInv'
    OBVIOUS
  <1>0. TypeOK /\ LockInv /\ WorkerInv
    BY DEF IInv
  <1>1. ASSUME NEW w \in Workers, NEW p, Moved(w, p), handler' = handler,
               p \notin LockedPlaces \/ ~Locked(work[w].event)
        PROVE  LockInv'
    BY <1>0, <1>1 DEF LockInv, Locked, Moved
  <1>2. CASE UNCHANGED <<work, handler>>
    BY <1>0, <1>2 DEF LockInv
  <1>3. ASSUME NEW w \in Workers, NEW e \in Events, Deliver(w, e) PROVE LockInv'
    BY <1>0, <1>3, DeliverMoves DEF LockInv, Deliver, LockedPlaces, handlers
  <1>4. ASSUME NEW w \in Workers,
               \/ Recover(w) \/ ClaimRead(w) \/ ClaimLock(w) \/ ClaimCommit(w) \/ BeginLock(w)
               \/ BeginCommit(w) \/ InvokeUnknown(w) \/ FinalizeRead(w) \/ FinalizeLock(w)
        PROVE  LockInv'
    <2>1. handler' = handler
      BY ZenonT(30), <1>4 DEF Recover, ClaimRead, ClaimLock, ClaimCommit, BeginLock, BeginCommit, InvokeUnknown,
                  FinalizeRead, FinalizeLock, handlers
    <2>2. \E p : Moved(w, p) /\ (p \notin LockedPlaces \/ ~Locked(work[w].event))
      BY <1>0, <1>4, StepMoves DEF LockedPlaces
    <2> QED
      BY <1>1, <2>1, <2>2
  <1>5. ASSUME NEW w \in Workers, FinalizeCommit(w) \/ FinalizeRefused(w) \/ LeaseLapsed(w) \/ Unavailable(w) \/ WorkerLost(w)
        PROVE  LockInv'
    <2>1. handler' = handler /\ Moved(w, "idle")
      BY <1>0, <1>5, DoneMoves DEF FinalizeCommit, FinalizeRefused, LeaseLapsed, Unavailable, WorkerLost, handlers
    <2> QED
      BY <1>1, <2>1 DEF LockedPlaces
  <1>6. ASSUME NEW w \in Workers, NEW k,
               handler' = [handler EXCEPT ![work[w].event][work[w].claim.gen] = k], k # "fenced",
               NEW p, Moved(w, p), p \notin LockedPlaces
        PROVE  LockInv'
    <2>1. \A e \in Events, g \in Gens : handler'[e][g] = "fenced" => handler[e][g] = "fenced"
      BY <1>0, <1>6 DEF TypeOK
    <2>2. \A v \in Workers : work[v].event \in Events
      BY <1>0 DEF TypeOK, Works
    <2> QED
      BY <1>0, <1>6, <2>1, <2>2 DEF LockInv, Moved
  <1>7. ASSUME NEW w \in Workers, CallHandler(w) \/ \E v \in HandlerOutcomes : HandlerReturns(w, v) PROVE LockInv'
    <2>1. CASE CallHandler(w)
      BY ZenonT(30), <1>0, <1>6, <2>1, StepMoves DEF CallHandler, LockedPlaces
    <2>2. ASSUME NEW v \in HandlerOutcomes, HandlerReturns(w, v) PROVE LockInv'
      BY ZenonT(30), <1>0, <1>6, <2>2, StepMoves DEF HandlerReturns, LockedPlaces
    <2> QED
      BY <1>7, <2>1, <2>2
  <1>8. ASSUME NEW e \in Events, NEW g \in Gens, Fence(e, g) PROVE LockInv'
    <2>1. \A d \in Events, h \in Gens : handler'[d][h] = "fenced" => handler[d][h] = "fenced" \/ d = e
      BY <1>0, <1>8 DEF Fence, TypeOK
    <2>2. \A v \in Workers : work[v].event \in Events
      BY <1>0 DEF TypeOK, Works
    <2> QED
      BY <1>0, <1>8, <2>1, <2>2 DEF LockInv, Fence, Locked
  <1>9. ASSUME NEW e \in Events, NEW g \in Gens, EffectCommit(e, g) \/ HandlerFails(e, g) PROVE LockInv'
    <2>1. \A d \in Events, h \in Gens : handler'[d][h] = "fenced" => handler[d][h] = "fenced"
      BY SMTT(30), <1>0, <1>9 DEF EffectCommit, HandlerFails, TypeOK
    <2>2. \A v \in Workers : work[v].event \in Events
      BY <1>0 DEF TypeOK, Works
    <2> QED
      BY <1>0, <1>9, <2>1, <2>2 DEF LockInv, EffectCommit, HandlerFails
  <1>10. ASSUME NEW e \in Events, Append(e) \/ ScanPending(e) \/ MessageLost(e) PROVE LockInv'
    BY <1>2, <1>10 DEF Append, ScanPending, MessageLost, handlers
  <1>11. CASE Tick \/ Stall
    BY <1>2, <1>11 DEF Tick, Stall, handlers
  <1>12. CASE UNCHANGED vars
    BY <1>2, <1>12 DEF vars
  <1> QED
    BY <1>3, <1>4, <1>5, <1>7, <1>8, <1>9, <1>10, <1>11, <1>12 DEF Next, WorkerStep
-----------------------------------------------------------------------------
(* Handler calls and their traces *)

LEMMA HandlerWriters ==
    ASSUME [Next]_vars
    PROVE  \/ UNCHANGED <<handler, effects, verdict, calls>>
           \/ \E w \in Workers : CallHandler(w) \/ \E v \in HandlerOutcomes : HandlerReturns(w, v)
           \/ \E e \in Events, g \in Gens : Fence(e, g) \/ EffectCommit(e, g) \/ HandlerFails(e, g)
  <1> DEFINE Same == UNCHANGED <<handler, effects, verdict, calls>>
  <1>1. ASSUME NEW e \in Events, Append(e) \/ ScanPending(e) \/ MessageLost(e) PROVE Same
    BY <1>1 DEF Append, ScanPending, MessageLost, handlers
  <1>2. ASSUME NEW w \in Workers, NEW e \in Events, Deliver(w, e) PROVE Same
    BY <1>2 DEF Deliver, handlers
  <1>3. ASSUME NEW w \in Workers, Recover(w) \/ ClaimRead(w) \/ ClaimLock(w) \/ ClaimCommit(w) PROVE Same
    BY <1>3 DEF Recover, ClaimRead, ClaimLock, ClaimCommit, handlers
  <1>4. ASSUME NEW w \in Workers, BeginLock(w) \/ BeginCommit(w) \/ InvokeUnknown(w) PROVE Same
    BY <1>4 DEF BeginLock, BeginCommit, InvokeUnknown, handlers
  <1>5. ASSUME NEW w \in Workers,
               FinalizeRead(w) \/ FinalizeLock(w) \/ FinalizeCommit(w) \/ FinalizeRefused(w) \/ LeaseLapsed(w)
        PROVE  Same
    BY ZenonT(30), <1>5 DEF FinalizeRead, FinalizeLock, FinalizeCommit, FinalizeRefused, LeaseLapsed, handlers
  <1>6. ASSUME NEW w \in Workers, Unavailable(w) \/ WorkerLost(w) PROVE Same
    BY <1>6 DEF Unavailable, WorkerLost, handlers
  <1>7. CASE Tick \/ Stall \/ UNCHANGED vars
    BY <1>7 DEF Tick, Stall, vars, handlers
  <1> HIDE DEF Same
  <1>8. Same => UNCHANGED <<handler, effects, verdict, calls>>
    BY ZenonT(30) DEF Same
  <1> QED
    BY <1>1, <1>2, <1>3, <1>4, <1>5, <1>6, <1>7, <1>8 DEF Next, WorkerStep

\* What is known when a finalization commits: the row is this worker's claim,
\* the proposal is the outcome of the locked attempt, and nobody is in the fence.
LEMMA FinalizeFacts ==
    ASSUME IInv, NEW w \in Workers, FinalizeCommit(w)
    PROVE  LET e == work[w].event
               c == work[w].claim
               r == work[w].receipt
               a == attempt[e][c.gen] IN
           /\ e \in Events /\ c \in Claims /\ c.gen \in Gens /\ r \in Outcomes /\ a \in AttemptRows
           /\ event[e].state = "claimed" /\ event[e].gen = c.gen /\ event[e].claim = c /\ a.claim = c
           /\ a.stage \in {"claimed", "invoked"}
           /\ r.state \in {"retryable", "acknowledged", "dead_letter"}
           /\ r.state = "acknowledged" =>
                verdict[e][c.gen] = "acknowledge" /\ a.invokedAt # NoTime /\ r.finalizedAt < c.expiresAt
           /\ r.state = "retryable" => c.gen < MaxAttempts
           /\ r.state = "retryable" /\ a.invokedAt # NoTime /\ e \notin ReplaySafe => verdict[e][c.gen] = "retry"
           /\ \A h \in Gens : handler[e][h] # "fenced"
  <1> DEFINE e == work[w].event
             c == work[w].claim
             r == work[w].receipt
             a == attempt[e][c.gen]
             k == work[w].cause
  <1>0. TypeOK /\ WorkerOK(w) /\ LockInv /\ work[w].at = "finalize_commit"
    BY DEF IInv, WorkerInv, FinalizeCommit
  <1>1. e \in Events /\ c \in Claims /\ r \in Outcomes
    BY ZenonT(30), <1>0 DEF TypeOK, Works
  <1>2. /\ HasAttempt(e, c) /\ Matches(e, c) /\ a.stage # "completed"
        /\ OutcomeDefined(c, a.invokedAt, k, r.completedAt)
        /\ r = Outcome(e, c, a.invokedAt, k, r.completedAt)
        /\ k \in HandlerOutcomes => verdict[e][c.gen] = k
    BY ZenonT(30), <1>0 DEF WorkerOK, Finalizing
  <1>3. c.gen \in Gens /\ a.stage # "none" /\ a \in AttemptRows /\ a.claim = c
    BY <1>0, <1>1, <1>2 DEF HasAttempt, TypeOK
  <1>4. a.invokedAt \in Time /\ r.completedAt \in Time /\ a.stage \in {"claimed", "invoked"}
    BY ZenonT(30), <1>1, <1>2, <1>3 DEF AttemptRows, Outcomes
  <1>5. \A h \in Gens : handler[e][h] # "fenced"
    BY ZenonT(30), <1>0 DEF LockInv, LockedPlaces
  <1>6. event[e].state = "claimed" /\ event[e].gen = c.gen /\ event[e].claim = c
    BY <1>2 DEF Matches
  <1> HIDE DEF e, c, r, a, k
  <1> DEFINE o == Outcome(e, c, a.invokedAt, k, r.completedAt)
  <1>7. /\ o.state \in {"retryable", "acknowledged", "dead_letter"}
        /\ o.state = "acknowledged" => k = "acknowledge" /\ a.invokedAt # NoTime /\ o.finalizedAt < c.expiresAt
        /\ o.state = "retryable" => c.gen < MaxAttempts
        /\ o.state = "retryable" /\ a.invokedAt # NoTime => e \in ReplaySafe \/ k = "retry"
    BY ZenonT(30), <1>1, <1>2, <1>3, <1>4, OutcomeVerdict
  <1> HIDE DEF o
  <1>8. r = o
    BY <1>2 DEF o
  <1>9. /\ r.state \in {"retryable", "acknowledged", "dead_letter"}
        /\ r.state = "acknowledged" => verdict[e][c.gen] = "acknowledge" /\ a.invokedAt # NoTime /\ r.finalizedAt < c.expiresAt
        /\ r.state = "retryable" => c.gen < MaxAttempts
        /\ r.state = "retryable" /\ a.invokedAt # NoTime /\ e \notin ReplaySafe => verdict[e][c.gen] = "retry"
    BY <1>2, <1>7, <1>8 DEF HandlerOutcomes
  <1> QED
    BY <1>1, <1>3, <1>4, <1>5, <1>6, <1>9 DEF e, c, r, a

LEMMA HistoryStep == IInv /\ [Next]_vars => HistoryInv'
  <1> SUFFICES ASSUME IInv, [Next]_vars, NEW d \in Events, NEW h \in Gens PROVE HistoryOK(d, h)'
    BY DEF HistoryInv
  <1>0. TypeOK /\ HistoryOK(d, h) /\ HistoryInv /\ RowOK(d) /\ WorkerInv /\ LockInv
    BY DEF IInv, HistoryInv, RowsInv
  <1>1. calls[d][h] \in Nat /\ attempt[d][h] \in AttemptRows
    BY <1>0 DEF TypeOK
  <1>past. /\ calls[d][h] = 0 <=> handler[d][h] = "none"
           /\ calls[d][h] > 0 => attempt[d][h].stage \in {"invoked", "completed"}
           /\ verdict[d][h] # "none" => handler[d][h] = "ended"
           /\ h \in effects[d] => calls[d][h] > 0
    BY ZenonT(30), <1>0 DEF HistoryOK
  <1>count. calls[d][h] = 0 <=> ~(calls[d][h] > 0)
    BY <1>1
  <1>idle. calls[d][h] = 0 => handler[d][h] = "none" /\ verdict[d][h] = "none" /\ h \notin effects[d]
    BY ZenonT(30), <1>past, <1>count
  <1>unreached. attempt[d][h].stage \in {"none", "claimed"} => calls[d][h] = 0
    BY ZenonT(30), <1>past, <1>count
  <1>2. CASE /\ UNCHANGED <<handler, effects, verdict, calls>> /\ attempt'[d][h] = attempt[d][h]
             /\ event'[d] = event[d] \/ handler[d][h] # "fenced"
    BY <1>0, <1>2 DEF HistoryOK
  <1>3. ASSUME NEW e \in Events, Append(e) PROVE HistoryOK(d, h)'
    <2>1. event'[d] = event[d] \/ handler[d][h] # "fenced"
      BY <1>0, <1>3 DEF Append, HistoryOK, TypeOK
    <2> QED
      BY <1>2, <1>3, <2>1 DEF Append, handlers
  <1>4. ASSUME NEW w \in Workers, ClaimCommit(w) PROVE HistoryOK(d, h)'
    <2> DEFINE e == work[w].event
               c == work[w].claim
    <2>1. /\ e \in Events /\ c.gen \in Gens
          /\ event[e].state \in Claimable /\ event[e].gen + 1 = c.gen
      BY <1>0, <1>4 DEF ClaimCommit, WorkerInv, WorkerOK, TypeOK, Works
    <2>2. d = e => handler[d][h] # "fenced"
      BY <1>0, <2>1 DEF HistoryOK, Claimable
    <2>3. CASE d # e \/ h # c.gen
      <3>1. attempt'[d][h] = attempt[d][h] /\ (d # e => event'[d] = event[d])
        BY <1>0, <1>4, <2>1, <2>3 DEF ClaimCommit, TypeOK
      <3> QED
        BY <1>2, <1>4, <2>2, <3>1 DEF ClaimCommit, handlers
    <2>4. CASE d = e /\ h = c.gen
      <3>1. attempt[d][h].stage = "none"
        <4>1. event[d].gen \in Int /\ h \in Int
          BY <1>0, <2>4, OptionsAssumption DEF TypeOK, EventRows, Gens
        <4> QED
          BY <1>0, <2>1, <2>4, <4>1 DEF RowOK, AttemptOK
      <3>2. calls[d][h] = 0 /\ handler[d][h] = "none" /\ verdict[d][h] = "none" /\ h \notin effects[d]
        BY ZenonT(30), <1>idle, <1>unreached, <3>1
      <3>3. attempt'[d][h].stage = "claimed"
        BY <1>0, <1>1, <1>4, <2>1, <2>4 DEF ClaimCommit, TypeOK, AttemptRows
      <3>4. UNCHANGED <<handler, effects, verdict, calls>>
        BY <1>4 DEF ClaimCommit, handlers
      <3> QED
        BY <3>2, <3>3, <3>4 DEF HistoryOK
    <2> QED
      BY <2>3, <2>4
  <1>5. ASSUME NEW w \in Workers, BeginCommit(w) PROVE HistoryOK(d, h)'
    <2> DEFINE e == work[w].event
               g == work[w].claim.gen
    <2>1. /\ e \in Events /\ g \in Gens /\ work[w].receipt.invokedAt # NoTime
          /\ attempt[e][g].stage = "claimed"
      BY ZenonT(30), <1>0, <1>5 DEF BeginCommit, WorkerInv, WorkerOK, HasAttempt, Holding, TypeOK, Works
    <2>2. CASE d # e \/ h # g
      <3>1. attempt'[d][h] = attempt[d][h] /\ event' = event
        BY <1>0, <1>5, <2>1, <2>2 DEF BeginCommit, TypeOK
      <3> QED
        BY <1>2, <1>5, <3>1 DEF BeginCommit, handlers
    <2>3. CASE d = e /\ h = g
      <3>1. calls[d][h] = 0 /\ handler[d][h] = "none" /\ verdict[d][h] = "none" /\ h \notin effects[d]
        BY ZenonT(30), <1>idle, <1>unreached, <2>1, <2>3
      <3>2. attempt'[d][h].stage = "invoked"
        BY <1>0, <1>1, <1>5, <2>1, <2>3 DEF BeginCommit, TypeOK, AttemptRows
      <3>3. UNCHANGED <<handler, effects, verdict, calls>>
        BY ZenonT(30), <1>5 DEF BeginCommit, handlers
      <3> QED
        BY <3>1, <3>2, <3>3 DEF HistoryOK
    <2> QED
      BY <2>2, <2>3
  <1>6. ASSUME NEW w \in Workers, FinalizeCommit(w) PROVE HistoryOK(d, h)'
    <2> DEFINE e == work[w].event
               c == work[w].claim
               r == work[w].receipt
               a == attempt[e][c.gen]
    <2>1. /\ e \in Events /\ c \in Claims /\ c.gen \in Gens /\ r \in Outcomes /\ a \in AttemptRows /\ a.claim = c
          /\ r.state = "acknowledged" => verdict[e][c.gen] = "acknowledge" /\ r.finalizedAt < c.expiresAt
          /\ r.state = "retryable" /\ a.invokedAt # NoTime /\ e \notin ReplaySafe => verdict[e][c.gen] = "retry"
          /\ handler[e][h] # "fenced"
      BY ZenonT(30), <1>6, FinalizeFacts
    <2>2. CASE d # e \/ h # c.gen
      <3>1. attempt'[d][h] = attempt[d][h] /\ (d # e => event'[d] = event[d])
        BY <1>0, <1>6, <2>1, <2>2 DEF FinalizeCommit, TypeOK
      <3> QED
        BY <1>2, <1>6, <2>1, <3>1 DEF FinalizeCommit, handlers
    <2>3. CASE d = e /\ h = c.gen
      <3>1. attempt'[d][h] = [attempt[d][h] EXCEPT !.stage = "completed", !.outcome = r]
        BY ZenonT(30), <1>0, <1>6, <2>1, <2>3 DEF FinalizeCommit, TypeOK
      <3> HIDE DEF r
      <3>2. /\ attempt'[d][h].stage = "completed" /\ attempt'[d][h].outcome = r
            /\ attempt'[d][h].claim = a.claim /\ attempt'[d][h].invokedAt = a.invokedAt
        BY <1>1, <2>3, <3>1 DEF AttemptRows
      <3>3. UNCHANGED <<handler, effects, verdict, calls>>
        BY <1>6 DEF FinalizeCommit, handlers
      <3>4. attempt[d][h] = a
        BY <2>3
      <3> HIDE DEF e, c, a
      <3> QED
        BY <1>0, <1>1, <2>1, <2>3, <3>2, <3>3, <3>4 DEF HistoryOK
    <2> QED
      BY <2>2, <2>3
  <1>7. CASE UNCHANGED <<handler, effects, verdict, calls>>
    BY <1>2, <1>3, <1>4, <1>5, <1>6, <1>7, DatabaseWriters
  <1>8. ASSUME NEW w \in Workers, CallHandler(w) PROVE HistoryOK(d, h)'
    <2> DEFINE e == work[w].event
               g == work[w].claim.gen
    <2>1. /\ e \in Events /\ g \in Gens
          /\ attempt[e][g].stage \in {"invoked", "completed"} /\ attempt[e][g].invokedAt # NoTime
          /\ calls[e][g] = 0
      BY ZenonT(30), <1>0, <1>8 DEF CallHandler, WorkerInv, WorkerOK, HasAttempt, Holding, TypeOK, Works
    <2>2. UNCHANGED <<event, attempt, effects, verdict>>
      BY <1>8 DEF CallHandler, database
    <2>3. CASE d # e \/ h # g
      <3>1. handler'[d][h] = handler[d][h] /\ calls'[d][h] = calls[d][h]
        BY <1>0, <1>8, <2>1, <2>3 DEF CallHandler, TypeOK
      <3> QED
        BY <1>0, <2>2, <3>1 DEF HistoryOK
    <2>4. CASE d = e /\ h = g
      <3>1. handler'[d][h] = "running" /\ calls'[d][h] = 1
        BY <1>0, <1>8, <2>1, <2>4 DEF CallHandler, TypeOK
      <3>2. verdict[d][h] = "none" /\ h \notin effects[d]
            /\ attempt[d][h].stage \in {"invoked", "completed"} /\ attempt[d][h].invokedAt # NoTime
        BY ZenonT(30), <1>idle, <2>1, <2>4
      <3> QED
        BY <1>0, <2>2, <3>1, <3>2 DEF HistoryOK
    <2> QED
      BY <2>3, <2>4
  <1>9. ASSUME NEW w \in Workers, NEW v \in HandlerOutcomes, HandlerReturns(w, v) PROVE HistoryOK(d, h)'
    <2> DEFINE e == work[w].event
               g == work[w].claim.gen
    <2>1. e \in Events /\ g \in Gens /\ verdict[e][g] = "none" /\ handler[e][g] = "running"
      BY <1>0, <1>9 DEF HandlerReturns, WorkerInv, WorkerOK, HasAttempt, Holding, TypeOK, Works
    <2>2. UNCHANGED <<event, attempt, effects, calls>>
      BY <1>9 DEF HandlerReturns, database
    <2>3. CASE d # e \/ h # g
      <3>1. handler'[d][h] = handler[d][h] /\ verdict'[d][h] = verdict[d][h]
        BY <1>0, <1>9, <2>1, <2>3 DEF HandlerReturns, TypeOK
      <3> QED
        BY <1>0, <2>2, <3>1 DEF HistoryOK
    <2>4. CASE d = e /\ h = g
      <3>1. handler'[d][h] = "ended" /\ verdict'[d][h] = v /\ (v = "retry" => h \notin effects[d])
        BY SMTT(30), <1>0, <1>9, <2>1, <2>4 DEF HandlerReturns, TypeOK
      <3>2. calls[d][h] > 0 /\ handler[d][h] = "running" /\ verdict[d][h] = "none"
        <4>1. handler[d][h] = "running" /\ verdict[d][h] = "none"
          BY ZenonT(30), <2>1, <2>4
        <4> QED
          BY ZenonT(30), <1>past, <1>count, <4>1
      <3> QED
        BY <1>0, <1>1, <2>2, <3>1, <3>2 DEF HistoryOK
    <2> QED
      BY <2>3, <2>4
  <1>10. ASSUME NEW e \in Events, NEW g \in Gens, Fence(e, g) PROVE HistoryOK(d, h)'
    <2>1. UNCHANGED <<event, attempt, effects, verdict, calls>>
      BY <1>10 DEF Fence, database
    <2>2. handler'[d][h] = handler[d][h]
          \/ /\ handler[d][h] = "running" /\ handler'[d][h] = "fenced"
             /\ event[d].state = "claimed" /\ event[d].gen = h /\ attempt[d][h].stage = "invoked"
      BY <1>0, <1>10 DEF Fence, TypeOK
    <2> QED
      BY <1>0, <1>1, <2>1, <2>2 DEF HistoryOK
  <1>11. ASSUME NEW e \in Events, NEW g \in Gens, EffectCommit(e, g) PROVE HistoryOK(d, h)'
    <2>1. UNCHANGED <<event, attempt, verdict, calls>>
      BY <1>11 DEF EffectCommit, database
    <2>2. \/ handler'[d][h] = handler[d][h] /\ (h \in effects'[d] => h \in effects[d])
          \/ handler[d][h] = "fenced" /\ handler'[d][h] = "running"
      BY <1>0, <1>11 DEF EffectCommit, TypeOK
    <2> QED
      BY <1>0, <1>1, <2>1, <2>2 DEF HistoryOK
  <1>12. ASSUME NEW e \in Events, NEW g \in Gens, HandlerFails(e, g) PROVE HistoryOK(d, h)'
    <2>1. UNCHANGED <<event, attempt, effects, verdict, calls>>
      BY <1>12 DEF HandlerFails, database
    <2>2. handler'[d][h] = handler[d][h] \/ (handler[d][h] \in {"running", "fenced"} /\ handler'[d][h] = "ended")
      BY ZenonT(30), <1>0, <1>12 DEF HandlerFails, TypeOK
    <2> QED
      BY <1>0, <1>1, <2>1, <2>2 DEF HistoryOK
  <1> QED
    BY <1>7, <1>8, <1>9, <1>10, <1>11, <1>12, HandlerWriters
-----------------------------------------------------------------------------
(* Private claims and proposals *)

\* An attempt row only moves forward: its claim stays, and so does the recorded
\* invocation time once it is there.
Forward(e, g) ==
    attempt[e][g].stage # "none" =>
        /\ attempt'[e][g].stage # "none" /\ attempt'[e][g].claim = attempt[e][g].claim
        /\ attempt[e][g].stage \in {"invoked", "completed"} =>
             /\ attempt'[e][g].stage \in {"invoked", "completed"}
             /\ attempt'[e][g].invokedAt = attempt[e][g].invokedAt

\* A worker that does not move keeps its facts when nobody changes the rows it
\* has locked, its call and its verdict.
LEMMA WorkerFrame ==
    ASSUME NEW v \in Workers, WorkerOK(v), work'[v] = work[v],
           Forward(work[v].event, work[v].claim.gen),
           work[v].at \in LockedPlaces =>
             /\ event'[work[v].event] = event[work[v].event]
             /\ attempt'[work[v].event][work[v].claim.gen] = attempt[work[v].event][work[v].claim.gen],
           work[v].at = "call" => calls'[work[v].event][work[v].claim.gen] = calls[work[v].event][work[v].claim.gen],
           work[v].at \in {"invoke"} \cup Finalizing /\ verdict[work[v].event][work[v].claim.gen] = "none"
             => \/ verdict'[work[v].event][work[v].claim.gen] = "none"
                \/ work[v].at # "invoke" /\ work[v].cause \notin HandlerOutcomes,
           verdict[work[v].event][work[v].claim.gen] # "none" =>
             verdict'[work[v].event][work[v].claim.gen] = verdict[work[v].event][work[v].claim.gen]
    PROVE  WorkerOK(v)'
  <1> DEFINE e == work[v].event
             c == work[v].claim
  <1>1. /\ work'[v].event = e /\ work'[v].claim = c /\ work'[v].at = work[v].at
        /\ work'[v].cause = work[v].cause /\ work'[v].receipt = work[v].receipt
    BY ZenonT(30)
  <1>2. HasAttempt(e, c) => HasAttempt(e, c)'
    BY <1>1 DEF HasAttempt, Forward
  <1>3. work[v].at \in LockedPlaces => (Matches(e, c) => Matches(e, c)')
    BY ZenonT(30), <1>1 DEF Matches
  <1>4. /\ work[v].at \in {"claim_lock", "claim_commit"} => c.gen \in Gens /\ c.owner = v
        /\ work[v].at = "claim_commit" => event'[e].state \in Claimable /\ event'[e].gen + 1 = c.gen
    BY ZenonT(30) DEF WorkerOK, LockedPlaces
  <1>5. work[v].at \in Holding => HasAttempt(e, c)' /\ c.owner = v
    BY <1>2 DEF WorkerOK
  <1>6. work[v].at = "begin_commit" =>
          Matches(e, c)' /\ attempt'[e][c.gen].stage = "claimed" /\ work[v].receipt.invokedAt # NoTime
    BY ZenonT(30), <1>3 DEF WorkerOK, LockedPlaces
  <1>7. work[v].at \in {"call", "invoke"} =>
          attempt'[e][c.gen].stage \in {"invoked", "completed"} /\ attempt'[e][c.gen].invokedAt # NoTime
    BY ZenonT(30) DEF WorkerOK, Forward
  <1>8. /\ work[v].at = "call" => calls'[e][c.gen] = 0
        /\ work[v].at = "invoke" => verdict'[e][c.gen] = "none"
    BY ZenonT(30) DEF WorkerOK
  <1>9. work[v].at \in Finalizing =>
          /\ HasAttempt(e, c)'
          /\ work[v].cause \in HandlerOutcomes => verdict'[e][c.gen] = work[v].cause
    BY <1>2 DEF WorkerOK, HandlerOutcomes
  <1>10. work[v].at = "finalize_commit" =>
           /\ Matches(e, c)' /\ attempt'[e][c.gen].stage # "completed"
           /\ OutcomeDefined(c, attempt'[e][c.gen].invokedAt, work[v].cause, work[v].receipt.completedAt)
           /\ work[v].receipt = Outcome(e, c, attempt'[e][c.gen].invokedAt, work[v].cause,
                                        work[v].receipt.completedAt)
    BY ZenonT(30), <1>3 DEF WorkerOK, LockedPlaces
  <1> QED
    BY <1>1, <1>4, <1>5, <1>6, <1>7, <1>8, <1>9, <1>10 DEF WorkerOK

\* A worker that comes to rest or starts over claims nothing.
LEMMA WorkerFree ==
    ASSUME NEW v \in Workers, work'[v].at \in {"idle", "recover", "claim_read"}
    PROVE  WorkerOK(v)'
  BY ZenonT(30) DEF WorkerOK, Holding, Finalizing

\* Claims with an attempt row are equal when their generations are, so only
\* the worker that owns a claim acts on it between claiming and finalizing.
LEMMA OneHolder ==
    ASSUME WorkerInv, NEW v \in Workers, NEW w \in Workers, work[v].at \in Holding, work[w].at \in Holding,
           work[v].event = work[w].event, work[v].claim.gen = work[w].claim.gen
    PROVE  v = w
  BY DEF WorkerInv, WorkerOK, HasAttempt

LEMMA ForwardStep ==
    ASSUME IInv, [Next]_vars, NEW d \in Events, NEW h \in Gens
    PROVE  /\ Forward(d, h)
           /\ \A v \in Workers : work[v].at \in LockedPlaces /\ work[v].event = d
                /\ ~(ClaimCommit(v) \/ BeginCommit(v) \/ FinalizeCommit(v))
                   => event'[d] = event[d] /\ attempt'[d] = attempt[d]
  <1>0. TypeOK /\ RowOK(d) /\ WorkerInv /\ LockInv /\ attempt[d][h] \in AttemptRows
    BY DEF IInv, RowsInv, TypeOK
  <1> DEFINE Frozen == \A v \in Workers : work[v].at \in LockedPlaces /\ work[v].event = d
                         /\ ~(ClaimCommit(v) \/ BeginCommit(v) \/ FinalizeCommit(v))
                           => event'[d] = event[d] /\ attempt'[d] = attempt[d]
  <1>1. CASE UNCHANGED <<event, attempt>>
    BY <1>1 DEF Forward
  <1>2. ASSUME NEW e \in Events, Append(e) PROVE Forward(d, h) /\ Frozen
    <2>1. attempt' = attempt
      BY <1>2 DEF Append
    <2>2. d # e => event'[d] = event[d]
      BY <1>0, <1>2 DEF Append, TypeOK
    <2>3. ASSUME NEW v \in Workers, work[v].at \in LockedPlaces, work[v].event = d PROVE d # e
      <3>1. event[d].state = "claimed" \/ event[d].state \in Claimable
        BY <1>0, <2>3 DEF WorkerInv, WorkerOK, LockedPlaces, Matches
      <3> QED
        BY ZenonT(30), <1>2, <3>1 DEF Append, Claimable
    <2> QED
      BY <2>1, <2>2, <2>3 DEF Forward
  <1>3. ASSUME NEW w \in Workers, ClaimCommit(w) \/ BeginCommit(w) \/ FinalizeCommit(w) PROVE Frozen
    <2>1. work[w].at \in LockedPlaces /\ work[w].event \in Events
      BY <1>0, <1>3 DEF ClaimCommit, BeginCommit, FinalizeCommit, LockedPlaces, TypeOK, Works
    <2>2. d # work[w].event => event'[d] = event[d] /\ attempt'[d] = attempt[d]
      BY SMTT(30), <1>0, <1>3, <2>1 DEF ClaimCommit, BeginCommit, FinalizeCommit, TypeOK
    <2> QED
      BY <1>0, <1>3, <2>1, <2>2 DEF LockInv
  <1>4. ASSUME NEW w \in Workers, ClaimCommit(w) PROVE Forward(d, h)
    <2> DEFINE e == work[w].event
               g == work[w].claim.gen
    <2>1. e \in Events /\ g \in Gens /\ event[e].gen + 1 = g
      BY <1>0, <1>4 DEF ClaimCommit, WorkerInv, WorkerOK, TypeOK, Works
    <2>2. CASE d # e \/ h # g
      <3>1. attempt'[d][h] = attempt[d][h]
        BY <1>0, <1>4, <2>1, <2>2 DEF ClaimCommit, TypeOK
      <3> QED
        BY <3>1 DEF Forward
    <2>3. CASE d = e /\ h = g
      <3>1. event[d].gen \in Int /\ h \in Int
        BY <1>0, OptionsAssumption DEF TypeOK, EventRows, Gens
      <3>2. attempt[d][h].stage = "none"
        BY <1>0, <2>1, <2>3, <3>1 DEF RowOK, AttemptOK
      <3> QED
        BY <3>2 DEF Forward
    <2> QED
      BY ZenonT(30), <2>2, <2>3
  <1>5. ASSUME NEW w \in Workers, BeginCommit(w) PROVE Forward(d, h)
    <2> DEFINE e == work[w].event
               g == work[w].claim.gen
    <2>1. e \in Events /\ g \in Gens /\ attempt[e][g].stage = "claimed"
      BY ZenonT(30), <1>0, <1>5 DEF BeginCommit, WorkerInv, WorkerOK, HasAttempt, Holding, TypeOK, Works
    <2>2. CASE d # e \/ h # g
      <3>1. attempt'[d][h] = attempt[d][h]
        BY <1>0, <1>5, <2>1, <2>2 DEF BeginCommit, TypeOK
      <3> QED
        BY <3>1 DEF Forward
    <2>3. CASE d = e /\ h = g
      <3>1. attempt'[d][h].stage = "invoked" /\ attempt'[d][h].claim = attempt[d][h].claim
        BY <1>0, <1>5, <2>1, <2>3 DEF BeginCommit, TypeOK, AttemptRows
      <3> QED
        BY <2>1, <2>3, <3>1 DEF Forward
    <2> QED
      BY <2>2, <2>3
  <1>6. ASSUME NEW w \in Workers, FinalizeCommit(w) PROVE Forward(d, h)
    <2> DEFINE e == work[w].event
               g == work[w].claim.gen
    <2>1. e \in Events /\ g \in Gens
      BY <1>6, FinalizeFacts
    <2>2. CASE d # e \/ h # g
      <3>1. attempt'[d][h] = attempt[d][h]
        BY <1>0, <1>6, <2>1, <2>2 DEF FinalizeCommit, TypeOK
      <3> QED
        BY <3>1 DEF Forward
    <2>3. CASE d = e /\ h = g
      <3>1. attempt'[d][h] = [attempt[d][h] EXCEPT !.stage = "completed", !.outcome = work[w].receipt]
        BY ZenonT(30), <1>0, <1>6, <2>1, <2>3 DEF FinalizeCommit, TypeOK
      <3>2. /\ attempt'[d][h].stage = "completed" /\ attempt'[d][h].claim = attempt[d][h].claim
            /\ attempt'[d][h].invokedAt = attempt[d][h].invokedAt
        BY <1>0, <3>1 DEF AttemptRows
      <3> QED
        BY <3>2 DEF Forward
    <2> QED
      BY <2>2, <2>3
  <1> QED
    BY <1>1, <1>2, <1>3, <1>4, <1>5, <1>6, DatabaseWriters

\* The workers a step does not move.
LEMMA BystanderStep ==
    ASSUME IInv, [Next]_vars, NEW v \in Workers, work'[v] = work[v]
    PROVE  WorkerOK(v)'
  <1> DEFINE d == work[v].event
             h == work[v].claim.gen
  <1>0. TypeOK /\ WorkerOK(v) /\ WorkerInv /\ HistoryInv /\ d \in Events /\ work[v].at \in Places
    BY DEF IInv, WorkerInv, TypeOK, Works
  <1>1. CASE work[v].at \in {"idle", "recover", "claim_read"}
    BY <1>1, WorkerFree
  <1>2. CASE work[v].at \notin {"idle", "recover", "claim_read"}
    <2>1. h \in Gens
      BY <1>0, <1>2 DEF WorkerOK, Holding, Finalizing, Places, LockedPlaces, HasAttempt
    <2>2. Forward(d, h)
      BY <1>0, <2>1, ForwardStep
    <2>3. ~(ClaimCommit(v) \/ BeginCommit(v) \/ FinalizeCommit(v))
      <3>1. ClaimCommit(v) => work'[v].at = "begin_lock" /\ work[v].at = "claim_commit"
        BY ZenonT(30), <1>0, StepMoves DEF Moved, ClaimCommit
      <3>2. BeginCommit(v) => work'[v].at = "call" /\ work[v].at = "begin_commit"
        BY ZenonT(30), <1>0, StepMoves DEF Moved, BeginCommit
      <3>3. FinalizeCommit(v) => work'[v].at = "idle" /\ work[v].at = "finalize_commit"
        BY <1>0, DoneMoves DEF Moved, FinalizeCommit
      <3> QED
        BY <3>1, <3>2, <3>3
    <2>4. work[v].at \in LockedPlaces => event'[d] = event[d] /\ attempt'[d] = attempt[d]
      BY <1>0, <2>1, <2>3, ForwardStep
    <2>5. work[v].at = "call" => calls'[d][h] = calls[d][h]
      <3>1. ASSUME NEW w \in Workers, CallHandler(w), work[v].at = "call" PROVE calls'[d][h] = calls[d][h]
        <4>1. work[w].at = "call" /\ work'[w].at = "invoke"
          BY ZenonT(30), <1>0, <3>1, StepMoves DEF CallHandler, Moved
        <4>2. ~(work[w].event = d /\ work[w].claim.gen = h)
          BY <1>0, <3>1, <4>1, OneHolder DEF Holding
        <4> QED
          BY <1>0, <2>1, <3>1, <4>2 DEF CallHandler, TypeOK
      <3> QED
        BY ZenonT(30), <3>1, HandlerWriters DEF HandlerReturns, Fence, EffectCommit, HandlerFails
    <2>6. \/ verdict'[d][h] = verdict[d][h]
          \/ verdict[d][h] = "none" /\ work[v].at # "invoke"
      <3>1. ASSUME NEW w \in Workers, NEW k \in HandlerOutcomes, HandlerReturns(w, k), verdict'[d][h] # verdict[d][h]
            PROVE  verdict[d][h] = "none" /\ work[v].at # "invoke"
        <4>1. work[w].at = "invoke" /\ work'[w].at = "finalize_read"
          BY ZenonT(30), <1>0, <3>1, StepMoves DEF HandlerReturns, Moved
        <4>2. work[w].event = d /\ work[w].claim.gen = h
          BY <1>0, <2>1, <3>1 DEF HandlerReturns, TypeOK
        <4>3. verdict[d][h] = "none"
          BY SMTT(30), <1>0, <4>1, <4>2 DEF WorkerInv, WorkerOK
        <4>4. work[v].at # "invoke"
          BY <1>0, <4>1, <4>2, OneHolder DEF Holding
        <4> QED
          BY <4>3, <4>4
      <3> QED
        BY ZenonT(30), <3>1, HandlerWriters DEF CallHandler, Fence, EffectCommit, HandlerFails
    <2>7. work[v].at \in Finalizing /\ work[v].cause \in HandlerOutcomes => verdict[d][h] # "none"
      BY <1>0 DEF WorkerOK, HandlerOutcomes
    <2> HIDE DEF d, h
    <2>8. /\ work[v].at \in {"invoke"} \cup Finalizing /\ verdict[d][h] = "none"
             => verdict'[d][h] = "none" \/ (work[v].at # "invoke" /\ work[v].cause \notin HandlerOutcomes)
          /\ verdict[d][h] # "none" => verdict'[d][h] = verdict[d][h]
      BY <2>6, <2>7
    <2>9. work[v].at \in LockedPlaces => event'[d] = event[d] /\ attempt'[d][h] = attempt[d][h]
      BY <2>4
    <2> QED
      BY ZenonT(30), <1>0, <2>2, <2>5, <2>8, <2>9, WorkerFrame DEF d, h
  <1> QED
    BY <1>1, <1>2

\* The worker that claims, invokes or finalizes knows what its next transaction
\* needs; everybody else keeps what it knew.
LEMMA WorkersStep == IInv /\ [Next]_vars => WorkerInv'
  <1> SUFFICES ASSUME IInv, [Next]_vars PROVE WorkerInv'
    OBVIOUS
  <1>0. TypeOK /\ RowsInv /\ HistoryInv /\ WorkerInv
    BY DEF IInv
  <1>1. \A v \in Workers : work'[v] = work[v] => WorkerOK(v)'
    BY BystanderStep
  \* It is enough to look at the worker that moves.
  <1>2. ASSUME NEW w \in Workers, NEW p, Moved(w, p), WorkerOK(w)' PROVE WorkerInv'
    BY <1>1, <1>2 DEF WorkerInv, Moved
  <1>3. ASSUME NEW w \in Workers, NEW p, Moved(w, p), p \in {"idle", "recover", "claim_read"} PROVE WorkerInv'
    BY <1>2, <1>3, WorkerFree DEF Moved
  <1>4. CASE work' = work
    BY <1>1, <1>4 DEF WorkerInv
  <1>5. ASSUME NEW w \in Workers, NEW e \in Events, Deliver(w, e) PROVE WorkerInv'
    BY <1>0, <1>1, <1>5, DeliverMoves, WorkerFree DEF WorkerInv
  <1>6. ASSUME NEW w \in Workers PROVE WorkerStep(w) \/ (\E v \in HandlerOutcomes : HandlerReturns(w, v)) => WorkerInv'
    <2> DEFINE e == work[w].event
               c == work[w].claim
    <2>0. WorkerOK(w) /\ RowOK(e) /\ e \in Events /\ c \in Claims
      BY <1>0 DEF WorkerInv, RowsInv, TypeOK, Works
    <2>1. CASE Recover(w)
      <3>1. CASE /\ Moved(w, "finalize_read") /\ event[e].state = "claimed"
                 /\ work'[w].claim = event[e].claim /\ work'[w].cause = "expired"
        <4>1. event[e].gen \in Gens
          BY ZenonT(30), <1>0, <2>0, <3>1 DEF RowOK, TypeOK, EventRows
        <4>2. HasAttempt(e, event[e].claim)
          BY SMTT(30), <2>0, <3>1, <4>1, OptionsAssumption DEF RowOK, NewestOK, AttemptOK, HasAttempt, Gens
        <4>3. attempt' = attempt
          BY <2>1 DEF Recover, database
        <4>4. WorkerOK(w)'
          BY <3>1, <4>2, <4>3 DEF WorkerOK, Moved, HasAttempt, Holding, Finalizing, HandlerOutcomes
        <4> QED
          BY <1>2, <3>1, <4>4
      <3> QED
        BY <1>0, <1>3, <2>1, <3>1, StepMoves
    <2>2. CASE ClaimRead(w)
      <3>1. CASE /\ Moved(w, "claim_lock") /\ event[e].gen < MaxAttempts
                 /\ work'[w].claim.gen = event[e].gen + 1 /\ work'[w].claim.owner = w
        <4>1. event[e].gen \in Nat
          <5>1. event[e] \in EventRows
            BY <1>0, <2>0 DEF TypeOK
          <5>2. event[e].gen \in Gens \cup {0}
            BY <5>1 DEF EventRows
          <5> QED
            BY <5>2, OptionsAssumption DEF Gens
        <4>2. work'[w].claim.gen \in Gens
          BY <3>1, <4>1, OptionsAssumption DEF Gens
        <4>3. WorkerOK(w)'
          BY <3>1, <4>2 DEF WorkerOK, Moved, Holding, Finalizing
        <4> QED
          BY <1>2, <3>1, <4>3
      <3> QED
        BY <1>0, <1>3, <2>2, <3>1, StepMoves
    <2>3. CASE ClaimLock(w)
      <3>1. CASE Moved(w, "claim_commit") /\ KeepsClaim(w) /\ ClaimAdmitted(e, c)
        <4>1. event' = event /\ work[w].at = "claim_lock"
          BY <2>3 DEF ClaimLock, database
        <4>2. WorkerOK(w)'
          BY <2>0, <3>1, <4>1 DEF WorkerOK, Moved, KeepsClaim, ClaimAdmitted, Holding, Finalizing
        <4> QED
          BY <1>2, <3>1, <4>2
      <3> QED
        BY <1>0, <1>3, <2>3, <3>1, StepMoves
    <2>4. CASE ClaimCommit(w)
      <3>1. Moved(w, "begin_lock") /\ KeepsClaim(w)
        BY <1>0, <2>4, StepMoves
      <3>2. c.gen \in Gens /\ c.owner = w
        BY <2>0, <2>4 DEF ClaimCommit, WorkerOK
      <3>3. attempt'[e][c.gen] = [attempt[e][c.gen] EXCEPT !.stage = "claimed", !.claim = c]
        BY ZenonT(30), <1>0, <2>0, <2>4, <3>2 DEF ClaimCommit, TypeOK
      <3>4. attempt[e][c.gen] \in AttemptRows
        BY <1>0, <2>0, <3>2 DEF TypeOK
      <3>5. attempt'[e][c.gen].stage = "claimed" /\ attempt'[e][c.gen].claim = c
        BY <3>3, <3>4 DEF AttemptRows
      <3>6. WorkerOK(w)'
        BY <3>1, <3>2, <3>5 DEF WorkerOK, Moved, KeepsClaim, HasAttempt, Holding, Finalizing
      <3> QED
        BY <1>2, <3>1, <3>6
    <2>5. CASE BeginLock(w)
      <3>1. CASE /\ Moved(w, "begin_commit") /\ KeepsClaim(w)
                 /\ BeginAdmitted(e, c) /\ work'[w].receipt.invokedAt = now
        <4>1. event' = event /\ attempt' = attempt /\ work[w].at = "begin_lock" /\ now # NoTime
          BY <1>0, <2>5 DEF BeginLock, database, TypeOK, NoTime
        <4>2. WorkerOK(w)'
          BY SMTT(30), <2>0, <3>1, <4>1 DEF WorkerOK, Moved, KeepsClaim, BeginAdmitted, Matches, HasAttempt, Holding, Finalizing
        <4> QED
          BY <1>2, <3>1, <4>2
      <3> QED
        BY <1>0, <1>3, <2>5, <3>1, StepMoves
    <2>6. CASE BeginCommit(w)
      <3>1. Moved(w, "call") /\ KeepsClaim(w)
        BY ZenonT(30), <1>0, <2>6, StepMoves
      <3>2. /\ c.gen \in Gens /\ c.owner = w /\ attempt[e][c.gen].claim = c
            /\ attempt[e][c.gen].stage = "claimed" /\ work[w].receipt.invokedAt # NoTime
        BY <2>0, <2>6 DEF BeginCommit, WorkerOK, Holding, HasAttempt
      <3>3. attempt'[e][c.gen] = [attempt[e][c.gen] EXCEPT !.stage = "invoked", !.invokedAt = work[w].receipt.invokedAt]
        BY ZenonT(30), <1>0, <2>0, <2>6, <3>2 DEF BeginCommit, TypeOK
      <3>4. attempt[e][c.gen] \in AttemptRows /\ calls[e][c.gen] \in Nat
        BY SMTT(30), <1>0, <2>0, <3>2 DEF TypeOK
      <3>5. /\ attempt'[e][c.gen].stage = "invoked" /\ attempt'[e][c.gen].claim = c
            /\ attempt'[e][c.gen].invokedAt # NoTime
        BY <3>2, <3>3, <3>4 DEF AttemptRows
      <3>6. calls[e][c.gen] = 0
        BY <1>0, <2>0, <3>2, <3>4 DEF HistoryInv, HistoryOK
      <3>7. calls' = calls
        BY <2>6 DEF BeginCommit, handlers
      <3>8. WorkerOK(w)'
        BY <3>1, <3>2, <3>5, <3>6, <3>7 DEF WorkerOK, Moved, KeepsClaim, HasAttempt, Holding, Finalizing
      <3> QED
        BY <1>2, <3>1, <3>8
    <2>7. CASE CallHandler(w)
      <3>1. Moved(w, "invoke") /\ KeepsClaim(w) /\ UNCHANGED <<attempt, verdict>> /\ work[w].at = "call"
        BY ZenonT(30), <1>0, <2>7, StepMoves DEF CallHandler, database
      <3>2. HasAttempt(e, c) /\ c.owner = w /\ calls[e][c.gen] = 0
            /\ attempt[e][c.gen].stage \in {"invoked", "completed"} /\ attempt[e][c.gen].invokedAt # NoTime
        BY <2>0, <3>1 DEF WorkerOK, Holding
      <3>3. verdict[e][c.gen] = "none"
        BY SMTT(30), <1>0, <2>0, <3>2 DEF HistoryInv, HistoryOK, HasAttempt
      <3>4. WorkerOK(w)'
        BY <3>1, <3>2, <3>3 DEF WorkerOK, Moved, KeepsClaim, HasAttempt, Holding, Finalizing
      <3> QED
        BY <1>2, <3>1, <3>4
    <2>8. CASE InvokeUnknown(w)
      <3>1. Moved(w, "finalize_read") /\ KeepsClaim(w) /\ work'[w].cause = "unknown" /\ attempt' = attempt
        BY ZenonT(30), <1>0, <2>8, StepMoves DEF InvokeUnknown, database
      <3>2. HasAttempt(e, c)
        BY <2>0, <2>8 DEF InvokeUnknown, WorkerOK, Holding
      <3>3. WorkerOK(w)'
        BY <3>1, <3>2 DEF WorkerOK, Moved, KeepsClaim, HasAttempt, Holding, Finalizing, HandlerOutcomes
      <3> QED
        BY <1>2, <3>1, <3>3
    <2>9. ASSUME NEW k \in HandlerOutcomes, HandlerReturns(w, k) PROVE WorkerInv'
      <3>1. Moved(w, "finalize_read") /\ KeepsClaim(w) /\ work'[w].cause = k /\ attempt' = attempt
        BY ZenonT(30), <1>0, <2>9, StepMoves DEF HandlerReturns, database
      <3>2. HasAttempt(e, c)
        BY <2>0, <2>9 DEF HandlerReturns, WorkerOK, Holding
      <3>3. verdict'[e][c.gen] = k
        BY <1>0, <2>0, <2>9, <3>2 DEF HandlerReturns, TypeOK, HasAttempt
      <3>4. WorkerOK(w)'
        BY <3>1, <3>2, <3>3 DEF WorkerOK, Moved, KeepsClaim, HasAttempt, Holding, Finalizing
      <3> QED
        BY <1>2, <3>1, <3>4
    <2>10. CASE FinalizeRead(w) \/ FinalizeLock(w)
      <3>1. UNCHANGED <<attempt, event, verdict>> /\ work[w].at \in {"finalize_read", "finalize_lock"}
        BY <2>10 DEF FinalizeRead, FinalizeLock, database, handlers
      <3>2. HasAttempt(e, c) /\ (work[w].cause \in HandlerOutcomes => verdict[e][c.gen] = work[w].cause)
        BY <2>0, <3>1 DEF WorkerOK, Finalizing
      <3>3. CASE Moved(w, "finalize_lock") /\ KeepsClaim(w) /\ KeepsCause(w)
        <4>1. WorkerOK(w)'
          BY <3>1, <3>2, <3>3 DEF WorkerOK, Moved, KeepsClaim, KeepsCause, HasAttempt, Holding, Finalizing
        <4> QED
          BY <1>2, <3>3, <4>1
      <3>4. CASE /\ Moved(w, "finalize_commit") /\ KeepsClaim(w) /\ KeepsCause(w)
                 /\ work'[w].receipt = work[w].receipt /\ attempt[e][c.gen].stage # "completed"
                 /\ FinalizeAdmitted(e, c, work[w].cause, work[w].receipt)
        <4>1. /\ Matches(e, c) /\ OutcomeDefined(c, attempt[e][c.gen].invokedAt, work[w].cause, work[w].receipt.completedAt)
              /\ work[w].receipt = Outcome(e, c, attempt[e][c.gen].invokedAt, work[w].cause, work[w].receipt.completedAt)
          BY <3>4 DEF FinalizeAdmitted
        <4>2. WorkerOK(w)'
          BY ZenonT(30), <3>1, <3>2, <3>4, <4>1 DEF WorkerOK, Moved, KeepsClaim, KeepsCause, HasAttempt, Matches, Holding, Finalizing
        <4> QED
          BY ZenonT(30), <1>2, <3>4, <4>2
      <3> QED
        BY <1>0, <1>3, <2>10, <3>3, <3>4, StepMoves
    <2>11. CASE FinalizeCommit(w) \/ FinalizeRefused(w) \/ LeaseLapsed(w)
      BY <1>0, <1>3, <2>11, DoneMoves DEF FinalizeCommit, FinalizeRefused, LeaseLapsed
    <2> QED
      BY <2>1, <2>2, <2>3, <2>4, <2>5, <2>6, <2>7, <2>8, <2>9, <2>10, <2>11 DEF WorkerStep
  <1>7. ASSUME NEW w \in Workers, Unavailable(w) \/ WorkerLost(w) PROVE WorkerInv'
    BY <1>0, <1>3, <1>7, DoneMoves DEF Unavailable, WorkerLost
  <1>8. ASSUME NEW e \in Events, Append(e) \/ ScanPending(e) \/ MessageLost(e) PROVE WorkerInv'
    BY <1>4, <1>8 DEF Append, ScanPending, MessageLost
  <1>9. ASSUME NEW e \in Events, NEW g \in Gens, Fence(e, g) \/ EffectCommit(e, g) \/ HandlerFails(e, g) PROVE WorkerInv'
    BY <1>4, <1>9 DEF Fence, EffectCommit, HandlerFails
  <1>10. CASE Tick \/ Stall \/ UNCHANGED vars
    BY <1>4, <1>10 DEF Tick, Stall, vars
  <1> QED
    BY <1>5, <1>6, <1>7, <1>8, <1>9, <1>10 DEF Next
-----------------------------------------------------------------------------
(* The theorems *)

LEMMA InitInv == Init => IInv
  <1> SUFFICES ASSUME Init PROVE IInv
    OBVIOUS
  <1>1. TypeOK
    BY InitType
  <1>2. RowsInv
    <2> SUFFICES ASSUME NEW e \in Events PROVE RowOK(e)
      BY DEF RowsInv
    <2>1. event[e].state = "absent" /\ event[e].gen = 0
      BY DEF Init
    <2>2. ASSUME NEW g \in Gens PROVE AttemptOK(e, g)
      <3>1. attempt[e][g].stage = "none" /\ attempt[e][g].invokedAt = NoTime
        BY DEF Init
      <3>2. g \in Nat /\ g > 0
        BY OptionsAssumption DEF Gens
      <3> QED
        BY <2>1, <3>1, <3>2 DEF AttemptOK
    <2> QED
      BY <2>1, <2>2 DEF RowOK
  <1>3. HistoryInv
    BY DEF Init, HistoryInv, HistoryOK
  <1>4. \A w \in Workers : work[w].at = "idle"
    <2>1. \A e \in Events : IdleWork(e).at = "idle"
      BY DEF IdleWork
    <2> QED
      BY ZenonT(30), <2>1 DEF Init
  <1>5. WorkerInv
    BY <1>4 DEF WorkerInv, WorkerOK, Holding, Finalizing
  <1>6. LockInv
    BY <1>4 DEF LockInv, LockedPlaces
  <1> QED
    BY <1>1, <1>2, <1>3, <1>5, <1>6 DEF IInv

\* The strengthened invariant is inductive: rows, handler traces, private
\* claims and row locks stay consistent with each other in every interleaving.
THEOREM Inductive == Spec => []IInv
  <1>1. Init => IInv
    BY InitInv
  <1>2. IInv /\ [Next]_vars => IInv'
    BY TypeStep, RowsStep, HistoryStep, WorkersStep, LockStep DEF IInv
  <1> QED
    BY <1>1, <1>2, PTL DEF Spec

\* Every variable keeps its type for all constants: generations never pass the
\* attempt budget and every stored receipt is well formed.
THEOREM TypeCorrect == Spec => []TypeOK
  <1>1. IInv => TypeOK
    BY DEF IInv
  <1> QED
    BY <1>1, Inductive, PTL

\* Typed numbers of a row.
LEMMA RowNumbers ==
    ASSUME TypeOK, NEW e \in Events
    PROVE  event[e].gen \in Gens \cup {0} /\ event[e].gen \in Nat /\ Gens \subseteq Nat \ {0}
  <1>1. event[e] \in EventRows
    BY DEF TypeOK
  <1>2. event[e].gen \in Gens \cup {0}
    BY <1>1 DEF EventRows
  <1> QED
    BY <1>2, OptionsAssumption DEF Gens

\* check_outbox_delivery_projection never finds a disagreement between the
\* event row and its attempt rows, for any number of events and workers.
THEOREM CustodyAgrees == Spec => []CustodyMatchesEvent
  <1>1. IInv => CustodyMatchesEvent
    <2> SUFFICES ASSUME IInv, NEW e \in Events
                 PROVE  (\A g \in Gens : GenerationOK(e, g)) /\ (event[e].gen > 0 => NewestOK(e))
      BY DEF CustodyMatchesEvent
    <2>1. RowOK(e) /\ event[e].gen \in Nat /\ Gens \subseteq Nat
      BY RowNumbers DEF IInv, RowsInv
    <2>2. ASSUME NEW g \in Gens PROVE GenerationOK(e, g)
      <3>1. g \in Nat
        BY <2>1
      <3> QED
        BY <2>1, <3>1 DEF RowOK, AttemptOK, GenerationOK
    <2> QED
      BY <2>1, <2>2 DEF RowOK
  <1> QED
    BY <1>1, Inductive, PTL

\* _begin_invocation hands a generation to its handler once, for any number of
\* workers, crashes and redelivered messages.
THEOREM CalledOnce == Spec => []OneCallPerGeneration
  <1>1. IInv => OneCallPerGeneration
    BY DEF IInv, HistoryInv, HistoryOK, OneCallPerGeneration
  <1> QED
    BY <1>1, Inductive, PTL

\* What IInv says about repeating an event that is not replay safe.
LEMMA RepeatAfterRetry == IInv => NoBlindRepeat
  <1> SUFFICES ASSUME IInv, NEW e \in Events \ ReplaySafe, NEW g \in Gens, NEW h \in Gens,
                      g < h, calls[e][g] > 0, attempt[e][h].stage # "none"
               PROVE  verdict[e][g] = "retry"
    BY DEF NoBlindRepeat
  <1>1. AttemptOK(e, g) /\ AttemptOK(e, h) /\ HistoryOK(e, g)
    BY DEF IInv, RowsInv, RowOK, HistoryInv
  <1>2. event[e].gen \in Nat /\ g \in Nat /\ h \in Nat
    BY RowNumbers DEF IInv
  <1>3. g < event[e].gen
    BY <1>1, <1>2 DEF AttemptOK
  <1> QED
    BY <1>1, <1>3 DEF AttemptOK, HistoryOK

\* _outcome: exceptions, timeouts and crashes are never an implicit safe retry.
THEOREM NeverBlindlyRepeated == Spec => []NoBlindRepeat
  BY RepeatAfterRetry, Inductive, PTL

\* fence_invocation: an event that is not replay safe has its effect under one
\* generation at most, whatever late or timed-out calls do.
THEOREM EffectsOnce == Spec => []EffectOnce
  <1>1. IInv => EffectOnce
    <2> SUFFICES ASSUME IInv, NEW e \in Events \ ReplaySafe, NEW g \in effects[e], NEW h \in effects[e], g # h
                 PROVE  FALSE
      BY DEF EffectOnce
    <2>1. effects[e] \subseteq Gens /\ Gens \subseteq Nat
      BY RowNumbers DEF IInv, TypeOK
    <2>2. ASSUME NEW i \in effects[e], NEW j \in effects[e], i < j PROVE FALSE
      <3>1. HistoryOK(e, i) /\ HistoryOK(e, j) /\ i \in Gens /\ j \in Gens
        BY <2>1 DEF IInv, HistoryInv
      <3>2. calls[e][i] > 0 /\ verdict[e][i] # "retry" /\ attempt[e][j].stage # "none"
        BY <3>1 DEF HistoryOK
      <3> QED
        BY <2>2, <3>1, <3>2, RepeatAfterRetry DEF NoBlindRepeat
    <2>3. g \in Nat /\ h \in Nat
      BY ZenonT(30), <2>1
    <2> QED
      BY <2>2, <2>3
  <1> QED
    BY <1>1, Inductive, PTL

\* _outcome: recovery and late finalizers never acknowledge an event.
THEOREM OnlyHandlersAcknowledge == Spec => []AcknowledgedByHandler
  <1>1. IInv => AcknowledgedByHandler
    <2> SUFFICES ASSUME IInv, NEW e \in Events, event[e].state = "acknowledged"
                 PROVE  /\ verdict[e][event[e].gen] = "acknowledge"
                        /\ event[e].finalizedAt < attempt[e][event[e].gen].claim.expiresAt
      BY DEF AcknowledgedByHandler
    <2>1. RowOK(e)
      BY DEF IInv, RowsInv
    <2>2. event[e].gen \in Gens /\ event[e].gen > 0
      BY <2>1, RowNumbers DEF IInv, RowOK
    <2>3. HistoryOK(e, event[e].gen)
      BY <2>2 DEF IInv, HistoryInv
    <2> QED
      BY <2>1, <2>2, <2>3 DEF RowOK, NewestOK, HistoryOK
  <1> QED
    BY <1>1, Inductive, PTL

\* fence_invocation: an effect commits under open custody of its own claim.
THEOREM EffectsFenced == Spec => EffectsUnderCustody
  <1> DEFINE P == \A e \in Events, g \in Gens : g \in effects'[e] \ effects[e] =>
                     event[e].state = "claimed" /\ event[e].gen = g /\ attempt[e][g].stage = "invoked"
  <1>1. IInv /\ [Next]_vars => [P]_vars
    <2> SUFFICES ASSUME IInv, [Next]_vars, NEW e \in Events, NEW g \in Gens, g \in effects'[e], g \notin effects[e]
                 PROVE  event[e].state = "claimed" /\ event[e].gen = g /\ attempt[e][g].stage = "invoked"
      OBVIOUS
    <2>1. TypeOK /\ HistoryOK(e, g)
      BY DEF IInv, HistoryInv
    <2>2. \E d \in Events, h \in Gens : EffectCommit(d, h)
      BY ZenonT(30), HandlerWriters DEF CallHandler, HandlerReturns, Fence, HandlerFails
    <2>3. handler[e][g] = "fenced"
      BY <2>1, <2>2 DEF EffectCommit, TypeOK
    <2> QED
      BY <2>1, <2>3 DEF HistoryOK
  <1> QED
    BY <1>1, Inductive, PTL DEF Spec, EffectsUnderCustody

\* Receipts are immutable and finalized events stay finalized in every
\* interleaving of late finalizers, recoverers and duplicate messages.
THEOREM NothingReopens == Spec => SettledForever
  <1> DEFINE P(e) == /\ \A g \in Gens : attempt[e][g].stage = "completed" => attempt'[e][g] = attempt[e][g]
                     /\ event[e].state \in Terminal => event'[e] = event[e]
  <1>1. IInv /\ [Next]_vars => [\A e \in Events : P(e)]_vars
    <2> SUFFICES ASSUME IInv, [Next]_vars, NEW d \in Events PROVE P(d)
      OBVIOUS
    <2>0. TypeOK /\ RowOK(d) /\ WorkerInv /\ event[d].gen \in Nat /\ Gens \subseteq Nat \ {0}
      BY RowNumbers DEF IInv, RowsInv
    <2>1. CASE UNCHANGED <<event, attempt>>
      BY <2>1
    <2>2. ASSUME NEW e \in Events, Append(e) PROVE P(d)
      BY <2>0, <2>2 DEF Append, TypeOK, Terminal
    <2>3. ASSUME NEW w \in Workers, ClaimCommit(w) PROVE P(d)
      <3> DEFINE e == work[w].event
                 g == work[w].claim.gen
      <3>1. e \in Events /\ g \in Gens /\ event[e].gen + 1 = g /\ event[e].state \notin Terminal
        BY ZenonT(30), <2>0, <2>3 DEF ClaimCommit, WorkerInv, WorkerOK, TypeOK, Works, Claimable, Terminal
      <3>2. d = e => attempt[d][g].stage = "none"
        <4>1. g \in Nat
          BY ZenonT(30), <2>0, <3>1
        <4> QED
          BY <2>0, <3>1, <4>1 DEF RowOK, AttemptOK
      <3>3. d # e => event'[d] = event[d]
        BY <2>0, <2>3, <3>1 DEF ClaimCommit, TypeOK
      <3>4. ASSUME NEW h \in Gens, d # e \/ h # g PROVE attempt'[d][h] = attempt[d][h]
        BY <2>0, <2>3, <3>1, <3>4 DEF ClaimCommit, TypeOK
      <3> QED
        BY <3>1, <3>2, <3>3, <3>4
    <2>4. ASSUME NEW w \in Workers, BeginCommit(w) PROVE P(d)
      <3> DEFINE e == work[w].event
                 g == work[w].claim.gen
      <3>1. e \in Events /\ g \in Gens /\ attempt[e][g].stage = "claimed" /\ event' = event
        BY ZenonT(30), <2>0, <2>4 DEF BeginCommit, WorkerInv, WorkerOK, HasAttempt, Holding, TypeOK, Works
      <3>2. ASSUME NEW h \in Gens, d # e \/ h # g PROVE attempt'[d][h] = attempt[d][h]
        BY <2>0, <2>4, <3>1, <3>2 DEF BeginCommit, TypeOK
      <3> QED
        BY <3>1, <3>2
    <2>5. ASSUME NEW w \in Workers, FinalizeCommit(w) PROVE P(d)
      <3> DEFINE e == work[w].event
                 g == work[w].claim.gen
      <3>1. e \in Events /\ g \in Gens /\ attempt[e][g].stage # "completed" /\ event[e].state \notin Terminal
        BY <2>5, FinalizeFacts DEF Terminal
      <3>2. d # e => event'[d] = event[d]
        BY <2>0, <2>5, <3>1 DEF FinalizeCommit, TypeOK
      <3>3. ASSUME NEW h \in Gens, d # e \/ h # g PROVE attempt'[d][h] = attempt[d][h]
        BY <2>0, <2>5, <3>1, <3>3 DEF FinalizeCommit, TypeOK
      <3> QED
        BY <3>1, <3>2, <3>3
    <2> QED
      BY <2>1, <2>2, <2>3, <2>4, <2>5, DatabaseWriters
  <1> QED
    BY <1>1, Inductive, PTL DEF Spec, SettledForever

-----------------------------------------------------------------------------
(* OutboxDelivery implements OutboxContract: each committed transaction is *)
(* one step of the contract and everything else leaves it where it is.     *)

LEMMA CustodyUpdate ==
    ASSUME NEW e \in Events, NEW x, CustodyOf(e)' = x, \A d \in Events \ {e} : CustodyOf(d)' = CustodyOf(d)
    PROVE  Custody' = [Custody EXCEPT ![e] = x]
  BY DEF Custody

LEMMA GrantedUpdate ==
    ASSUME NEW e \in Events, NEW x, event'[e].gen = x, \A d \in Events \ {e} : event'[d].gen = event[d].gen
    PROVE  Granted' = [Granted EXCEPT ![e] = x]
  BY DEF Granted

LEMMA AnsweredUpdate ==
    ASSUME NEW e \in Events, NEW x, AnswerOf(e)' = x, \A d \in Events \ {e} : AnswerOf(d)' = AnswerOf(d)
    PROVE  Answered' = [Answered EXCEPT ![e] = x]
  BY DEF Answered

\* Nothing is granted or answered when no generation and no verdict changes.
LEMMA QuietUpdate ==
    /\ (\A d \in Events : event'[d].gen = event[d].gen) => Granted' = Granted
    /\ (\A d \in Events : AnswerOf(d)' = AnswerOf(d)) => Answered' = Answered
    /\ (\A d \in Events : CustodyOf(d)' = CustodyOf(d)) => Custody' = Custody
  BY DEF Granted, Answered, Custody

\* An event whose rows do not change keeps its contract state.
LEMMA SameView ==
    ASSUME NEW d \in Events, event'[d] = event[d], attempt'[d] = attempt[d]
    PROVE  CustodyOf(d)' = CustodyOf(d) /\ (verdict'[d] = verdict[d] => AnswerOf(d)' = AnswerOf(d))
  BY DEF CustodyOf, AnswerOf

\* The contract's steps.
LEMMA OfferStep ==
    ASSUME NEW e \in Events, Custody[e] = "absent", Custody' = [Custody EXCEPT ![e] = "waiting"],
           Granted' = Granted, Answered' = Answered, effects' = effects
    PROVE  Contract!ContractNext
  BY DEF Contract!ContractNext, Contract!Offer, Contract!Move

LEMMA GrantStep ==
    ASSUME NEW e \in Events, Custody[e] = "waiting", Custody' = [Custody EXCEPT ![e] = "held"],
           Granted[e] < MaxAttempts, Granted' = [Granted EXCEPT ![e] = Granted[e] + 1],
           Answered' = [Answered EXCEPT ![e] = "none"], effects' = effects
    PROVE  Contract!ContractNext
  BY DEF Contract!ContractNext, Contract!Grant, Contract!Move

LEMMA HandStep ==
    ASSUME NEW e \in Events, Custody[e] = "held", Custody' = [Custody EXCEPT ![e] = "handed"],
           Granted' = Granted, Answered' = Answered, effects' = effects
    PROVE  Contract!ContractNext
  BY DEF Contract!ContractNext, Contract!Hand, Contract!Move

LEMMA AnswerStep ==
    ASSUME NEW e \in Events, NEW v \in HandlerOutcomes, Granted[e] > 0, Answered[e] = "none",
           v = "retry" => Granted[e] \notin effects[e],
           Answered' = [Answered EXCEPT ![e] = v], Custody' = Custody, Granted' = Granted, effects' = effects
    PROVE  Contract!ContractNext
  BY DEF Contract!ContractNext, Contract!Answer, Contract!Answers, HandlerOutcomes

LEMMA EffectStep ==
    ASSUME NEW e \in Events, Custody[e] = "handed", Answered[e] = "none",
           effects' = [effects EXCEPT ![e] = effects[e] \cup {Granted[e]}],
           Custody' = Custody, Granted' = Granted, Answered' = Answered
    PROVE  Contract!ContractNext
  BY DEF Contract!ContractNext, Contract!Effect

LEMMA AbandonStep ==
    ASSUME NEW e \in Events, Custody[e] \in {"held", "handed"}, Custody' = [Custody EXCEPT ![e] = "dead"],
           Granted' = Granted, Answered' = Answered, effects' = effects
    PROVE  Contract!ContractNext
  BY DEF Contract!ContractNext, Contract!Abandon, Contract!Move

LEMMA AcknowledgeStep ==
    ASSUME NEW e \in Events, Custody[e] = "handed", Custody' = [Custody EXCEPT ![e] = "acknowledged"],
           Answered[e] = "acknowledge", Granted' = Granted, Answered' = Answered, effects' = effects
    PROVE  Contract!ContractNext
  BY DEF Contract!ContractNext, Contract!Acknowledge, Contract!Move

LEMMA ReturnStep ==
    ASSUME NEW e \in Events, Custody[e] \in {"held", "handed"}, Custody' = [Custody EXCEPT ![e] = "waiting"],
           Granted[e] < MaxAttempts, Custody[e] = "handed" => Answered[e] = "retry" \/ e \in ReplaySafe,
           Granted' = Granted, Answered' = Answered, effects' = effects
    PROVE  Contract!ContractNext
  BY DEF Contract!ContractNext, Contract!Return, Contract!Move

-----------------------------------------------------------------------------
\* Values of the contract's variables at an event.
LEMMA Views ==
    ASSUME NEW e \in Events
    PROVE  /\ Custody[e] = CustodyOf(e) /\ Granted[e] = event[e].gen /\ Answered[e] = AnswerOf(e)
           /\ event[e].state \in Claimable => CustodyOf(e) = "waiting"
           /\ event[e].state = "claimed" =>
                CustodyOf(e) = IF attempt[e][event[e].gen].stage = "invoked" THEN "handed" ELSE "held"
           /\ event[e].state = "dead_letter" => CustodyOf(e) = "dead"
           /\ event[e].state \in {"absent", "acknowledged"} => CustodyOf(e) = event[e].state
           /\ event[e].gen = 0 => AnswerOf(e) = "none"
           /\ event[e].gen # 0 => AnswerOf(e) = verdict[e][event[e].gen]
  <1>1. Custody[e] = CustodyOf(e) /\ Granted[e] = event[e].gen /\ Answered[e] = AnswerOf(e)
    BY DEF Custody, Granted, Answered
  <1>2. /\ event[e].gen = 0 => AnswerOf(e) = "none"
        /\ event[e].gen # 0 => AnswerOf(e) = verdict[e][event[e].gen]
    BY DEF AnswerOf
  <1>3. /\ event[e].state \in Claimable => CustodyOf(e) = "waiting"
        /\ event[e].state = "claimed" =>
                CustodyOf(e) = IF attempt[e][event[e].gen].stage = "invoked" THEN "handed" ELSE "held"
        /\ event[e].state = "dead_letter" => CustodyOf(e) = "dead"
        /\ event[e].state \in {"absent", "acknowledged"} => CustodyOf(e) = event[e].state
    BY DEF CustodyOf, Claimable
  <1> QED
    BY <1>1, <1>2, <1>3

\* The same after the step.
LEMMA ViewsAfter ==
    ASSUME NEW e \in Events
    PROVE  /\ event'[e].state \in Claimable => CustodyOf(e)' = "waiting"
           /\ event'[e].state = "claimed" =>
                CustodyOf(e)' = IF attempt'[e][event'[e].gen].stage = "invoked" THEN "handed" ELSE "held"
           /\ event'[e].state = "dead_letter" => CustodyOf(e)' = "dead"
           /\ event'[e].state \in {"absent", "acknowledged"} => CustodyOf(e)' = event'[e].state
           /\ event'[e].gen = 0 => AnswerOf(e)' = "none"
           /\ event'[e].gen # 0 => AnswerOf(e)' = verdict'[e][event'[e].gen]
  <1>1. /\ event'[e].gen = 0 => AnswerOf(e)' = "none"
        /\ event'[e].gen # 0 => AnswerOf(e)' = verdict'[e][event'[e].gen]
    BY DEF AnswerOf
  <1>2. /\ event'[e].state \in Claimable => CustodyOf(e)' = "waiting"
        /\ event'[e].state = "claimed" =>
                CustodyOf(e)' = IF attempt'[e][event'[e].gen].stage = "invoked" THEN "handed" ELSE "held"
        /\ event'[e].state = "dead_letter" => CustodyOf(e)' = "dead"
        /\ event'[e].state \in {"absent", "acknowledged"} => CustodyOf(e)' = event'[e].state
    BY DEF CustodyOf, Claimable
  <1> QED
    BY <1>1, <1>2

LEMMA ClaimCommitRefines ==
    ASSUME IInv, NEW w \in Workers, ClaimCommit(w), NEW e, e = work[w].event, NEW c, c = work[w].claim
    PROVE  Contract!ContractNext
  <1>0. TypeOK /\ WorkerOK(w) /\ UNCHANGED <<effects, verdict>>
    BY DEF IInv, WorkerInv, ClaimCommit, handlers
  <1>1. /\ e \in Events /\ c.gen \in Gens
        /\ event[e].state \in Claimable /\ event[e].gen + 1 = c.gen
    BY <1>0 DEF ClaimCommit, WorkerOK, TypeOK, Works
  <1>2. \A d \in Events \ {e} : event'[d] = event[d] /\ attempt'[d] = attempt[d]
    BY <1>0, <1>1 DEF ClaimCommit, TypeOK
  <1>3. event'[e].state = "claimed" /\ event'[e].gen = c.gen /\ attempt'[e][c.gen].stage = "claimed"
    <2>1. event'[e] = [event[e] EXCEPT !.state = "claimed", !.gen = c.gen, !.claim = c, !.next = NoTime]
      BY <1>0, <1>1 DEF ClaimCommit, TypeOK
    <2>2. attempt'[e][c.gen] = [attempt[e][c.gen] EXCEPT !.stage = "claimed", !.claim = c]
      BY <1>0, <1>1 DEF ClaimCommit, TypeOK
    <2>3. event[e] \in EventRows /\ attempt[e][c.gen] \in AttemptRows
      BY <1>0, <1>1 DEF TypeOK
    <2>4. event'[e].state = "claimed" /\ event'[e].gen = c.gen
      BY <2>1, <2>3 DEF EventRows
    <2>5. attempt'[e][c.gen].stage = "claimed"
      BY <2>2, <2>3 DEF AttemptRows
    <2> QED
      BY <2>4, <2>5
  <1>4. event[e].gen \in Nat /\ c.gen \in Nat /\ c.gen # 0 /\ event[e].gen < MaxAttempts
    <2>1. event[e].gen \in Nat
      BY <1>0, <1>1, RowNumbers
    <2> QED
      BY <1>1, <2>1, OptionsAssumption DEF Gens
  <1>5. verdict[e][c.gen] = "none"
    <2>1. AttemptOK(e, c.gen) /\ HistoryOK(e, c.gen)
      BY <1>1 DEF IInv, RowsInv, RowOK, HistoryInv
    <2>2. attempt[e][c.gen].stage = "none"
      BY <1>1, <1>4, <2>1 DEF AttemptOK
    <2>3. calls[e][c.gen] \in Nat
      BY <1>0, <1>1 DEF TypeOK
    <2> QED
      BY <2>1, <2>2, <2>3 DEF HistoryOK
  <1>6. Custody' = [Custody EXCEPT ![e] = "held"] /\ Custody[e] = "waiting"
    <2>1. CustodyOf(e)' = "held"
      BY <1>1, <1>3, ViewsAfter
    <2>2. \A d \in Events \ {e} : CustodyOf(d)' = CustodyOf(d)
      BY <1>2, SameView
    <2> QED
      BY <1>1, <2>1, <2>2, CustodyUpdate, Views
  <1>7. Granted' = [Granted EXCEPT ![e] = Granted[e] + 1] /\ Granted[e] = event[e].gen
    <2>1. event'[e].gen = Granted[e] + 1 /\ Granted[e] = event[e].gen
      BY <1>1, <1>3, Views
    <2>2. \A d \in Events \ {e} : event'[d].gen = event[d].gen
      BY <1>2
    <2> QED
      BY <1>1, <2>1, <2>2, GrantedUpdate
  <1>8. Answered' = [Answered EXCEPT ![e] = "none"]
    <2>1. AnswerOf(e)' = "none"
      BY <1>0, <1>1, <1>3, <1>4, <1>5, ViewsAfter
    <2>2. \A d \in Events \ {e} : AnswerOf(d)' = AnswerOf(d)
      BY <1>0, <1>2, SameView
    <2> QED
      BY <1>1, <2>1, <2>2, AnsweredUpdate
  <1> QED
    BY <1>0, <1>1, <1>4, <1>6, <1>7, <1>8, GrantStep

\* A transaction that moves the rows of one event and neither grants nor answers.
LEMMA MoveCustody ==
    ASSUME NEW e \in Events, \A d \in Events \ {e} : event'[d] = event[d] /\ attempt'[d] = attempt[d],
           event'[e].gen = event[e].gen, verdict' = verdict, NEW to, CustodyOf(e)' = to
    PROVE  Custody' = [Custody EXCEPT ![e] = to] /\ Granted' = Granted /\ Answered' = Answered
  <1>1. \A d \in Events \ {e} : CustodyOf(d)' = CustodyOf(d)
    BY SameView
  <1>2. \A d \in Events : event'[d].gen = event[d].gen
    OBVIOUS
  <1>3. \A d \in Events : AnswerOf(d)' = AnswerOf(d)
    BY <1>2 DEF AnswerOf
  <1> QED
    BY <1>1, <1>2, <1>3, CustodyUpdate, QuietUpdate

LEMMA AppendRefines ==
    ASSUME IInv, NEW e \in Events, Append(e)
    PROVE  Contract!ContractNext
  <1>0. TypeOK /\ attempt' = attempt /\ UNCHANGED <<effects, verdict>> /\ event[e].state = "absent"
    BY DEF IInv, Append, handlers
  <1>1. \A d \in Events \ {e} : event'[d] = event[d] /\ attempt'[d] = attempt[d]
    BY <1>0 DEF Append, TypeOK
  <1>2. event'[e].state = "pending" /\ event'[e].gen = event[e].gen
    <2>1. event'[e] = [event[e] EXCEPT !.state = "pending", !.next = Max2(now, NotBefore[e])]
      BY <1>0 DEF Append, TypeOK
    <2>2. event[e] \in EventRows
      BY <1>0 DEF TypeOK
    <2> QED
      BY <2>1, <2>2 DEF EventRows
  <1>3. CustodyOf(e)' = "waiting" /\ Custody[e] = "absent"
    BY <1>0, <1>2, Views, ViewsAfter DEF Claimable
  <1> QED
    BY <1>0, <1>1, <1>2, <1>3, MoveCustody, OfferStep

LEMMA BeginCommitRefines ==
    ASSUME IInv, NEW w \in Workers, BeginCommit(w), NEW e, e = work[w].event, NEW g, g = work[w].claim.gen
    PROVE  Contract!ContractNext
  <1>0. TypeOK /\ WorkerOK(w) /\ event' = event /\ UNCHANGED <<effects, verdict>>
    BY DEF IInv, WorkerInv, BeginCommit, handlers
  <1>1. /\ e \in Events /\ g \in Gens
        /\ event[e].state = "claimed" /\ event[e].gen = g /\ attempt[e][g].stage = "claimed"
    BY <1>0 DEF BeginCommit, WorkerOK, Holding, HasAttempt, Matches, TypeOK, Works
  <1>2. \A d \in Events \ {e} : event'[d] = event[d] /\ attempt'[d] = attempt[d]
    BY <1>0, <1>1 DEF BeginCommit, TypeOK
  <1>3. attempt'[e][g].stage = "invoked"
    <2>1. attempt'[e][g] = [attempt[e][g] EXCEPT !.stage = "invoked", !.invokedAt = work[w].receipt.invokedAt]
      BY <1>0, <1>1 DEF BeginCommit, TypeOK
    <2>2. attempt[e][g] \in AttemptRows
      BY <1>0, <1>1 DEF TypeOK
    <2> QED
      BY <2>1, <2>2 DEF AttemptRows
  <1>4. CustodyOf(e)' = "handed" /\ Custody[e] = "held"
    BY <1>0, <1>1, <1>3, Views, ViewsAfter
  <1> QED
    BY <1>0, <1>1, <1>2, <1>4, MoveCustody, HandStep

LEMMA FinalizeCommitRefines ==
    ASSUME IInv, NEW w \in Workers, FinalizeCommit(w), NEW e, e = work[w].event, NEW c, c = work[w].claim,
           NEW r, r = work[w].receipt
    PROVE  Contract!ContractNext
  <1>0. TypeOK /\ UNCHANGED <<effects, verdict>>
    BY DEF IInv, FinalizeCommit, handlers
  <1> DEFINE a == attempt[e][c.gen]
  <1>1. /\ e \in Events /\ c.gen \in Gens /\ a \in AttemptRows
        /\ event[e].state = "claimed" /\ event[e].gen = c.gen /\ a.stage \in {"claimed", "invoked"}
        /\ r.state \in {"retryable", "acknowledged", "dead_letter"}
        /\ r.state = "acknowledged" => verdict[e][c.gen] = "acknowledge" /\ a.invokedAt # NoTime
        /\ r.state = "retryable" => c.gen < MaxAttempts
        /\ r.state = "retryable" /\ a.invokedAt # NoTime /\ e \notin ReplaySafe => verdict[e][c.gen] = "retry"
    BY FinalizeFacts
  <1>2. AttemptOK(e, c.gen)
    BY <1>1 DEF IInv, RowsInv, RowOK
  <1>3. a.stage = "invoked" <=> a.invokedAt # NoTime
    BY <1>1, <1>2 DEF AttemptOK
  <1>4. \A d \in Events \ {e} : event'[d] = event[d] /\ attempt'[d] = attempt[d]
    BY <1>0, <1>1 DEF FinalizeCommit, TypeOK
  <1>5. event'[e].state = r.state /\ event'[e].gen = event[e].gen
    <2>1. event'[e] = [event[e] EXCEPT !.state = r.state, !.error = r.error, !.next = r.next,
                                       !.finalizedAt = r.finalizedAt, !.claim = NoClaim]
      BY <1>0, <1>1 DEF FinalizeCommit, TypeOK
    <2>2. event[e] \in EventRows
      BY <1>0, <1>1 DEF TypeOK
    <2> QED
      BY <2>1, <2>2 DEF EventRows
  <1>6. /\ Custody[e] = IF a.stage = "invoked" THEN "handed" ELSE "held"
        /\ Granted[e] = c.gen /\ Answered[e] = verdict[e][c.gen]
    <2>1. c.gen # 0
      BY <1>1, OptionsAssumption DEF Gens
    <2> QED
      BY <1>1, <2>1, Views
  <1> HIDE DEF a
  <1>7. CASE r.state = "dead_letter"
    <2>1. CustodyOf(e)' = "dead"
      BY <1>1, <1>5, <1>7, ViewsAfter
    <2> QED
      BY <1>0, <1>1, <1>4, <1>5, <1>6, <2>1, MoveCustody, AbandonStep
  <1>8. CASE r.state = "acknowledged"
    <2>1. CustodyOf(e)' = "acknowledged"
      BY <1>1, <1>5, <1>8, ViewsAfter
    <2>2. Custody' = [Custody EXCEPT ![e] = "acknowledged"] /\ Granted' = Granted /\ Answered' = Answered
      BY <1>0, <1>1, <1>4, <1>5, <2>1, MoveCustody
    <2>3. Custody[e] = "handed" /\ Answered[e] = "acknowledge"
      BY <1>1, <1>3, <1>6, <1>8
    <2> QED
      BY <1>0, <1>1, <2>2, <2>3, AcknowledgeStep
  <1>9. CASE r.state = "retryable"
    <2>1. CustodyOf(e)' = "waiting"
      BY <1>1, <1>5, <1>9, ViewsAfter DEF Claimable
    <2>2. Custody' = [Custody EXCEPT ![e] = "waiting"] /\ Granted' = Granted /\ Answered' = Answered
      BY <1>0, <1>1, <1>4, <1>5, <2>1, MoveCustody
    <2>3. /\ Custody[e] \in {"held", "handed"} /\ Granted[e] < MaxAttempts
          /\ Custody[e] = "handed" => Answered[e] = "retry" \/ e \in ReplaySafe
      BY <1>1, <1>3, <1>6, <1>9
    <2> QED
      BY <1>0, <1>1, <2>2, <2>3, ReturnStep
  <1> QED
    BY <1>1, <1>7, <1>8, <1>9

\* Steps that leave the rows alone.
LEMMA RowsQuiet ==
    ASSUME event' = event, attempt' = attempt
    PROVE  Custody' = Custody /\ Granted' = Granted /\ (verdict' = verdict => Answered' = Answered)
  BY SameView, QuietUpdate

LEMMA HandlerReturnsRefines ==
    ASSUME IInv, NEW w \in Workers, NEW v \in HandlerOutcomes, HandlerReturns(w, v),
           NEW e, e = work[w].event, NEW g, g = work[w].claim.gen
    PROVE  Contract!ContractNext \/ UNCHANGED <<Custody, Granted, Answered, effects>>
  <1>0. TypeOK /\ WorkerOK(w) /\ UNCHANGED <<event, attempt, effects>>
    BY DEF IInv, WorkerInv, HandlerReturns, database
  <1>1. e \in Events /\ g \in Gens /\ verdict[e][g] = "none" /\ (v = "retry" => g \notin effects[e])
    BY <1>0 DEF HandlerReturns, WorkerOK, Holding, HasAttempt, TypeOK, Works
  <1>2. /\ \A d \in Events \ {e} : verdict'[d] = verdict[d]
        /\ verdict'[e][g] = v /\ \A h \in Gens \ {g} : verdict'[e][h] = verdict[e][h]
    BY <1>0, <1>1 DEF HandlerReturns, TypeOK
  <1>3. g # 0 /\ g > 0 /\ event[e].gen \in Gens \cup {0}
    BY <1>0, <1>1, RowNumbers, OptionsAssumption DEF Gens
  <1>4. \A d \in Events \ {e} : AnswerOf(d)' = AnswerOf(d)
    BY <1>0, <1>2, SameView
  <1>5. CASE event[e].gen = g
    <2>1. AnswerOf(e)' = v /\ Answered[e] = "none" /\ Granted[e] = g
      BY <1>0, <1>1, <1>2, <1>3, <1>5, Views, ViewsAfter
    <2> QED
      BY <1>0, <1>1, <1>3, <1>4, <2>1, RowsQuiet, AnsweredUpdate, AnswerStep
  <1>6. CASE event[e].gen # g
    <2>1. AnswerOf(e)' = AnswerOf(e)
      BY <1>0, <1>1, <1>2, <1>3, <1>6 DEF AnswerOf
    <2> QED
      BY <1>0, <1>1, <1>4, <2>1, RowsQuiet, QuietUpdate
  <1> QED
    BY <1>5, <1>6

LEMMA EffectCommitRefines ==
    ASSUME IInv, NEW e \in Events, NEW g \in Gens, EffectCommit(e, g)
    PROVE  Contract!ContractNext
  <1>0. TypeOK /\ HistoryOK(e, g) /\ UNCHANGED <<event, attempt, verdict>> /\ handler[e][g] = "fenced"
    BY DEF IInv, HistoryInv, EffectCommit, database
  <1>1. event[e].state = "claimed" /\ event[e].gen = g /\ attempt[e][g].stage = "invoked" /\ verdict[e][g] = "none"
    BY <1>0 DEF HistoryOK
  <1>2. g # 0
    BY OptionsAssumption DEF Gens
  <1>3. Custody[e] = "handed" /\ Granted[e] = g /\ Answered[e] = "none"
    BY <1>1, <1>2, Views
  <1>4. effects' = [effects EXCEPT ![e] = effects[e] \cup {Granted[e]}]
    BY <1>3 DEF EffectCommit
  <1> QED
    BY <1>0, <1>3, <1>4, RowsQuiet, EffectStep

\* Concurrent workers over leases implement OutboxContract: every step of any
\* number of workers is a step of the contract or leaves it unchanged.
THEOREM Implements == Spec => ImplementsContract
  <1>1. Init => Contract!ContractInit
    <2> SUFFICES ASSUME Init PROVE Contract!ContractInit
      OBVIOUS
    <2>1. \A e \in Events : event[e].state = "absent" /\ event[e].gen = 0
      BY DEF Init
    <2>2. \A e \in Events : CustodyOf(e) = "absent" /\ AnswerOf(e) = "none"
      BY <2>1, Views
    <2> QED
      BY <2>1, <2>2 DEF Init, Contract!ContractInit, Custody, Granted, Answered
  <1>2. IInv /\ [Next]_vars => [Contract!ContractNext]_(Contract!contract)
    <2> SUFFICES ASSUME IInv, [Next]_vars PROVE [Contract!ContractNext]_(Contract!contract)
      OBVIOUS
    <2>1. ASSUME UNCHANGED <<event, attempt, effects, verdict>> PROVE [Contract!ContractNext]_(Contract!contract)
      BY <2>1, RowsQuiet DEF Contract!contract
    <2>2. CASE UNCHANGED <<event, attempt>> /\ UNCHANGED <<handler, effects, verdict, calls>>
      BY <2>1, <2>2
    <2>3. ASSUME NEW w \in Workers, CallHandler(w) PROVE [Contract!ContractNext]_(Contract!contract)
      BY <2>1, <2>3 DEF CallHandler, database
    <2>4. ASSUME NEW e \in Events, NEW g \in Gens, Fence(e, g) \/ HandlerFails(e, g)
          PROVE  [Contract!ContractNext]_(Contract!contract)
      BY <2>1, <2>4 DEF Fence, HandlerFails, database
    <2>5. ASSUME NEW w \in Workers, NEW v \in HandlerOutcomes, HandlerReturns(w, v)
          PROVE  [Contract!ContractNext]_(Contract!contract)
      BY <2>5, HandlerReturnsRefines DEF Contract!contract
    <2>6. ASSUME NEW e \in Events, NEW g \in Gens, EffectCommit(e, g) PROVE Contract!ContractNext
      BY <2>6, EffectCommitRefines
    <2>7. ASSUME NEW e \in Events, Append(e) PROVE Contract!ContractNext
      BY <2>7, AppendRefines
    <2>8. ASSUME NEW w \in Workers, ClaimCommit(w) \/ BeginCommit(w) \/ FinalizeCommit(w)
          PROVE  Contract!ContractNext
      BY <2>8, ClaimCommitRefines, BeginCommitRefines, FinalizeCommitRefines
    <2> QED
      BY <2>2, <2>3, <2>4, <2>5, <2>6, <2>7, <2>8, DatabaseWriters, HandlerWriters
  <1> QED
    BY <1>1, <1>2, Inductive, PTL DEF Spec, ImplementsContract, Contract!ContractSpec
=============================================================================
