---------------------- MODULE CheckerExecution_proofs ----------------------
(***************************************************************************)
(* The evaluation of a submission, for any number of generations and       *)
(* delivery attempts and any budgets that fit the delivery limits:         *)
(* EvaluationInv is inductive, and the safety properties of                *)
(* CheckerExecution follow from it.                                        *)
(***************************************************************************)
EXTENDS CheckerExecution, TLAPS

-----------------------------------------------------------------------------
(* Deliveries and constants.                                               *)

LEMMA GenFacts ==
    /\ Gens \subseteq Nat \ {0} /\ 1 \in Gens
    /\ \A g \in Gens : g <= MaxGen /\ (g < MaxGen => g + 1 \in Gens)
  BY BoundsAssumption DEF Gens

LEMMA DeliveryFacts ==
    ASSUME NEW d \in Deliveries
    PROVE  /\ KindOf(d) \in {"request", "completion"} /\ GenOf(d) \in Gens
           /\ Original(d) \in Deliveries /\ Child(d) \in Deliveries
           /\ KindOf(Original(d)) = KindOf(d) /\ KindOf(Child(d)) = KindOf(d)
           /\ GenOf(Original(d)) = GenOf(d) /\ GenOf(Child(d)) = GenOf(d)
           /\ ~IsChild(Original(d)) /\ IsChild(Child(d))
           /\ Original(Child(d)) = Original(d) /\ Child(Original(d)) = Child(d)
           /\ IsChild(d) => d = Child(d)
           /\ ~IsChild(d) => d = Original(d)
           /\ d \in {<<KindOf(d), GenOf(d), "original">>, <<KindOf(d), GenOf(d), "child">>}
  BY DEF Deliveries, KindOf, GenOf, Original, Child, IsChild

LEMMA EventFacts ==
    ASSUME NEW kind \in {"request", "completion"}, NEW g \in Gens
    PROVE  /\ <<kind, g, "original">> \in Deliveries /\ <<kind, g, "child">> \in Deliveries
           /\ KindOf(<<kind, g, "original">>) = kind /\ KindOf(<<kind, g, "child">>) = kind
           /\ GenOf(<<kind, g, "original">>) = g /\ GenOf(<<kind, g, "child">>) = g
           /\ ~IsChild(<<kind, g, "original">>) /\ IsChild(<<kind, g, "child">>)
           /\ Original(<<kind, g, "child">>) = <<kind, g, "original">>
           /\ Child(<<kind, g, "original">>) = <<kind, g, "child">>
           /\ \A d \in Deliveries : KindOf(d) = kind /\ GenOf(d) = g /\ ~IsChild(d) =>
                 d = <<kind, g, "original">>
  BY DEF Deliveries, KindOf, GenOf, Original, Child, IsChild

LEMMA Limits ==
    /\ Budget \in Nat \ {0} /\ Prelude \in Nat \ {0} /\ Margin \in Nat \ {0} /\ MaxBudget \in Nat \ {0}
    /\ Budget <= MaxBudget /\ CheckerLease \in Nat \ {0} /\ RequestTimeout \in Nat
    /\ MaxAttempts \in Nat \ {0}
    /\ \A d \in Deliveries : Lease(d) \in Nat \ {0} /\ Timeout(d) \in Nat /\ Timeout(d) < Lease(d)
  BY TimingAssumption, BoundsAssumption DEF RequestTimeout, CheckerLease, Lease, Timeout

LEMMA RowTypes ==
    /\ NoRun \in Runs /\ QueuedRun \in Runs /\ NoDelivery \in Custodies
    /\ PendingDelivery \in Custodies /\ NoHandler \in Handlers
    /\ NoRun.status = "none" /\ NoRun.leaseGen = 0 /\ NoRun.leaseAge = 0 /\ NoRun.verdict = "none"
    /\ QueuedRun.status = "queued" /\ QueuedRun.leaseGen = 0 /\ QueuedRun.leaseAge = 0
    /\ QueuedRun.verdict = "none"
    /\ NoDelivery.state = "absent" /\ NoDelivery.attempts = 0 /\ NoDelivery.age = 0
    /\ PendingDelivery.state = "pending" /\ PendingDelivery.attempts = 0 /\ PendingDelivery.age = 0
    /\ NoHandler.at = "none"
  BY DEF NoRun, QueuedRun, Runs, NoDelivery, PendingDelivery, Custodies, NoHandler, Handlers

-----------------------------------------------------------------------------
(* Init.                                                                   *)

LEMMA InitEvaluation == Init => EvaluationInv
  <1> SUFFICES ASSUME Init PROVE EvaluationInv
    OBVIOUS
  <1> USE GenFacts, RowTypes, Limits
  <1>1. TypeOK
    <2>1. run \in [Gens -> Runs] /\ delivery \in [Deliveries -> Custodies]
      BY DEF Init
    <2>2. \A g \in Gens : run[g].leaseAge <= CheckerLease
      BY DEF Init
    <2>3. \A d \in Deliveries : delivery[d].age <= Lease(d) /\ delivery[d].attempts <= MaxAttempts
      BY DEF Init
    <2> QED
      BY <2>1, <2>2, <2>3, BoundsAssumption DEF Init, TypeOK
  <1>2. OneVerdict
    BY DEF Init, OneVerdict
  <1>3. \A g \in Gens : RunOK(g)
    BY DEF Init, RunOK
  <1>4. ASSUME NEW d \in Deliveries PROVE CustodyOK(d) /\ CallOK(d) /\ TimelyOK(d)
    <2>1. handler[d].at = "none"
      BY DEF Init
    <2>2. CallOK(d) /\ TimelyOK(d)
      BY <2>1 DEF CallOK, TimelyOK, OnTime, Executing, PreludeStage
    <2>3. Sent(d) <=> KindOf(d) = "request" /\ GenOf(d) = 1
      BY DeliveryFacts DEF Init, Sent
    <2>4. ~IsChild(d) => (Sent(d) <=> d = <<"request", 1, "original">>)
      BY <2>3, DeliveryFacts, EventFacts
    <2>5. IsChild(d) => d # <<"request", 1, "original">>
      BY EventFacts
    <2>6. CustodyOK(d)
      BY <2>1, <2>4, <2>5 DEF Init, CustodyOK
    <2> QED
      BY <2>2, <2>6
  <1> QED
    BY <1>1, <1>2, <1>3, <1>4 DEF EvaluationInv

-----------------------------------------------------------------------------
(* Steps of one handler call that change nothing else.                     *)

LEMMA InvTypes ==
    ASSUME EvaluationInv
    PROVE  /\ \A g \in Gens : run[g] \in Runs /\ RunOK(g) /\ run[g].leaseAge <= CheckerLease
                              /\ executions[g] \in Nat
           /\ \A d \in Deliveries :
                /\ delivery[d] \in Custodies /\ handler[d] \in Handlers
                /\ delivery[d].age \in Nat /\ delivery[d].attempts \in Nat
                /\ delivery[d].age <= Lease(d) /\ delivery[d].attempts <= MaxAttempts
                /\ CustodyOK(d) /\ CallOK(d) /\ TimelyOK(d)
           /\ fence \in Gens /\ OneVerdict /\ TypeOK
  BY DEF EvaluationInv, TypeOK, Custodies

\* What a call of d may be at, with the rows as they are.
FitsCall(d, h) ==
    /\ h.at = "answered" =>
         /\ delivery[d].state = "live"
         /\ h.answer = "acknowledge" => Committed(d)
         /\ h.answer = "reject" /\ ~IsChild(d) => delivery[d].age >= Lease(d)
    /\ h.at \in {"claim"} \cup Executing => KindOf(d) = "request"
    /\ h.at = "apply" => KindOf(d) = "completion"
    /\ h.at \in Executing => run[GenOf(d)].leaseGen = 1
    /\ h.at \in Executing /\ ~IsChild(d) =>
         handler[d].at \in Executing \/ handler[Child(d)].at # "claim"
    /\ h.at = "select" => handler[d].at = "select"
    /\ h.at = "finalize" => h.result \in Results
    /\ IsChild(d) /\ h.at = "claim" =>
         executions[GenOf(d)] = 0 /\ handler[Original(d)].at \notin Executing
    /\ KindOf(d) = "request" /\ ~IsChild(d) /\ delivery[d].state = "live" /\ ~h.late =>
         OnTime(h, delivery[d].age)

LEMMA CallStep ==
    ASSUME EvaluationInv, NEW d \in Deliveries, NEW h \in Handlers, Goto(d, h),
           UNCHANGED <<checkers, tasks, delivery, executions>>,
           handler[d].at # "none", FitsCall(d, h)
    PROVE  EvaluationInv'
  <1> USE InvTypes, DeliveryFacts
  <1>0. /\ handler \in [Deliveries -> Handlers]
        /\ UNCHANGED <<run, fence, task, routed, human, delivery, executions>>
    BY DEF TypeOK, checkers, tasks
  <1>1. /\ handler' \in [Deliveries -> Handlers] /\ handler'[d] = h
        /\ \A e \in Deliveries : e # d => handler'[e] = handler[e]
    BY <1>0 DEF Goto
  <1>2. TypeOK' /\ OneVerdict'
    BY <1>0, <1>1 DEF TypeOK, OneVerdict
  <1>3. \A g \in Gens : RunOK(g)'
    BY <1>0 DEF RunOK
  <1>4. ASSUME NEW e \in Deliveries PROVE CustodyOK(e)'
    <2>0. Sent(e)' = Sent(e) /\ Committed(e)' = Committed(e)
      BY <1>0 DEF Sent, Committed
    <2>1. delivery[e].state \in {"absent", "pending"} => e # d
      BY DEF CustodyOK
    <2>2. CustodyOK(e)
      OBVIOUS
    <2> QED
      BY <2>0, <2>1, <2>2, <1>0, <1>1 DEF CustodyOK
  <1>5. ASSUME NEW e \in Deliveries PROVE CallOK(e)'
    <2>0. Committed(e)' = Committed(e)
      BY <1>0 DEF Committed
    <2>1. CASE e = d
      <3>1. CallOK(d) /\ Original(d) \in Deliveries /\ (IsChild(d) => Original(d) # d)
        OBVIOUS
      <3> QED
        BY <2>0, <2>1, <3>1, <1>0, <1>1 DEF CallOK, FitsCall
    <2>2. CASE e # d
      <3>1. CallOK(e) /\ Original(e) \in Deliveries
        OBVIOUS
      <3>2. IsChild(e) /\ handler[e].at = "claim" /\ handler'[Original(e)].at \in Executing =>
              handler[Original(e)].at \in Executing
        <4>1. IsChild(e) /\ Original(e) = d => ~IsChild(d) /\ Child(d) = e
          OBVIOUS
        <4> QED
          BY <3>1, <4>1, <1>1 DEF FitsCall
      <3>3. handler'[Original(e)].at = "select" => handler[Original(e)].at = "select"
        BY <3>1, <1>1 DEF FitsCall
      <3> QED
        BY <2>0, <2>2, <3>1, <3>2, <3>3, <1>0, <1>1 DEF CallOK
    <2> QED
      BY <2>1, <2>2
  <1>6. ASSUME NEW e \in Deliveries PROVE TimelyOK(e)'
    <2>1. TimelyOK(e)
      OBVIOUS
    <2> QED
      BY <2>1, <1>0, <1>1 DEF TimelyOK, FitsCall, OnTime
  <1> QED
    BY <1>2, <1>3, <1>4, <1>5, <1>6 DEF EvaluationInv

\* The call ends with answer a, or silently when nobody waits for it.
LEMMA AnswerStep ==
    ASSUME EvaluationInv, NEW d \in Deliveries, NEW a \in Answers, Answer(d, a),
           UNCHANGED <<checkers, tasks, delivery, executions>>,
           handler[d].at # "none",
           a = "acknowledge" => Committed(d),
           a = "reject" /\ ~IsChild(d) /\ delivery[d].state = "live" => delivery[d].age >= Lease(d)
    PROVE  EvaluationInv'
  <1> DEFINE h == IF delivery[d].state = "live"
                  THEN [NoHandler EXCEPT !.at = "answered", !.answer = a] ELSE NoHandler
  <1>1. h \in Handlers /\ Goto(d, h)
    BY RowTypes DEF Answer, Handlers
  <1>2. h.at \in {"none", "answered"} /\ (h.at = "answered" => delivery[d].state = "live" /\ h.answer = a)
    BY DEF NoHandler
  <1> HIDE DEF h
  <1>3. FitsCall(d, h)
    BY <1>2 DEF FitsCall, Executing, OnTime, PreludeStage
  <1> QED
    BY <1>1, <1>3, CallStep

-----------------------------------------------------------------------------
LEMMA ObserveStep == ASSUME EvaluationInv, NEW d \in Deliveries, Observe(d) PROVE EvaluationInv'
  <1> USE InvTypes, DeliveryFacts DEF Observe
  <1>1. CASE Fenced(d)
    <2> DEFINE h == [handler[d] EXCEPT !.at = Enter(d)]
    <2>1. h \in Handlers /\ Goto(d, h)
      BY <1>1 DEF Handlers, Enter, Working, PreludeStage
    <2>2. h.at = Enter(d) /\ h.age = handler[d].age /\ h.late = handler[d].late
      BY DEF Handlers
    <2>3. OnTime(handler[d], delivery[d].age) => OnTime(h, delivery[d].age)
      BY <2>2 DEF OnTime, Enter, PreludeStage
    <2> HIDE DEF h
    <2>4. FitsCall(d, h)
      BY <2>2, <2>3 DEF FitsCall, Enter, TimelyOK, Executing
    <2> QED
      BY <2>1, <2>4, CallStep
  <1>2. CASE ~Fenced(d)
    <2>1. Answer(d, "reject")
      BY <1>2
    <2>2. delivery[d].state = "live" => delivery[d].age >= Lease(d)
      BY <1>2, Limits DEF Fenced
    <2> QED
      BY <2>1, <2>2, AnswerStep DEF Answers
  <1> QED
    BY <1>1, <1>2

LEMMA ReclassifyStep == ASSUME EvaluationInv, NEW d \in Deliveries, Reclassify(d) PROVE EvaluationInv'
  <1> USE InvTypes, DeliveryFacts DEF Reclassify
  <1>1. CASE Fenced(d) /\ Classify(d) = "committed"
    <2>1. Answer(d, "acknowledge")
      BY <1>1
    <2>2. Committed(d)
      BY <1>1 DEF Classify, ClassifyRequest, ClassifyCompletion, Committed, Retained
    <2> QED
      BY <2>1, <2>2, AnswerStep DEF Answers
  <1>2. CASE Fenced(d) /\ Classify(d) = "retry_safe"
    <2> DEFINE h == [handler[d] EXCEPT !.at = Enter(d)]
    <2>1. h \in Handlers /\ Goto(d, h)
      BY <1>2 DEF Handlers, Enter, Working, PreludeStage
    <2>2. h.at = Enter(d)
      BY DEF Handlers
    <2> HIDE DEF h
    <2>3. ASSUME KindOf(d) = "request"
          PROVE  executions[GenOf(d)] = 0 /\ handler[Original(d)].at \notin Executing
      <3>1. run[GenOf(d)].leaseGen = 0
        BY <1>2, <2>3 DEF Classify, ClassifyRequest
      <3>2. executions[GenOf(d)] = 0
        BY <3>1 DEF RunOK
      <3>3. CallOK(Original(d)) /\ GenOf(Original(d)) = GenOf(d)
        OBVIOUS
      <3> QED
        BY <3>1, <3>2, <3>3 DEF CallOK
    <2>4. FitsCall(d, h)
      BY <2>2, <2>3 DEF FitsCall, Enter, Executing
    <2> QED
      BY <2>1, <2>4, CallStep
  <1>3. CASE ~(Fenced(d) /\ Classify(d) \in {"committed", "retry_safe"})
    <2>1. Answer(d, "reject")
      BY <1>3
    <2> QED
      BY <2>1, AnswerStep DEF Answers
  <1> QED
    BY <1>1, <1>2, <1>3

LEMMA HandlerTypes ==
    ASSUME NEW h \in Handlers
    PROVE  /\ \A r \in Results : [h EXCEPT !.at = "finalize", !.age = 0, !.result = r] \in Handlers
           /\ [h EXCEPT !.age = 0, !.late = FALSE] \in Handlers
           /\ [h EXCEPT !.age = 0, !.late = FALSE].at = h.at
           /\ [h EXCEPT !.age = 0, !.late = FALSE].result = h.result
  BY DEF Handlers, Working

LEMMA EvaluatedStep ==
    ASSUME EvaluationInv, NEW d \in Deliveries, NEW r \in Results, Evaluated(d, r)
    PROVE  EvaluationInv'
  <1> USE InvTypes, DeliveryFacts, Limits DEF Evaluated
  <1> DEFINE h == [handler[d] EXCEPT !.at = "finalize", !.age = 0, !.result = r]
  <1>1. h \in Handlers /\ Goto(d, h)
    BY HandlerTypes
  <1>2. h.at = "finalize" /\ h.age = 0 /\ h.result = r /\ h.late = handler[d].late
    BY DEF Handlers
  <1> HIDE DEF h
  <1>3. handler[d].age \in Nat
    BY DEF Handlers
  <1>4. OnTime(handler[d], delivery[d].age) => OnTime(h, delivery[d].age)
    BY <1>2, <1>3 DEF OnTime, PreludeStage
  <1>5. KindOf(d) = "request" /\ run[GenOf(d)].leaseGen = 1
    BY DEF CallOK, Executing
  <1>6. FitsCall(d, h)
    BY <1>2, <1>4, <1>5 DEF FitsCall, TimelyOK, Executing
  <1> QED
    BY <1>1, <1>6, CallStep

LEMMA DeferStep == ASSUME EvaluationInv, NEW d \in Deliveries, Defer(d) PROVE EvaluationInv'
  BY AnswerStep DEF Defer, Answers

LEMMA ChildRefusedStep ==
    ASSUME EvaluationInv, NEW d \in Deliveries, ChildRefused(d) PROVE EvaluationInv'
  BY AnswerStep DEF ChildRefused, Answers

LEMMA FailStep == ASSUME EvaluationInv, NEW d \in Deliveries, Fail(d) PROVE EvaluationInv'
  BY AnswerStep DEF Fail, Answers, Working, PreludeStage

LEMMA WorkerLostStep ==
    ASSUME EvaluationInv, NEW d \in Deliveries, WorkerLost(d) PROVE EvaluationInv'
  <1>1. FitsCall(d, NoHandler)
    BY RowTypes DEF FitsCall, Executing, OnTime, PreludeStage
  <1>2. handler[d].at # "none"
    BY DEF WorkerLost, Working, PreludeStage
  <1> QED
    BY <1>1, <1>2, RowTypes, CallStep DEF WorkerLost

-----------------------------------------------------------------------------
(* Steps of the outbox: the custody of one delivery and its call.          *)

\* The custody c and the call h that replace those of d.
FitsCustody(d, c, h) ==
    /\ c.age <= Lease(d) /\ c.attempts <= MaxAttempts
    /\ ~IsChild(d) => (c.state # "absent" <=> Sent(d)) /\ c.state # "rejected"
    /\ IsChild(d) /\ c.state # "absent" => delivery[Original(d)].state = "unknown"
    /\ c.state = "pending" => c.attempts < MaxAttempts
    /\ c.state \in {"absent", "pending"} => h.at = "none"
    /\ c.state = "acknowledged" => Committed(d)
    /\ delivery[d].state # "unknown"
    /\ h.at # "answered"
    /\ h.at \in {"none", "observe"} \/ (h.at = handler[d].at /\ h.result = handler[d].result)
    /\ c.state = "live" => OnTime(h, c.age)

LEMMA CustodyStep ==
    ASSUME EvaluationInv, NEW d \in Deliveries, NEW c \in Custodies, NEW h \in Handlers,
           SetDelivery(d, c), Goto(d, h), UNCHANGED <<checkers, tasks, executions>>,
           FitsCustody(d, c, h)
    PROVE  EvaluationInv'
  <1> USE InvTypes, DeliveryFacts
  <1>0. /\ handler \in [Deliveries -> Handlers] /\ delivery \in [Deliveries -> Custodies]
        /\ UNCHANGED <<run, fence, task, routed, human, executions>>
    BY DEF TypeOK, checkers, tasks
  <1>1. /\ handler' \in [Deliveries -> Handlers] /\ handler'[d] = h
        /\ \A e \in Deliveries : e # d => handler'[e] = handler[e]
    BY <1>0 DEF Goto
  <1>2. /\ delivery' \in [Deliveries -> Custodies] /\ delivery'[d] = c
        /\ \A e \in Deliveries : e # d => delivery'[e] = delivery[e]
    BY <1>0 DEF SetDelivery
  <1>3. TypeOK' /\ OneVerdict'
    <2>1. \A e \in Deliveries : delivery'[e].age <= Lease(e) /\ delivery'[e].attempts <= MaxAttempts
      BY <1>2 DEF FitsCustody
    <2> QED
      BY <1>0, <1>1, <1>2, <2>1 DEF TypeOK, OneVerdict
  <1>4. \A g \in Gens : RunOK(g)'
    BY <1>0 DEF RunOK
  <1>5. ASSUME NEW e \in Deliveries PROVE CustodyOK(e)'
    <2>0. Sent(e)' = Sent(e) /\ Committed(e)' = Committed(e)
      BY <1>0 DEF Sent, Committed
    <2>1. CASE e = d
      <3>1. IsChild(d) => Original(d) \in Deliveries /\ Original(d) # d
        OBVIOUS
      <3> QED
        BY <2>0, <2>1, <3>1, <1>1, <1>2 DEF CustodyOK, FitsCustody
    <2>2. CASE e # d
      <3>1. CustodyOK(e) /\ Original(e) \in Deliveries
        OBVIOUS
      <3>2. delivery[Original(e)].state = "unknown" => delivery'[Original(e)].state = "unknown"
        BY <3>1, <1>2 DEF FitsCustody
      <3> QED
        BY <2>0, <2>2, <3>1, <3>2, <1>1, <1>2 DEF CustodyOK
    <2> QED
      BY <2>1, <2>2
  <1>6. ASSUME NEW e \in Deliveries PROVE CallOK(e)'
    <2>0. Committed(e)' = Committed(e)
      BY <1>0 DEF Committed
    <2>1. CallOK(e) /\ Original(e) \in Deliveries /\ (IsChild(e) => Original(e) # e)
      OBVIOUS
    <2>2. handler'[Original(e)].at \in Executing => handler[Original(e)].at \in Executing
      BY <2>1, <1>1 DEF FitsCustody, Executing
    <2>3. handler'[Original(e)].at = "select" => handler[Original(e)].at = "select"
      BY <2>1, <1>1 DEF FitsCustody
    <2>4. CASE e = d
      BY <2>0, <2>1, <2>2, <2>3, <2>4, <1>0, <1>1 DEF CallOK, FitsCustody, Executing
    <2>5. CASE e # d
      BY <2>0, <2>1, <2>2, <2>3, <2>5, <1>0, <1>1, <1>2 DEF CallOK
    <2> QED
      BY <2>4, <2>5
  <1>7. ASSUME NEW e \in Deliveries PROVE TimelyOK(e)'
    <2>1. TimelyOK(e)
      OBVIOUS
    <2> QED
      BY <2>1, <1>0, <1>1, <1>2 DEF TimelyOK, FitsCustody, OnTime
  <1> QED
    BY <1>3, <1>4, <1>5, <1>6, <1>7 DEF EvaluationInv

LEMMA InvokeStep == ASSUME EvaluationInv, NEW d \in Deliveries, Invoke(d) PROVE EvaluationInv'
  <1> USE InvTypes, DeliveryFacts, Limits
  <1> DEFINE c == [state |-> "live", attempts |-> delivery[d].attempts + 1, age |-> 0]
             h == [NoHandler EXCEPT !.at = "observe"]
  <1>1. c \in Custodies /\ h \in Handlers /\ SetDelivery(d, c) /\ Goto(d, h)
    BY RowTypes DEF Invoke, Custodies, Handlers, Working, PreludeStage
  <1>2. h.at = "observe" /\ h.age = 0
    BY DEF NoHandler
  <1>3. c.state = "live" /\ c.attempts = delivery[d].attempts + 1 /\ c.age = 0
    OBVIOUS
  <1> HIDE DEF c, h
  <1>4. OnTime(h, c.age)
    BY <1>2, <1>3 DEF OnTime, PreludeStage
  <1>5. CustodyOK(d) /\ delivery[d].state = "pending"
    BY DEF Invoke
  <1>6. FitsCustody(d, c, h)
    BY <1>2, <1>3, <1>4, <1>5 DEF FitsCustody, CustodyOK
  <1> QED
    BY <1>1, <1>6, CustodyStep DEF Invoke

\* Closing a delivery, or giving it back after n attempts, keeps the budget.
LEMMA ClosedFacts ==
    ASSUME NEW n \in Nat, NEW s \in {"pending", "acknowledged"} \cup Dead, s = "pending" => n < MaxAttempts
    PROVE  /\ Closed(s, n) \in Custodies /\ Closed(s, n).state = s /\ Closed(s, n).age = 0
           /\ Closed(s, n).attempts <= MaxAttempts
           /\ s = "pending" => Closed(s, n).attempts < MaxAttempts
  BY Limits DEF Closed, Custodies

LEMMA AfterRetryFacts ==
    ASSUME NEW n \in Nat
    PROVE  AfterRetry(n) \in {"pending", "exhausted"} /\ (AfterRetry(n) = "pending" => n < MaxAttempts)
  BY Limits DEF AfterRetry

LEMMA ClaimLapsesStep ==
    ASSUME EvaluationInv, NEW d \in Deliveries, ClaimLapses(d) PROVE EvaluationInv'
  <1> USE InvTypes, DeliveryFacts, Limits
  <1>1. PICK n \in Nat : n = delivery[d].attempts + 1
    OBVIOUS
  <1>2. PICK s : s = AfterRetry(n) /\ SetDelivery(d, Closed(s, n))
    BY <1>1 DEF ClaimLapses
  <1>3. s \in {"pending", "exhausted"} /\ (s = "pending" => n < MaxAttempts)
    BY <1>2, AfterRetryFacts
  <1>4. PICK c : c = Closed(s, n)
    OBVIOUS
  <1>5. /\ c \in Custodies /\ c.state = s /\ c.age = 0 /\ c.attempts <= MaxAttempts
        /\ s = "pending" => c.attempts < MaxAttempts
    BY <1>3, <1>4, ClosedFacts DEF Dead
  <1>6. handler[d] \in Handlers /\ Goto(d, handler[d])
    BY DEF ClaimLapses, Goto, TypeOK
  <1>7. CustodyOK(d) /\ delivery[d].state = "pending"
    BY DEF ClaimLapses
  <1>8. FitsCustody(d, c, handler[d])
    BY <1>3, <1>5, <1>7 DEF FitsCustody, CustodyOK
  <1> QED
    BY <1>2, <1>4, <1>5, <1>6, <1>8, CustodyStep DEF ClaimLapses

LEMMA SettleStep == ASSUME EvaluationInv, NEW d \in Deliveries, Settle(d) PROVE EvaluationInv'
  <1> USE InvTypes, DeliveryFacts, Limits
  <1>0. PICK n \in Nat : n = delivery[d].attempts
    BY DEF Settle
  <1>1. PICK s : n = delivery[d].attempts /\ s = Settled(d) /\ SetDelivery(d, Closed(s, n))
    BY <1>0 DEF Settle
  <1>2. /\ s \in {"pending", "acknowledged"} \cup Dead /\ (s = "pending" => n < MaxAttempts)
        /\ s = "acknowledged" => handler[d].answer = "acknowledge"
        /\ s = "rejected" => handler[d].answer = "reject"
    BY <1>1, AfterRetryFacts DEF Settled, Dead
  <1>3. PICK c : c = Closed(s, n)
    OBVIOUS
  <1>4. /\ c \in Custodies /\ c.state = s /\ c.age = 0 /\ c.attempts <= MaxAttempts
        /\ s = "pending" => c.attempts < MaxAttempts
    BY <1>2, <1>3, ClosedFacts
  <1>5. CustodyOK(d) /\ CallOK(d) /\ delivery[d].state = "live" /\ handler[d].at = "answered"
    BY DEF Settle
  <1>6. ~IsChild(d) => s # "rejected"
    BY <1>2, <1>5 DEF CallOK, Settle
  <1>7. FitsCustody(d, c, NoHandler)
    BY <1>2, <1>4, <1>5, <1>6, RowTypes DEF FitsCustody, CustodyOK, CallOK, Dead
  <1> QED
    BY <1>1, <1>3, <1>4, <1>7, RowTypes, CustodyStep DEF Settle

LEMMA UnansweredStep ==
    ASSUME EvaluationInv, NEW d \in Deliveries, Unanswered(d) PROVE EvaluationInv'
  <1> USE InvTypes, DeliveryFacts, Limits
  <1>1. PICK c : c = Closed("unknown", delivery[d].attempts)
    OBVIOUS
  <1>2. /\ c \in Custodies /\ c.state = "unknown" /\ c.age = 0 /\ c.attempts <= MaxAttempts
    BY <1>1, ClosedFacts DEF Dead
  <1>3. PICK h : h = IF handler[d].at = "answered" THEN NoHandler
                     ELSE [handler[d] EXCEPT !.age = 0, !.late = FALSE]
    OBVIOUS
  <1>4. /\ h \in Handlers
        /\ h.at = "none" \/ (h.at = handler[d].at /\ h.at # "answered" /\ h.result = handler[d].result)
    BY <1>3, RowTypes, HandlerTypes
  <1>5. CustodyOK(d) /\ delivery[d].state = "live"
    BY DEF Unanswered
  <1>6. FitsCustody(d, c, h)
    BY <1>2, <1>4, <1>5 DEF FitsCustody, CustodyOK
  <1> QED
    BY <1>1, <1>2, <1>3, <1>4, <1>6, CustodyStep DEF Unanswered

LEMMA ReconcileStep ==
    ASSUME EvaluationInv, NEW d \in Deliveries, Reconcile(d) PROVE EvaluationInv'
  <1> USE InvTypes, DeliveryFacts, Limits
  <1>1. PICK e \in Deliveries : e = Child(d)
    OBVIOUS
  <1>2. /\ IsChild(e) /\ Original(e) = d /\ delivery[e].state = "absent"
        /\ delivery[d].state = "unknown"
    BY <1>1 DEF Reconcile
  <1>3. CustodyOK(e)
    OBVIOUS
  <1>4. handler[e] \in Handlers /\ handler[e].at = "none"
    BY <1>2, <1>3 DEF CustodyOK
  <1>5. Goto(e, handler[e]) /\ SetDelivery(e, PendingDelivery)
    BY <1>1 DEF Reconcile, Goto, TypeOK
  <1>6. FitsCustody(e, PendingDelivery, handler[e])
    BY <1>2, <1>4, RowTypes DEF FitsCustody
  <1> QED
    BY <1>4, <1>5, <1>6, RowTypes, CustodyStep DEF Reconcile

-----------------------------------------------------------------------------
(* The executor.                                                           *)

LEMMA Siblings ==
    ASSUME NEW d \in Deliveries, NEW e \in Deliveries, KindOf(d) = KindOf(e), GenOf(d) = GenOf(e)
    PROVE  e = d \/ (IsChild(e) /\ Original(e) = d) \/ (IsChild(d) /\ Original(d) = e)
  BY DEF Deliveries, KindOf, GenOf, Original, IsChild

\* An event that is not in doubt has no child.
LEMMA NoChildYet ==
    ASSUME EvaluationInv, NEW d \in Deliveries, ~IsChild(d), delivery[d].state # "unknown"
    PROVE  delivery[Child(d)].state = "absent" /\ handler[Child(d)].at = "none"
  <1>1. Child(d) \in Deliveries /\ IsChild(Child(d)) /\ Original(Child(d)) = d
    BY DeliveryFacts
  <1>2. CustodyOK(Child(d))
    BY <1>1, InvTypes
  <1> QED
    BY <1>1, <1>2 DEF CustodyOK

\* A run that was never leased has no executor and no execution.
LEMMA UnleasedIsIdle ==
    ASSUME EvaluationInv, NEW d \in Deliveries, run[GenOf(d)].leaseGen = 0
    PROVE  handler[d].at \notin Executing /\ executions[GenOf(d)] = 0
  BY InvTypes, DeliveryFacts DEF CallOK, RunOK

LEMMA ClaimTypes ==
    ASSUME NEW h \in Handlers, NEW n \in Nat
    PROVE  /\ \A r \in Results :
                 [h EXCEPT !.at = "finalize", !.lease = n, !.age = 0, !.result = r] \in Handlers
           /\ [h EXCEPT !.at = "select", !.lease = n, !.age = 0] \in Handlers
           /\ [h EXCEPT !.at = "execute"] \in Handlers
  BY DEF Handlers, Working

LEMMA ClaimStoredStep ==
    ASSUME EvaluationInv, NEW d \in Deliveries, Claim(d), run[GenOf(d)].status \in TerminalRun
    PROVE  EvaluationInv'
  <1> USE InvTypes, DeliveryFacts, Limits
  <1>1. PICK r, n : r = Stored(run[GenOf(d)]) /\ n = run[GenOf(d)].leaseGen
    OBVIOUS
  <1>2. r \in Results /\ n \in Nat /\ run[GenOf(d)].leaseGen = 1
    BY <1>1 DEF Stored, Results, Runs, RunOK, TerminalRun
  <1> DEFINE h == [handler[d] EXCEPT !.at = "finalize", !.lease = n, !.age = 0, !.result = r]
  <1>3. h \in Handlers
    BY <1>2, ClaimTypes
  <1>4. Goto(d, h)
    BY <1>1 DEF Claim
  <1>5. h.at = "finalize" /\ h.age = 0 /\ h.result = r /\ h.late = handler[d].late
    BY DEF Handlers
  <1> HIDE DEF h
  <1>6. handler[d].at = "claim" /\ handler[d].age \in Nat /\ Fenced(d)
    BY DEF Claim, Handlers
  <1>7. OnTime(handler[d], delivery[d].age) => OnTime(h, delivery[d].age)
    BY <1>5, <1>6 DEF OnTime, PreludeStage
  <1>8. KindOf(d) = "request"
    BY <1>6 DEF CallOK
  <1>9. ~IsChild(d) => handler[Child(d)].at # "claim"
    BY <1>6, NoChildYet DEF Fenced
  <1>10. FitsCall(d, h)
    BY <1>2, <1>5, <1>6, <1>7, <1>8, <1>9 DEF FitsCall, TimelyOK, Executing
  <1> QED
    BY <1>3, <1>4, <1>6, <1>10, CallStep DEF Claim, checkers

LEMMA LeaseRowFacts ==
    ASSUME NEW r \in Runs
    PROVE  /\ LeaseRow(r) \in Runs /\ LeaseRow(r).status = "running"
           /\ LeaseRow(r).leaseGen = r.leaseGen + 1 /\ LeaseRow(r).leaseAge = 0
           /\ LeaseRow(r).verdict = r.verdict
  <1>1. r.leaseGen \in Nat
    BY DEF Runs
  <1>2. PICK n \in Nat : n = r.leaseGen + 1
    BY <1>1
  <1>3. LeaseRow(r) = [r EXCEPT !.status = "running", !.leaseGen = n, !.leaseAge = 0]
    BY <1>2 DEF LeaseRow
  <1>4. LeaseRow(r) \in Runs
    <2>1. [r EXCEPT !.status = "running", !.leaseGen = n, !.leaseAge = 0] \in Runs
      BY DEF Runs
    <2> QED
      BY <1>3, <2>1
  <1>5. /\ LeaseRow(r).status = "running" /\ LeaseRow(r).leaseGen = n
        /\ LeaseRow(r).leaseAge = 0 /\ LeaseRow(r).verdict = r.verdict
    BY <1>3 DEF Runs
  <1> QED
    BY <1>2, <1>4, <1>5

LEMMA ClaimLeaseStep ==
    ASSUME EvaluationInv, NEW d \in Deliveries, Claim(d), run[GenOf(d)].status \notin TerminalRun
    PROVE  EvaluationInv'
  <1> USE InvTypes, DeliveryFacts, Limits
  <1>1. PICK g \in Gens, row \in Runs : g = GenOf(d) /\ row = run[g]
    OBVIOUS
  <1>2. /\ ClaimAdmitted(d) /\ run' = [run EXCEPT ![g] = LeaseRow(row)]
        /\ UNCHANGED <<fence, task, routed, human, delivery, executions>>
        /\ handler[d].at = "claim" /\ KindOf(d) = "request"
    BY <1>1 DEF Claim, CallOK, tasks
  <1>3. /\ fence = g /\ row.leaseGen = 0 /\ row.status = "queued" /\ Fenced(d) /\ RunOK(g)
        /\ row.verdict = "none"
    BY <1>1, <1>2 DEF ClaimAdmitted, Current, RunOK, TerminalRun, Runs
  <1> DEFINE h == [handler[d] EXCEPT !.at = "select", !.lease = row.leaseGen + 1, !.age = 0]
  <1>4. h \in Handlers
    <2>1. PICK n \in Nat : n = row.leaseGen + 1
      BY <1>3
    <2> QED
      BY <2>1, ClaimTypes
  <1>5. Goto(d, h)
    BY <1>1 DEF Claim
  <1>6. h.at = "select" /\ h.age = 0 /\ h.late = handler[d].late
    BY DEF Handlers
  <1> HIDE DEF h
  <1>7. /\ handler' \in [Deliveries -> Handlers] /\ handler'[d] = h
        /\ \A e \in Deliveries : e # d => handler'[e] = handler[e]
    BY <1>4, <1>5 DEF Goto, TypeOK
  <1>8. /\ run' \in [Gens -> Runs] /\ run'[g] = LeaseRow(row)
        /\ \A k \in Gens : k # g => run'[k] = run[k]
    BY <1>2, LeaseRowFacts DEF TypeOK
  <1>9. /\ run'[g].status = "running" /\ run'[g].leaseGen = 1 /\ run'[g].leaseAge = 0
        /\ run'[g].verdict = "none"
    BY <1>3, <1>8, LeaseRowFacts
  <1>10. \A e \in Deliveries : GenOf(e) = g => handler[e].at \notin Executing /\ executions[g] = 0
    BY <1>1, <1>3, UnleasedIsIdle
  <1>11. \A e \in Deliveries : (Sent(e)' <=> Sent(e)) /\ (Committed(e)' <=> Committed(e))
    BY <1>1, <1>2, <1>3, <1>8, <1>9 DEF Sent, Committed, TerminalRun
  <1>12. TypeOK'
    <2>1. \A k \in Gens : run'[k].leaseAge <= CheckerLease
      BY <1>8, <1>9
    <2> QED
      BY <1>2, <1>7, <1>8, <2>1 DEF TypeOK
  <1>13. OneVerdict'
    <2>1. \A k \in Gens : run'[k].status = "completed" => run[k].status = "completed"
      BY <1>8, <1>9
    <2>2. routed # 0 => routed \in Gens /\ routed # g
      BY <1>1, <1>3 DEF OneVerdict, TypeOK, Gens
    <2> QED
      BY <1>2, <1>8, <2>1, <2>2 DEF OneVerdict
  <1>14. \A k \in Gens : RunOK(k)'
    BY <1>2, <1>3, <1>8, <1>9, <1>1, <1>10 DEF RunOK
  <1>15. ASSUME NEW e \in Deliveries PROVE CustodyOK(e)'
    <2>1. CustodyOK(e) /\ delivery[d].state = "live"
      BY <1>3 DEF Fenced
    <2> QED
      BY <2>1, <1>2, <1>7, <1>11 DEF CustodyOK
  <1>16. ASSUME NEW e \in Deliveries PROVE CallOK(e)'
    <2>1. CallOK(e) /\ GenOf(e) \in Gens /\ Original(e) \in Deliveries /\ GenOf(Original(e)) = GenOf(e)
          /\ (IsChild(e) => Original(e) # e)
      OBVIOUS
    <2>2. CASE e = d
      <3>1. IsChild(d) => handler'[Original(d)].at # "select"
        BY <1>1, <1>7, <1>10, <2>1, <2>2 DEF Executing
      <3> QED
        BY <2>1, <2>2, <3>1, <1>1, <1>2, <1>6, <1>7, <1>9, <1>10 DEF CallOK, Executing
    <2>3. CASE e # d
      <3>1. handler[e].at \in Executing => run'[GenOf(e)] = run[GenOf(e)]
        BY <1>8, <1>10, <2>1
      <3>2. IsChild(e) /\ Original(e) = d => handler[e].at = "none"
        BY <1>3, NoChildYet DEF Fenced
      <3> QED
        BY <2>1, <2>3, <3>1, <3>2, <1>2, <1>7, <1>11 DEF CallOK, Executing
    <2> QED
      BY <2>2, <2>3
  <1>17. ASSUME NEW e \in Deliveries PROVE TimelyOK(e)'
    <2>1. TimelyOK(e) /\ handler[d].age \in Nat
      BY DEF Handlers
    <2>2. CASE e = d
      BY <2>1, <2>2, <1>2, <1>6, <1>7 DEF TimelyOK, OnTime, PreludeStage
    <2>3. CASE e # d
      BY <2>1, <2>3, <1>2, <1>7 DEF TimelyOK, OnTime
    <2> QED
      BY <2>2, <2>3
  <1> QED
    BY <1>12, <1>13, <1>14, <1>15, <1>16, <1>17 DEF EvaluationInv

LEMMA MaterializeStep ==
    ASSUME EvaluationInv, NEW d \in Deliveries, Materialize(d) PROVE EvaluationInv'
  <1> USE InvTypes, DeliveryFacts, Limits
  <1>1. PICK g \in Gens : g = GenOf(d)
    OBVIOUS
  <1>2. /\ UNCHANGED <<run, fence, task, routed, human, delivery>>
        /\ handler[d].at = "select" /\ KindOf(d) = "request" /\ CallOK(d)
        /\ run[g].leaseGen = 1 /\ executions[g] = 0
    BY <1>1 DEF Materialize, CallOK, checkers, tasks, Executing
  <1>3. /\ executions' \in [Gens -> Nat] /\ executions'[g] = 1
        /\ \A k \in Gens : k # g => executions'[k] = executions[k]
    BY <1>1, <1>2 DEF Materialize, TypeOK
  <1> DEFINE h == [handler[d] EXCEPT !.at = "execute"]
  <1>4. h \in Handlers /\ Goto(d, h)
    BY ClaimTypes DEF Materialize, Results
  <1>5. h.at = "execute" /\ h.age = handler[d].age /\ h.late = handler[d].late
    BY DEF Handlers
  <1> HIDE DEF h
  <1>6. /\ handler' \in [Deliveries -> Handlers] /\ handler'[d] = h
        /\ \A e \in Deliveries : e # d => handler'[e] = handler[e]
    BY <1>4 DEF Goto, TypeOK
  <1>7. TypeOK' /\ OneVerdict'
    BY <1>2, <1>3, <1>6 DEF TypeOK, OneVerdict
  <1>8. \A k \in Gens : RunOK(k)'
    BY <1>2, <1>3 DEF RunOK
  <1>9. ASSUME NEW e \in Deliveries PROVE CustodyOK(e)'
    <2>1. CustodyOK(e) /\ Sent(e)' = Sent(e) /\ Committed(e)' = Committed(e)
      BY <1>2 DEF Sent, Committed
    <2> QED
      BY <2>1, <1>2, <1>5, <1>6 DEF CustodyOK
  <1>10. ASSUME NEW e \in Deliveries PROVE CallOK(e)'
    <2>1. CallOK(e) /\ GenOf(e) \in Gens /\ Original(e) \in Deliveries /\ GenOf(Original(e)) = GenOf(e)
          /\ (IsChild(e) => Original(e) # e) /\ Committed(e)' = Committed(e)
      BY <1>2 DEF Committed
    <2>2. CASE e = d
      BY <2>1, <2>2, <1>1, <1>2, <1>5, <1>6 DEF CallOK, Executing
    <2>3. CASE e # d
      <3>1. handler[e].at = "select" => executions'[GenOf(e)] = 0
        BY <2>1, <2>3, <1>1, <1>2, <1>3, Siblings DEF CallOK, Executing
      <3>2. IsChild(e) /\ handler[e].at = "claim" => executions'[GenOf(e)] = 0 /\ Original(e) # d
        BY <2>1, <2>3, <1>1, <1>2, <1>3, Siblings DEF CallOK, Executing
      <3> QED
        BY <2>1, <2>3, <3>1, <3>2, <1>2, <1>5, <1>6 DEF CallOK
    <2> QED
      BY <2>2, <2>3
  <1>11. ASSUME NEW e \in Deliveries PROVE TimelyOK(e)'
    <2>1. TimelyOK(e)
      OBVIOUS
    <2>2. CASE e = d
      BY <2>1, <2>2, <1>2, <1>5, <1>6 DEF TimelyOK, OnTime, PreludeStage
    <2>3. CASE e # d
      BY <2>1, <2>3, <1>2, <1>6 DEF TimelyOK, OnTime
    <2> QED
      BY <2>2, <2>3
  <1> QED
    BY <1>7, <1>8, <1>9, <1>10, <1>11 DEF EvaluationInv

LEMMA FinalizeStoredStep ==
    ASSUME EvaluationInv, NEW d \in Deliveries, Finalize(d), run[GenOf(d)].status \in TerminalRun
    PROVE  EvaluationInv'
  <1>1. /\ Answer(d, "acknowledge") /\ UNCHANGED <<checkers, tasks, delivery, executions>>
        /\ handler[d].at = "finalize"
    BY DEF Finalize, checkers
  <1>2. Committed(d)
    BY <1>1, InvTypes, DeliveryFacts DEF CallOK, Executing, Committed
  <1> QED
    BY <1>1, <1>2, AnswerStep DEF Answers

\* The row that stores result r.
FinalRow(row, r) ==
    [row EXCEPT !.status = IF r \in Verdicts THEN "completed" ELSE r,
                !.verdict = IF r \in Verdicts THEN r ELSE "none"]

LEMMA FinalizedRow ==
    ASSUME NEW row \in Runs, NEW r \in Results
    PROVE  /\ FinalRow(row, r) \in Runs /\ FinalRow(row, r).status \in TerminalRun
           /\ FinalRow(row, r).leaseGen = row.leaseGen /\ FinalRow(row, r).leaseAge = row.leaseAge
           /\ FinalRow(row, r).status = "completed" <=> r \in Verdicts
           /\ FinalRow(row, r).verdict = "none" <=> r \notin Verdicts
  <1> PICK new : new = FinalRow(row, r)
    OBVIOUS
  <1>1. CASE r \in Verdicts
    <2>1. new = [row EXCEPT !.status = "completed", !.verdict = r]
      BY <1>1 DEF FinalRow
    <2>2. "completed" \in TerminalRun /\ r # "none"
      BY <1>1 DEF TerminalRun, Verdicts
    <2> QED
      BY <1>1, <2>1, <2>2 DEF Runs
  <1>2. CASE r \notin Verdicts
    <2>1. r = "infrastructure_failed"
      BY <1>2 DEF Results
    <2>2. new = [row EXCEPT !.status = "infrastructure_failed", !.verdict = "none"]
      BY <1>2, <2>1 DEF FinalRow
    <2>3. "infrastructure_failed" \in TerminalRun
      BY DEF TerminalRun
    <2> QED
      BY <1>2, <2>2, <2>3 DEF Runs
  <1> QED
    BY <1>1, <1>2

\* The result and its completion event are stored together.
LEMMA FinalizeNewStep ==
    ASSUME EvaluationInv, NEW d \in Deliveries, Finalize(d), run[GenOf(d)].status \notin TerminalRun
    PROVE  EvaluationInv'
  <1> USE InvTypes, DeliveryFacts, Limits
  <1>0. PICK g \in Gens, row \in Runs : g = GenOf(d) /\ row = run[g]
    OBVIOUS
  <1>1. PICK r : g = GenOf(d) /\ row = run[g] /\ r = handler[d].result
    BY <1>0
  <1>2. /\ FinalizeAdmitted(d) /\ delivery' = Completion(g, r)
        /\ UNCHANGED <<fence, task, routed, human, executions>>
        /\ handler[d].at = "finalize" /\ KindOf(d) = "request" /\ r \in Results
        /\ Answer(d, "acknowledge")
    BY <1>1 DEF Finalize, CallOK, tasks, Executing
  <1>3. fence = g /\ row.status = "running" /\ row.leaseGen = 1 /\ delivery[d].state = "live"
    BY <1>1, <1>2 DEF FinalizeAdmitted, LeaseHeld, Fenced, Current, RunOK
  <1>4. PICK new : new = FinalRow(row, r)
    OBVIOUS
  <1>5. /\ new \in Runs /\ new.status \in TerminalRun
        /\ new.leaseGen = row.leaseGen /\ new.leaseAge = row.leaseAge
        /\ new.status = "completed" <=> r \in Verdicts
        /\ new.verdict = "none" <=> r \notin Verdicts
    BY <1>2, <1>4, FinalizedRow
  <1>6. /\ run' \in [Gens -> Runs] /\ run'[g] = new
        /\ \A k \in Gens : k # g => run'[k] = run[k]
    <2>1. run' = [run EXCEPT ![g] = new]
      BY <1>1, <1>4 DEF Finalize, TypeOK, FinalRow
    <2> QED
      BY <1>5, <2>1 DEF TypeOK
  <1>7. PICK c \in Deliveries : c = <<"completion", g, "original">>
    BY EventFacts
  <1>8. /\ KindOf(c) = "completion" /\ GenOf(c) = g /\ ~IsChild(c) /\ c # d
        /\ \A e \in Deliveries : KindOf(e) = "completion" /\ GenOf(e) = g /\ ~IsChild(e) => e = c
    BY <1>2, <1>7, EventFacts
  <1>9. delivery[c].state = "absent" /\ handler[c].at = "none"
    <2>1. CustodyOK(c) /\ ~Sent(c)
      BY <1>1, <1>3, <1>8 DEF Sent
    <2> QED
      BY <1>8, <2>1 DEF CustodyOK
  <1>10. /\ delivery' \in [Deliveries -> Custodies]
         /\ \A e \in Deliveries : e # c => delivery'[e] = delivery[e]
         /\ delivery'[c] = IF r \in Verdicts THEN PendingDelivery ELSE delivery[c]
    <2>1. r \in Verdicts <=> r # "infrastructure_failed"
      BY <1>2 DEF Results, Verdicts
    <2> QED
      BY <1>2, <1>7, <2>1, RowTypes DEF Completion, TypeOK
  <1> DEFINE h == [NoHandler EXCEPT !.at = "answered", !.answer = "acknowledge"]
  <1>11. h \in Handlers /\ h.at = "answered" /\ h.answer = "acknowledge"
    BY RowTypes DEF Handlers, NoHandler, Answers
  <1>12. /\ handler' \in [Deliveries -> Handlers] /\ handler'[d] = h
         /\ \A e \in Deliveries : e # d => handler'[e] = handler[e]
    BY <1>2, <1>3, <1>11 DEF Answer, Goto, TypeOK
  <1> HIDE DEF h
  <1>13. TypeOK'
    <2>1. \A k \in Gens : run'[k].leaseAge <= CheckerLease
      BY <1>1, <1>5, <1>6
    <2>2. \A e \in Deliveries : delivery'[e].age <= Lease(e) /\ delivery'[e].attempts <= MaxAttempts
      BY <1>10, RowTypes
    <2> QED
      BY <1>2, <1>6, <1>10, <1>12, <2>1, <2>2 DEF TypeOK
  <1>14. OneVerdict'
    <2>1. routed # 0 => routed \in Gens /\ routed # g
      BY <1>1, <1>3 DEF OneVerdict, TypeOK, Gens
    <2> QED
      BY <1>2, <1>3, <1>6, <2>1 DEF OneVerdict
  <1>15. \A k \in Gens : RunOK(k)'
    <2>1. new.status # "none" /\ new.status # "queued"
      BY <1>5 DEF TerminalRun
    <2> QED
      BY <1>1, <1>2, <1>3, <1>5, <1>6, <2>1 DEF RunOK
  <1>16. ASSUME NEW e \in Deliveries PROVE Committed(e) => Committed(e)'
    BY <1>2, <1>5, <1>6 DEF Committed
  <1>17. Committed(d)'
    BY <1>1, <1>2, <1>5, <1>6 DEF Committed
  <1>18. ASSUME NEW e \in Deliveries PROVE CustodyOK(e)'
    <2>1. CustodyOK(e) /\ Original(e) \in Deliveries /\ GenOf(e) \in Gens
      OBVIOUS
    <2>2. delivery[Original(e)].state = "unknown" => delivery'[Original(e)].state = "unknown"
      BY <1>9, <1>10, <2>1
    <2>3. CASE e = c
      <3>1. Sent(c)' <=> r \in Verdicts
        BY <1>5, <1>6, <1>8 DEF Sent
      <3> QED
        BY <1>8, <1>9, <1>10, <1>12, <2>3, <3>1, RowTypes DEF CustodyOK
    <2>4. CASE e # c
      <3>1. ~IsChild(e) => (Sent(e)' <=> Sent(e))
        BY <1>1, <1>3, <1>5, <1>6, <1>8, <2>1, <2>4 DEF Sent, TerminalRun
      <3>2. e = d => delivery[e].state = "live"
        BY <1>3
      <3> QED
        BY <1>10, <1>12, <1>16, <2>1, <2>2, <2>4, <3>1, <3>2 DEF CustodyOK
    <2> QED
      BY <2>3, <2>4
  <1>19. ASSUME NEW e \in Deliveries PROVE CallOK(e)'
    <2>1. CallOK(e) /\ Original(e) \in Deliveries /\ GenOf(e) \in Gens
      OBVIOUS
    <2>2. CASE e = d
      BY <1>3, <1>8, <1>10, <1>11, <1>12, <1>17, <2>2 DEF CallOK, Executing
    <2>3. CASE e # d
      <3>1. handler'[Original(e)].at \in Executing => handler[Original(e)].at \in Executing
        BY <1>11, <1>12, <2>1 DEF Executing
      <3>2. handler'[Original(e)].at = "select" => handler[Original(e)].at = "select"
        BY <1>11, <1>12, <2>1
      <3>3. run'[GenOf(e)].leaseGen = run[GenOf(e)].leaseGen
        BY <1>1, <1>5, <1>6, <2>1
      <3>4. handler[e].at # "none" => delivery'[e] = delivery[e]
        BY <1>9, <1>10
      <3> QED
        BY <1>2, <1>12, <1>16, <2>1, <2>3, <3>1, <3>2, <3>3, <3>4 DEF CallOK, Executing
    <2> QED
      BY <2>2, <2>3
  <1>20. ASSUME NEW e \in Deliveries PROVE TimelyOK(e)'
    <2>1. TimelyOK(e)
      OBVIOUS
    <2>2. KindOf(e) = "request" => delivery'[e] = delivery[e]
      BY <1>8, <1>10
    <2> QED
      BY <2>1, <2>2, <1>11, <1>12 DEF TimelyOK, OnTime, PreludeStage
  <1> QED
    BY <1>13, <1>14, <1>15, <1>18, <1>19, <1>20 DEF EvaluationInv

LEMMA ClaimStep == ASSUME EvaluationInv, NEW d \in Deliveries, Claim(d) PROVE EvaluationInv'
  BY ClaimStoredStep, ClaimLeaseStep

LEMMA FinalizeStep == ASSUME EvaluationInv, NEW d \in Deliveries, Finalize(d) PROVE EvaluationInv'
  BY FinalizeStoredStep, FinalizeNewStep

-----------------------------------------------------------------------------
(* Routing and the task.                                                   *)

\* A step that changes only the calls, the task and its routing.
LEMMA RouteNewStep ==
    ASSUME EvaluationInv, NEW d \in Deliveries, Route(d), routed # GenOf(d)
    PROVE  EvaluationInv'
  <1> USE InvTypes, DeliveryFacts, Limits
  <1>1. PICK g \in Gens : g = GenOf(d)
    OBVIOUS
  <1>2. /\ Routable(g) /\ task' \in OutcomesOf(g) /\ routed' = g
        /\ UNCHANGED <<run, fence, human, delivery, executions>>
        /\ handler[d].at = "apply" /\ KindOf(d) = "completion" /\ delivery[d].state = "live"
        /\ Answer(d, "acknowledge")
    BY <1>1 DEF Route, checkers, CallOK, Fenced
  <1>3. routed = 0 /\ run[g].status = "completed" /\ fence = g /\ g # 0
    BY <1>2, GenFacts DEF Routable, OneVerdict, Current
  <1>4. run[g].verdict \in Verdicts
    BY <1>3 DEF RunOK, Runs
  <1> DEFINE h == [NoHandler EXCEPT !.at = "answered", !.answer = "acknowledge"]
  <1>5. h \in Handlers /\ h.at = "answered" /\ h.answer = "acknowledge"
    BY RowTypes DEF Handlers, NoHandler, Answers
  <1>6. /\ handler' \in [Deliveries -> Handlers] /\ handler'[d] = h
        /\ \A e \in Deliveries : e # d => handler'[e] = handler[e]
    BY <1>2, <1>5 DEF Answer, Goto, TypeOK
  <1> HIDE DEF h
  <1>7. /\ task' \in TaskOutcomes
        /\ run[g].verdict = "needs_revision" <=> task' \in {"needs_revision", "exhausted", "moved"}
        /\ task' = "accepted" => ~human
    BY <1>2, <1>4 DEF OutcomesOf, TaskOutcomes, Verdicts
  <1>8. TypeOK'
    BY <1>2, <1>6, <1>7 DEF TypeOK, Gens
  <1>9. OneVerdict'
    BY <1>2, <1>3, <1>7 DEF OneVerdict, TaskOutcomes
  <1>10. \A k \in Gens : RunOK(k)'
    BY <1>2 DEF RunOK
  <1>11. ASSUME NEW e \in Deliveries PROVE Sent(e)' = Sent(e) /\ (Committed(e) => Committed(e)')
    BY <1>2, <1>3, GenFacts DEF Sent, Committed
  <1>12. Committed(d)'
    BY <1>1, <1>2 DEF Committed
  <1>13. ASSUME NEW e \in Deliveries PROVE CustodyOK(e)'
    <2>1. CustodyOK(e)
      OBVIOUS
    <2> QED
      BY <1>2, <1>6, <1>11, <2>1 DEF CustodyOK
  <1>14. ASSUME NEW e \in Deliveries PROVE CallOK(e)'
    <2>1. CallOK(e) /\ Original(e) \in Deliveries
      OBVIOUS
    <2>2. CASE e = d
      BY <1>2, <1>5, <1>6, <1>12, <2>2 DEF CallOK, Executing
    <2>3. CASE e # d
      <3>1. handler'[Original(e)].at \in Executing => handler[Original(e)].at \in Executing
        BY <1>5, <1>6, <2>1 DEF Executing
      <3>2. handler'[Original(e)].at = "select" => handler[Original(e)].at = "select"
        BY <1>5, <1>6, <2>1
      <3> QED
        BY <1>2, <1>6, <1>11, <2>1, <2>3, <3>1, <3>2 DEF CallOK
    <2> QED
      BY <2>2, <2>3
  <1>15. ASSUME NEW e \in Deliveries PROVE TimelyOK(e)'
    <2>1. TimelyOK(e)
      OBVIOUS
    <2> QED
      BY <1>2, <1>5, <1>6, <2>1 DEF TimelyOK, OnTime, PreludeStage
  <1> QED
    BY <1>8, <1>9, <1>10, <1>13, <1>14, <1>15 DEF EvaluationInv

LEMMA RouteStep == ASSUME EvaluationInv, NEW d \in Deliveries, Route(d) PROVE EvaluationInv'
  <1>1. CASE routed # GenOf(d)
    BY <1>1, RouteNewStep
  <1>2. CASE routed = GenOf(d)
    <2>1. /\ Answer(d, "acknowledge") /\ UNCHANGED <<checkers, tasks, delivery, executions>>
          /\ handler[d].at = "apply"
      BY <1>2 DEF Route, tasks
    <2>2. Committed(d)
      BY <1>2, <2>1, InvTypes, DeliveryFacts DEF CallOK, Committed
    <2> QED
      BY <2>1, <2>2, AnswerStep DEF Answers
  <1> QED
    BY <1>1, <1>2

LEMMA TaskMovesOnStep == ASSUME EvaluationInv, TaskMovesOn PROVE EvaluationInv'
  <1> USE InvTypes
  <1>1. /\ task = "needs_revision" /\ task' = "moved"
        /\ UNCHANGED <<run, fence, routed, human, delivery, handler, executions>>
    BY DEF TaskMovesOn, checkers
  <1>2. TypeOK' /\ OneVerdict'
    BY <1>1 DEF TypeOK, OneVerdict
  <1>3. \A g \in Gens : RunOK(g)'
    BY <1>1 DEF RunOK
  <1>4. ASSUME NEW d \in Deliveries PROVE CustodyOK(d)' /\ CallOK(d)' /\ TimelyOK(d)'
    <2>1. Sent(d)' = Sent(d) /\ Committed(d)' = Committed(d)
      BY <1>1 DEF Sent, Committed
    <2>2. CustodyOK(d)'
      BY <1>1, <2>1 DEF CustodyOK
    <2>3. CallOK(d)'
      BY <1>1, <2>1 DEF CallOK
    <2>4. TimelyOK(d)'
      BY <1>1 DEF TimelyOK, OnTime
    <2> QED
      BY <2>2, <2>3, <2>4
  <1> QED
    BY <1>2, <1>3, <1>4 DEF EvaluationInv

-----------------------------------------------------------------------------
(* The Operator's retry and the clock.                                     *)

LEMMA RetryStep == ASSUME EvaluationInv, NEW g \in Gens, Retry(g) PROVE EvaluationInv'
  <1> USE InvTypes, DeliveryFacts, Limits
  <1>1. PICK n \in Gens : n = g + 1
    BY GenFacts, BoundsAssumption DEF Retry
  <1>2. /\ task = "evaluation_pending" /\ fence = g /\ run[g].status = "infrastructure_failed"
        /\ run' = [run EXCEPT ![n] = QueuedRun] /\ fence' = n
        /\ UNCHANGED <<task, routed, human, handler, executions>>
    BY <1>1 DEF Retry, Current, RetrySource, tasks
  <1>3. PICK c \in Deliveries : c = <<"request", n, "original">>
    BY EventFacts
  <1>4. /\ KindOf(c) = "request" /\ GenOf(c) = n /\ ~IsChild(c)
        /\ \A e \in Deliveries : KindOf(e) = "request" /\ GenOf(e) = n /\ ~IsChild(e) => e = c
    BY <1>3, EventFacts
  <1>5. /\ n \in Nat /\ g \in Nat /\ n > g /\ n # g
    BY <1>1, GenFacts
  <1>6. /\ run' \in [Gens -> Runs] /\ run'[n] = QueuedRun
        /\ \A k \in Gens : k # n => run'[k] = run[k]
    BY <1>2, RowTypes DEF TypeOK
  <1>7. delivery' = [delivery EXCEPT ![c] = PendingDelivery]
    BY <1>1, <1>3 DEF Retry, SetDelivery
  <1>8. /\ delivery' \in [Deliveries -> Custodies] /\ delivery'[c] = PendingDelivery
        /\ \A e \in Deliveries : e # c => delivery'[e] = delivery[e]
    BY <1>7, RowTypes DEF TypeOK
  <1>9. run[n].status = "none" /\ run[n].leaseGen = 0 /\ executions[n] = 0
    BY <1>2, <1>5 DEF RunOK
  <1>10. delivery[c].state = "absent" /\ handler[c].at = "none"
    <2>1. CustodyOK(c) /\ ~Sent(c)
      BY <1>4, <1>9 DEF Sent
    <2> QED
      BY <1>4, <2>1 DEF CustodyOK
  <1>11. TypeOK'
    <2>1. \A k \in Gens : run'[k].leaseAge <= CheckerLease
      BY <1>6, RowTypes
    <2>2. \A e \in Deliveries : delivery'[e].age <= Lease(e) /\ delivery'[e].attempts <= MaxAttempts
      BY <1>8, RowTypes
    <2> QED
      BY <1>2, <1>6, <1>8, <2>1, <2>2 DEF TypeOK
  <1>12. OneVerdict'
    <2>1. routed = 0
      BY <1>2 DEF OneVerdict
    <2>2. \A k \in Gens : run'[k].status # "completed"
      BY <1>2, <1>6, RowTypes DEF OneVerdict
    <2> QED
      BY <1>2, <2>1, <2>2 DEF OneVerdict
  <1>13. ASSUME NEW k \in Gens PROVE RunOK(k)'
    <2>1. RunOK(k) /\ k \in Nat
      BY GenFacts
    <2>2. CASE k = n
      BY <1>2, <1>5, <1>6, <1>9, <2>2, RowTypes DEF RunOK
    <2>3. CASE k # n
      <3>1. (k < fence' <=> k < fence \/ k = g) /\ (k > fence' => k > fence)
        BY <1>1, <1>2, <1>5, <2>1, <2>3
      <3>2. run'[k] = run[k] /\ executions'[k] = executions[k]
        BY <1>2, <1>6, <2>3
      <3> QED
        BY <1>2, <2>1, <2>3, <3>1, <3>2 DEF RunOK
    <2> QED
      BY <2>2, <2>3
  <1>14. ASSUME NEW e \in Deliveries PROVE Committed(e)' <=> Committed(e)
    BY <1>2, <1>6, <1>9, RowTypes DEF Committed, TerminalRun
  <1>15. ASSUME NEW e \in Deliveries PROVE CustodyOK(e)'
    <2>1. CustodyOK(e) /\ Original(e) \in Deliveries /\ GenOf(e) \in Gens
      OBVIOUS
    <2>2. delivery[Original(e)].state = "unknown" => delivery'[Original(e)].state = "unknown"
      BY <1>8, <1>10, <2>1
    <2>3. CASE e = c
      <3>1. Sent(c)'
        BY <1>4, <1>6, RowTypes DEF Sent
      <3> QED
        BY <1>2, <1>4, <1>8, <1>10, <2>3, <3>1, RowTypes DEF CustodyOK
    <2>4. CASE e # c
      <3>1. ~IsChild(e) => (Sent(e)' <=> Sent(e))
        BY <1>4, <1>6, <1>9, <2>1, <2>4, RowTypes DEF Sent
      <3> QED
        BY <1>2, <1>8, <1>14, <2>1, <2>2, <2>4, <3>1 DEF CustodyOK
    <2> QED
      BY <2>3, <2>4
  <1>16. ASSUME NEW e \in Deliveries PROVE CallOK(e)'
    <2>1. CallOK(e) /\ GenOf(e) \in Gens
      OBVIOUS
    <2>2. handler[e].at # "none" => delivery'[e] = delivery[e]
      BY <1>8, <1>10
    <2>3. run'[GenOf(e)].leaseGen = run[GenOf(e)].leaseGen
      BY <1>6, <1>9, <2>1, RowTypes
    <2> QED
      BY <1>2, <1>14, <2>1, <2>2, <2>3 DEF CallOK, Executing
  <1>17. ASSUME NEW e \in Deliveries PROVE TimelyOK(e)'
    <2>1. TimelyOK(e)
      OBVIOUS
    <2> QED
      BY <1>2, <1>8, <2>1, RowTypes DEF TimelyOK, OnTime
  <1> QED
    BY <1>11, <1>12, <1>13, <1>15, <1>16, <1>17 DEF EvaluationInv

LEMMA AgedRun ==
    ASSUME NEW r \in Runs
    PROVE  /\ [r EXCEPT !.leaseAge = @ + 1] \in Runs
           /\ [r EXCEPT !.leaseAge = @ + 1].status = r.status
           /\ [r EXCEPT !.leaseAge = @ + 1].leaseGen = r.leaseGen
           /\ [r EXCEPT !.leaseAge = @ + 1].verdict = r.verdict
           /\ [r EXCEPT !.leaseAge = @ + 1].leaseAge = r.leaseAge + 1
           /\ r.leaseAge \in Nat
  BY DEF Runs

LEMMA AgedCustody ==
    ASSUME NEW c \in Custodies
    PROVE  /\ [c EXCEPT !.age = @ + 1] \in Custodies
           /\ [c EXCEPT !.age = @ + 1].state = c.state
           /\ [c EXCEPT !.age = @ + 1].attempts = c.attempts
           /\ [c EXCEPT !.age = @ + 1].age = c.age + 1
           /\ c.age \in Nat
  BY DEF Custodies

\* What a tick may make of a call.
Older(h) == {h, [h EXCEPT !.age = @ + 1], [h EXCEPT !.late = TRUE]}

LEMMA AgedCall ==
    ASSUME NEW h \in Handlers, NEW new \in Older(h)
    PROVE  /\ new \in Handlers /\ h.age \in Nat
           /\ new.at = h.at /\ new.answer = h.answer /\ new.result = h.result
           /\ new = [h EXCEPT !.age = @ + 1] => new.age = h.age + 1 /\ new.late = h.late
           /\ new = [h EXCEPT !.late = TRUE] => new.late
  <1>1. CASE new = h
    BY <1>1 DEF Handlers
  <1>2. CASE new = [h EXCEPT !.age = @ + 1]
    BY <1>2 DEF Handlers
  <1>3. CASE new = [h EXCEPT !.late = TRUE]
    BY <1>3 DEF Handlers
  <1> QED
    BY <1>1, <1>2, <1>3 DEF Older

LEMMA TickStep == ASSUME EvaluationInv, Tick PROVE EvaluationInv'
  <1> USE InvTypes, DeliveryFacts, Limits
  <1>1. UNCHANGED <<fence, task, routed, human, executions>>
    BY DEF Tick, tasks
  <1>2. ASSUME NEW g \in Gens
        PROVE  /\ run'[g] \in Runs /\ run'[g].status = run[g].status
               /\ run'[g].leaseGen = run[g].leaseGen /\ run'[g].verdict = run[g].verdict
               /\ run'[g].leaseAge <= CheckerLease
    <2>1. run'[g] = IF run[g].status = "running" /\ run[g].leaseAge < CheckerLease
                    THEN [run[g] EXCEPT !.leaseAge = @ + 1] ELSE run[g]
      BY DEF Tick
    <2> QED
      BY <2>1, AgedRun
  <1>3. ASSUME NEW d \in Deliveries
        PROVE  /\ delivery'[d] \in Custodies /\ delivery'[d].state = delivery[d].state
               /\ delivery'[d].attempts = delivery[d].attempts
               /\ delivery'[d].age <= Lease(d) /\ delivery'[d].age <= delivery[d].age + 1
               /\ delivery'[d].age >= delivery[d].age /\ delivery'[d].age \in Nat
    <2>1. delivery'[d] = IF delivery[d].state = "live" /\ delivery[d].age < Lease(d)
                         THEN [delivery[d] EXCEPT !.age = @ + 1] ELSE delivery[d]
      BY DEF Tick
    <2> QED
      BY <2>1, AgedCustody
  <1>4. ASSUME NEW d \in Deliveries
        PROVE  handler'[d] = Aged(d)
               /\ Aged(d) \in Older(handler[d])
    BY DEF Tick, Aged, Older
  <1>5. ASSUME NEW d \in Deliveries
        PROVE  /\ handler'[d] \in Handlers /\ handler'[d].at = handler[d].at
               /\ handler'[d].answer = handler[d].answer /\ handler'[d].result = handler[d].result
    BY <1>4, AgedCall
  <1>6. TypeOK'
    <2>1. run' \in [Gens -> Runs]
      BY <1>2 DEF Tick
    <2>2. delivery' \in [Deliveries -> Custodies]
      BY <1>3 DEF Tick
    <2>3. handler' \in [Deliveries -> Handlers]
      BY <1>5 DEF Tick
    <2> QED
      BY <2>1, <2>2, <2>3, <1>1, <1>2, <1>3 DEF TypeOK
  <1>7. OneVerdict'
    <2>1. routed # 0 => routed \in Gens
      BY DEF TypeOK, Gens
    <2> QED
      BY <1>1, <1>2, <2>1 DEF OneVerdict
  <1>8. \A g \in Gens : RunOK(g)'
    BY <1>1, <1>2 DEF RunOK
  <1>9. ASSUME NEW d \in Deliveries PROVE CustodyOK(d)' /\ CallOK(d)'
    <2>1. /\ Sent(d)' = Sent(d) /\ Committed(d)' = Committed(d)
          /\ CustodyOK(d) /\ CallOK(d) /\ Original(d) \in Deliveries /\ GenOf(d) \in Gens
      BY <1>1, <1>2 DEF Sent, Committed
    <2>2. CustodyOK(d)'
      BY <1>3, <1>5, <2>1 DEF CustodyOK
    <2>3. delivery[d].age >= Lease(d) => delivery'[d].age >= Lease(d)
      BY <1>3
    <2>4. CallOK(d)'
      BY <1>1, <1>2, <1>3, <1>5, <2>1, <2>3 DEF CallOK
    <2> QED
      BY <2>2, <2>4
  <1>10. ASSUME NEW d \in Deliveries PROVE TimelyOK(d)'
    <2> SUFFICES ASSUME KindOf(d) = "request", ~IsChild(d), delivery'[d].state = "live",
                        ~handler'[d].late
                 PROVE  OnTime(handler'[d], delivery'[d].age)
      BY DEF TimelyOK
    <2>1. TimelyOK(d) /\ delivery[d].state = "live" /\ handler[d].age \in Nat
      BY <1>3 DEF Handlers
    <2>2. CASE handler[d].at \notin Working
      BY <2>2, <1>5 DEF OnTime, Working
    <2>3. CASE handler[d].at \in Working
      <3>1. /\ handler[d].age < Allowance(handler[d].at)
            /\ handler'[d] = [handler[d] EXCEPT !.age = @ + 1]
        <4>1. handler'[d] = IF handler[d].age < Allowance(handler[d].at)
                            THEN [handler[d] EXCEPT !.age = @ + 1] ELSE [handler[d] EXCEPT !.late = TRUE]
          BY <2>1, <2>3, <1>4 DEF Aged
        <4>2. [handler[d] EXCEPT !.late = TRUE].late = TRUE
          BY DEF Handlers
        <4> QED
          BY <4>1, <4>2
      <3>2. handler'[d].age = handler[d].age + 1 /\ handler'[d].late = handler[d].late
        BY <3>1, AgedCall
      <3>3. OnTime(handler[d], delivery[d].age)
        BY <2>1, <3>2 DEF TimelyOK
      <3>4. /\ handler[d].at \in PreludeStage => handler[d].age < Prelude
            /\ handler[d].at \in {"select", "execute"} => handler[d].age < Budget
            /\ handler[d].at = "finalize" => handler[d].age < Margin
        BY <3>1 DEF Allowance, PreludeStage
      <3> QED
        BY <1>3, <1>5, <2>1, <3>2, <3>3, <3>4 DEF OnTime
    <2> QED
      BY <2>2, <2>3
  <1> QED
    BY <1>6, <1>7, <1>8, <1>9, <1>10 DEF EvaluationInv

-----------------------------------------------------------------------------
LEMMA NextEvaluation == EvaluationInv /\ [Next]_vars => EvaluationInv'
  <1> SUFFICES ASSUME EvaluationInv, [Next]_vars PROVE EvaluationInv'
    OBVIOUS
  <1>1. ASSUME NEW d \in Deliveries, HandlerStep(d) PROVE EvaluationInv'
    <2>1. CASE Observe(d) \/ Reclassify(d)
      BY <2>1, ObserveStep, ReclassifyStep
    <2>2. CASE Claim(d) \/ Materialize(d) \/ Finalize(d)
      BY <2>2, ClaimStep, MaterializeStep, FinalizeStep
    <2>3. CASE \E r \in Results : Evaluated(d, r)
      BY <2>3, EvaluatedStep
    <2>4. CASE Route(d) \/ Defer(d) \/ ChildRefused(d) \/ Fail(d)
      BY <2>4, RouteStep, DeferStep, ChildRefusedStep, FailStep
    <2> QED
      BY <1>1, <2>1, <2>2, <2>3, <2>4 DEF HandlerStep
  <1>2. ASSUME NEW d \in Deliveries, OutboxStep(d) PROVE EvaluationInv'
    BY <1>2, InvokeStep, SettleStep, UnansweredStep DEF OutboxStep
  <1>3. ASSUME NEW d \in Deliveries, ClaimLapses(d) \/ WorkerLost(d) \/ Reconcile(d)
        PROVE  EvaluationInv'
    BY <1>3, ClaimLapsesStep, WorkerLostStep, ReconcileStep
  <1>4. CASE (\E g \in Gens : Retry(g)) \/ TaskMovesOn \/ Tick
    BY <1>4, RetryStep, TaskMovesOnStep, TickStep
  <1>5. CASE UNCHANGED vars
    <2>1. UNCHANGED <<run, fence, task, routed, human, delivery, handler, executions>>
      BY <1>5 DEF vars
    <2>2. TypeOK' /\ OneVerdict'
      BY <2>1, InvTypes DEF TypeOK, OneVerdict
    <2>3. \A g \in Gens : RunOK(g)'
      BY <2>1, InvTypes DEF RunOK
    <2>4. ASSUME NEW d \in Deliveries PROVE CustodyOK(d)' /\ CallOK(d)' /\ TimelyOK(d)'
      <3>1. Sent(d)' = Sent(d) /\ Committed(d)' = Committed(d)
        BY <2>1 DEF Sent, Committed
      <3>2. CustodyOK(d)' /\ CallOK(d)'
        BY <2>1, <3>1, InvTypes DEF CustodyOK, CallOK
      <3>3. TimelyOK(d)'
        BY <2>1, InvTypes DEF TimelyOK, OnTime
      <3> QED
        BY <3>2, <3>3
    <2> QED
      BY <2>2, <2>3, <2>4 DEF EvaluationInv
  <1> QED
    BY <1>1, <1>2, <1>3, <1>4, <1>5 DEF Next

\* In every reachable state the runs, the custody of the events and the calls
\* of the handlers fit together as EvaluationInv says.
THEOREM EvaluationInvariant == Spec => []EvaluationInv
  <1> QED
    BY InitEvaluation, NextEvaluation, PTL DEF Spec

-----------------------------------------------------------------------------
(* The properties.                                                         *)

\* A submission has at most one verdict and its task is routed by that one.
THEOREM SubmissionHasOneVerdict == Spec => []OneVerdict
  <1>1. EvaluationInv => OneVerdict
    BY DEF EvaluationInv
  <1> QED
    BY <1>1, EvaluationInvariant, PTL

\* The external checker is started at most once for a run, and a child turns
\* to the executor only when nothing has started it or still can.
THEOREM CheckerStartsOnce == Spec => []ExecutedOnce
  <1>1. ASSUME EvaluationInv PROVE ExecutedOnce
    <2> SUFFICES ASSUME NEW g \in Gens
                 PROVE  /\ executions[g] <= 1
                        /\ handler[<<"request", g, "child">>].at = "claim" =>
                             /\ executions[g] = 0
                             /\ handler[<<"request", g, "original">>].at \notin Executing
      BY DEF ExecutedOnce
    <2>1. executions[g] <= 1
      BY <1>1, InvTypes DEF RunOK
    <2>2. PICK d \in Deliveries : d = <<"request", g, "child">>
      BY EventFacts
    <2>3. IsChild(d) /\ GenOf(d) = g /\ Original(d) = <<"request", g, "original">> /\ CallOK(d)
      BY <1>1, <2>2, EventFacts, InvTypes
    <2> QED
      BY <2>1, <2>2, <2>3 DEF CallOK
  <1> QED
    BY <1>1, EvaluationInvariant, PTL

\* An acknowledged delivery has its effect in the database.
THEOREM AcknowledgementsAreTrue == Spec => []AcknowledgedMeansCommitted
  <1>1. EvaluationInv => AcknowledgedMeansCommitted
    BY DEF EvaluationInv, CustodyOK, AcknowledgedMeansCommitted
  <1> QED
    BY <1>1, EvaluationInvariant, PTL

\* A submission that waits for its verdict is in delivery, open to the
\* Operator or held for a documented reason.
THEOREM NoSilentLoss == Spec => []NeverLostSilently
  <1>1. ASSUME EvaluationInv, task = "evaluation_pending", ~Held, ~InFlight
        PROVE  OperatorCanAct
    <2> USE <1>1, InvTypes, DeliveryFacts
    <2>1. run[fence].status \in {"queued", "completed", "infrastructure_failed"} /\ RunOK(fence)
      BY DEF Held, RunOK, Runs, TerminalRun
    <2>2. routed = 0 /\ fence \in Gens /\ fence # 0 /\ Readable
      BY GenFacts DEF OneVerdict, Readable
    <2>3. \A d \in Deliveries : GenOf(d) = fence => delivery[d].state # "exhausted" /\ (IsChild(d) => delivery[d].state \notin Dead)
      BY DEF Held
    <2>4. ASSUME NEW d \in Deliveries, GenOf(d) = fence, ~IsChild(d), Sent(d), ~Committed(d),
                 Classify(d) = "retry_safe"
          PROVE  OperatorCanAct
      <3>1. CustodyOK(d) /\ CustodyOK(Child(d)) /\ Child(d) \in Deliveries /\ IsChild(Child(d))
            /\ GenOf(Child(d)) = fence /\ KindOf(Child(d)) = KindOf(d)
        BY <2>4
      <3>2. ~Committed(Child(d))
        BY <2>4, <3>1 DEF Committed
      <3>3. delivery[d].state = "unknown"
        BY <2>3, <2>4, <3>1 DEF CustodyOK, Custodies, Dead, InFlight
      <3>4. delivery[Child(d)].state = "absent"
        BY <2>3, <3>1, <3>2 DEF CustodyOK, Custodies, InFlight
      <3> QED
        BY <2>4, <3>3, <3>4 DEF OperatorCanAct
    <2>5. CASE run[fence].status = "infrastructure_failed"
      BY <2>5 DEF OperatorCanAct
    <2>6. CASE run[fence].status = "queued"
      <3>1. PICK d \in Deliveries : KindOf(d) = "request" /\ GenOf(d) = fence /\ ~IsChild(d)
        BY <2>2, EventFacts
      <3>2. Sent(d) /\ ~Committed(d)
        BY <2>6, <3>1 DEF Sent, Committed, TerminalRun
      <3>3. Classify(d) = "retry_safe"
        BY <2>1, <2>2, <2>6, <3>1 DEF Classify, ClassifyRequest, Current, RunOK, TerminalRun
      <3> QED
        BY <2>4, <3>1, <3>2, <3>3
    <2>7. CASE run[fence].status = "completed"
      <3>1. PICK d \in Deliveries : KindOf(d) = "completion" /\ GenOf(d) = fence /\ ~IsChild(d)
        BY <2>2, EventFacts
      <3>2. Sent(d) /\ ~Committed(d)
        BY <2>2, <2>7, <3>1 DEF Sent, Committed
      <3>3. Classify(d) = "retry_safe"
        BY <1>1, <2>2, <2>7, <3>1 DEF Classify, ClassifyCompletion, Retained, Routable, Current
      <3> QED
        BY <2>4, <3>1, <3>2, <3>3
    <2> QED
      BY <2>1, <2>5, <2>6, <2>7
  <1>2. EvaluationInv => NeverLostSilently
    BY <1>1 DEF NeverLostSilently
  <1> QED
    BY <1>2, EvaluationInvariant, PTL

\* The outbox never gives up on a request handler that keeps to the prelude,
\* the budget and the margin set aside for it.
THEOREM RequestHasTime == Spec => []RequestFitsItsDelivery
  <1>1. ASSUME EvaluationInv, NEW d \in Deliveries, ~IsChild(d), KindOf(d) = "request", Overdue(d),
               ~handler[d].late
        PROVE  FALSE
    <2>1. /\ OnTime(handler[d], delivery[d].age) /\ CallOK(d) /\ handler[d] \in Handlers
          /\ delivery[d].age \in Nat
      BY <1>1, InvTypes DEF TimelyOK, Overdue
    <2>2. handler[d].at # "apply" /\ handler[d].at \in Working /\ handler[d].age \in Nat
      BY <1>1, <2>1 DEF CallOK, Overdue, Handlers
    <2>3. delivery[d].age <= Prelude + Budget + Margin
      BY <2>1, <2>2, Limits DEF OnTime, Working
    <2>4. Timeout(d) = MaxBudget + Prelude + Margin
      BY <1>1 DEF Timeout, RequestTimeout
    <2> QED
      BY <1>1, <2>1, <2>3, <2>4, Limits DEF Overdue
  <1>2. EvaluationInv => RequestFitsItsDelivery
    BY <1>1 DEF RequestFitsItsDelivery
  <1> QED
    BY <1>2, EvaluationInvariant, PTL
=============================================================================
