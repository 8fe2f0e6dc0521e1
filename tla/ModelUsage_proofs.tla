------------------------- MODULE ModelUsage_proofs -------------------------
(***************************************************************************)
(* The ledger of paid model calls, for any number of slots, requests,      *)
(* attempts, runs and budgets: LedgerInv is inductive, and the properties  *)
(* of ModelUsage follow from it.                                           *)
(***************************************************************************)
EXTENDS ModelUsage, Sums_proofs

LEMMA SlotFacts ==
    /\ CheckerSlots \subseteq Slots /\ SetupSlots \subseteq Slots /\ NoSlot \notin Slots
    /\ Attempts \subseteq Nat \ {0} /\ 1 \in Attempts /\ 1 \in Runs /\ Runs \subseteq Nat
    /\ Reservation \in Nat /\ Reservation > 0 /\ Charges \subseteq Nat
    /\ \A c \in Charges : c <= Reservation
  BY ProfileAssumption DEF Slots, Attempts, Runs

LEMMA RowTypes ==
    /\ NoRow \in Rows /\ PreparedRow \in Rows /\ NoCall \in Calls
    /\ Idle \in HandlerStates
  BY DEF NoRow, PreparedRow, Rows, NoCall, Calls, Idle, HandlerStates, Steps, Attempts

-----------------------------------------------------------------------------
(* Types.                                                                  *)

LEMMA InitType == Init => TypeOK
  <1> SUFFICES ASSUME Init PROVE TypeOK
    OBVIOUS
  <1>1. MaxVersions \in Nat
    BY ProfileAssumption
  <1> QED
    BY <1>1, SlotFacts, RowTypes DEF Init, TypeOK

\* A step of one request leaves the requests typed.
LEMMA GotoType ==
    ASSUME TypeOK, NEW h \in Handlers, NEW pc \in Steps, Goto(h, pc)
    PROVE  handler' \in [Handlers -> HandlerStates]
  <1>1. [handler[h] EXCEPT !.pc = pc] \in HandlerStates
    BY DEF TypeOK, HandlerStates
  <1> QED
    BY <1>1 DEF TypeOK, Goto

LEMMA ReturnType ==
    ASSUME TypeOK, NEW h \in Handlers, Return(h)
    PROVE  handler' \in [Handlers -> HandlerStates]
  BY RowTypes DEF TypeOK, Return

LEMMA SetRowType ==
    ASSUME TypeOK, NEW h \in Handlers, NEW row \in Rows, SetRow(h, row)
    PROVE  effect' \in [Slots -> [Attempts -> Rows]]
  BY DEF TypeOK, SetRow

LEMMA CreateType ==
    ASSUME TypeOK, NEW h \in Handlers, NEW status \in {"running", "completed", "failed"},
           NEW cost \in Charges, Create(h, status, cost), handler[h].slot \in Slots,
           handler[h].n \in Attempts
    PROVE  provider' \in [Slots -> [Attempts -> Calls]]
  <1> DEFINE s == handler[h].slot
             n == handler[h].n
             call == provider[s][n]
             new == [creates |-> call.creates + 1, status |-> status, cost |-> call.cost + cost]
  <1>1. call \in Calls
    BY DEF TypeOK
  <1>2. new \in Calls
    BY <1>1, SlotFacts DEF Calls
  <1>3. provider' = [provider EXCEPT ![s][n] = new]
    BY DEF Create
  <1> HIDE DEF s, n, new
  <1> QED
    BY <1>2, <1>3 DEF TypeOK

-----------------------------------------------------------------------------
(* What a change of one row does to the rest.                              *)

RowsOK == \A s \in Slots, n \in Attempts : RowOK(s, n)
HandlersOK == \A h \in Handlers : HandlerOK(h)

\* The rest of the ledger, when only the row of attempt n of slot s changes.
ElsewhereSame(s, n) ==
    \A t \in Slots, m \in Attempts : t # s \/ m # n => effect'[t][m] = effect[t][m]

LEMMA PointEffect ==
    ASSUME TypeOK, NEW s \in Slots, NEW n \in Attempts, NEW row,
           effect' = [effect EXCEPT ![s][n] = row]
    PROVE  effect'[s][n] = row /\ ElsewhereSame(s, n)
  BY DEF TypeOK, ElsewhereSame

LEMMA PointProvider ==
    ASSUME TypeOK, NEW s \in Slots, NEW n \in Attempts, NEW call,
           provider' = [provider EXCEPT ![s][n] = call]
    PROVE  /\ provider'[s][n] = call
           /\ \A t \in Slots, m \in Attempts : t # s \/ m # n => provider'[t][m] = provider[t][m]
  BY DEF TypeOK

LEMMA RowFrame ==
    ASSUME NEW s \in Slots, NEW n \in Attempts, RowOK(s, n),
           effect'[s][n] = effect[s][n], provider'[s][n] = provider[s][n],
           latest'[s] = latest[s], <<s, n>> \in stored' <=> <<s, n>> \in stored
    PROVE  RowOK(s, n)'
  BY DEF RowOK

\* A row moves on without forgetting its reference or its completion.
Later(old, new) ==
    /\ old.state = "completed" => new.state = "completed"
    /\ old.state \in {"uncertain", "completed", "known_failed"} /\ old.ref > 0 =>
         new.state \in {"uncertain", "completed", "known_failed"} /\ new.ref > 0

LatestTyped == \A s \in Slots : latest[s] \in Nat

LEMMA LatestType == TypeOK => LatestTyped
  <1>1. Attempts \cup {0} \subseteq Nat
    BY SlotFacts
  <1> QED
    BY <1>1 DEF TypeOK, LatestTyped

LEMMA LatestTypeNext == TypeOK' => LatestTyped'
  BY LatestType, PTL

\* A request that does not move keeps what it knows.
LEMMA HandlerKeeps ==
    ASSUME TypeOK, TypeOK', NEW k \in Handlers, HandlerOK(k), handler'[k] = handler[k],
           \A s \in Slots : latest[s] <= latest'[s],
           stored \subseteq stored',
           \A s \in Slots, n \in Attempts :
               /\ Later(effect[s][n], effect'[s][n])
               /\ provider[s][n].status \in {"completed", "failed"} =>
                    provider'[s][n].status \in {"completed", "failed"},
           handler[k].pc \in Sending =>
               LET s == handler[k].slot
                   n == handler[k].n IN
               /\ effect'[s][n].state = effect[s][n].state
               /\ provider'[s][n].creates = provider[s][n].creates
    PROVE  HandlerOK(k)'
  <1> DEFINE s == handler[k].slot
             n == handler[k].n
  <1> SUFFICES ASSUME handler[k].pc # "idle" PROVE HandlerOK(k)'
    BY DEF HandlerOK
  <1>1. s \in Slots /\ n \in Attempts
    BY DEF HandlerOK
  <1>2. n \in Nat /\ latest[s] \in Nat /\ latest'[s] \in Nat /\ latest[s] <= latest'[s]
    <2>1. LatestTyped /\ LatestTyped'
      BY LatestType, LatestTypeNext
    <2>2. latest[s] \in Nat /\ latest'[s] \in Nat
      BY <1>1, <2>1 DEF LatestTyped
    <2>3. n \in Nat
      BY <1>1, SlotFacts
    <2>4. latest[s] <= latest'[s]
      BY <1>1
    <2> QED BY <2>2, <2>3, <2>4
  <1>3. n <= latest[s] => n <= latest'[s]
    BY <1>2
  <1>4. Later(effect[s][n], effect'[s][n])
    BY <1>1
  <1>5. provider[s][n].status \in {"completed", "failed"} => provider'[s][n].status \in {"completed", "failed"}
    BY <1>1
  <1>6. handler[k].pc \in Sending => effect'[s][n].state = effect[s][n].state /\ provider'[s][n].creates = provider[s][n].creates
    OBVIOUS
  <1>7. handler[k].pc \in {"send", "no_effect", "invalid", "accepted"} => handler[k].pc \in Sending
    BY DEF Sending
  <1> QED
    BY <1>1, <1>3, <1>4, <1>5, <1>6, <1>7 DEF HandlerOK, Later

-----------------------------------------------------------------------------
(* Money.                                                                  *)

LEMMA FiniteEffects ==
    /\ IsFiniteSet(Slots \X Attempts)
    /\ \A s : IsFiniteSet(Envelope(s) \X Attempts) /\ Envelope(s) \subseteq Slots
  <1>1. IsFiniteSet(Attempts) /\ IsFiniteSet(Slots)
    BY ProfileAssumption, FS_Interval DEF Attempts
  <1>2. \A s : Envelope(s) \subseteq Slots
    BY DEF Envelope, Slots
  <1>3. \A s : IsFiniteSet(Envelope(s))
    BY <1>1, <1>2, FS_Subset
  <1>4. IsFiniteSet(Slots \X Attempts)
    BY <1>1, FS_Product
  <1>5. ASSUME NEW s PROVE IsFiniteSet(Envelope(s) \X Attempts)
    BY <1>1, <1>3, FS_Product
  <1> QED
    BY <1>2, <1>4, <1>5

UsesTyped ==
    \A p \in Slots \X Attempts :
        /\ effect[p[1]][p[2]] \in Rows
        /\ HeldBy[p] = Held(effect[p[1]][p[2]]) /\ HeldBy[p] \in Nat
        /\ SettledBy[p] = effect[p[1]][p[2]].settled /\ SettledBy[p] \in Nat
        /\ Used[p] = HeldBy[p] + SettledBy[p] /\ Used[p] \in Nat

LEMMA UseTypes == TypeOK => UsesTyped
  <1> SUFFICES ASSUME TypeOK, NEW p \in Slots \X Attempts
               PROVE  /\ effect[p[1]][p[2]] \in Rows
                      /\ HeldBy[p] = Held(effect[p[1]][p[2]]) /\ HeldBy[p] \in Nat
                      /\ SettledBy[p] = effect[p[1]][p[2]].settled /\ SettledBy[p] \in Nat
                      /\ Used[p] = HeldBy[p] + SettledBy[p] /\ Used[p] \in Nat
    BY DEF UsesTyped
  <1>1. effect[p[1]][p[2]] \in Rows
    BY DEF TypeOK
  <1>2. HeldBy[p] = Held(effect[p[1]][p[2]]) /\ SettledBy[p] = effect[p[1]][p[2]].settled
    BY DEF HeldBy, SettledBy
  <1>3. HeldBy[p] \in Nat /\ SettledBy[p] \in Nat
    BY <1>1, <1>2 DEF Held, Rows
  <1>4. Used[p] = HeldBy[p] + SettledBy[p]
    BY DEF Used
  <1> QED
    BY <1>1, <1>2, <1>3, <1>4

LEMMA UseTypesNext == TypeOK' => UsesTyped'
  BY UseTypes, PTL

\* The sums over the ledger when one row changes.
LEMMA MoneyPoint ==
    ASSUME TypeOK, TypeOK', NEW s \in Slots, NEW n \in Attempts, ElsewhereSame(s, n)
    PROVE  /\ Total(HeldBy)' = Total(HeldBy) - Held(effect[s][n]) + Held(effect'[s][n])
           /\ Total(SettledBy)' = Total(SettledBy) - effect[s][n].settled + effect'[s][n].settled
           /\ \A t : RunTotal(t)' = IF s \in Envelope(t)
                 THEN RunTotal(t) - Held(effect[s][n]) - effect[s][n].settled
                                  + Held(effect'[s][n]) + effect'[s][n].settled
                 ELSE RunTotal(t)
  <1> DEFINE e == <<s, n>>
             D == Slots \X Attempts
  <1>1. e \in D /\ e[1] = s /\ e[2] = n
    OBVIOUS
  <1>2. UsesTyped /\ UsesTyped'
    BY UseTypes, UseTypesNext
  <1>3. \A x \in D : x # e => effect'[x[1]][x[2]] = effect[x[1]][x[2]]
    BY DEF ElsewhereSame
  <1>4. \A x \in D : x # e => HeldBy'[x] = HeldBy[x] /\ SettledBy'[x] = SettledBy[x] /\ Used'[x] = Used[x]
    BY <1>2, <1>3 DEF UsesTyped
  <1>5. \A x \in D : /\ HeldBy[x] \in Nat /\ HeldBy'[x] \in Nat /\ SettledBy[x] \in Nat
                     /\ SettledBy'[x] \in Nat /\ Used[x] \in Nat /\ Used'[x] \in Nat
    BY <1>2 DEF UsesTyped
  <1>6. /\ HeldBy[e] = Held(effect[s][n]) /\ HeldBy'[e] = Held(effect'[s][n])
        /\ SettledBy[e] = effect[s][n].settled /\ SettledBy'[e] = effect'[s][n].settled
        /\ Used[e] = HeldBy[e] + SettledBy[e] /\ Used'[e] = HeldBy'[e] + SettledBy'[e]
    BY <1>1, <1>2 DEF UsesTyped
  <1> HIDE DEF e, D
  <1>7. IsFiniteSet(D)
    BY FiniteEffects DEF D
  <1>8. SumFunctionOnSet(HeldBy', D) = SumFunctionOnSet(HeldBy, D) - HeldBy[e] + HeldBy'[e]
    BY <1>1, <1>4, <1>5, <1>7, SumChange
  <1>9. SumFunctionOnSet(SettledBy', D) = SumFunctionOnSet(SettledBy, D) - SettledBy[e] + SettledBy'[e]
    BY <1>1, <1>4, <1>5, <1>7, SumChange
  <1>10. ASSUME NEW t
         PROVE RunTotal(t)' = IF s \in Envelope(t)
                 THEN RunTotal(t) - Held(effect[s][n]) - effect[s][n].settled
                                  + Held(effect'[s][n]) + effect'[s][n].settled
                 ELSE RunTotal(t)
    <2> DEFINE V == Envelope(t) \X Attempts
    <2>1. IsFiniteSet(V) /\ V \subseteq D /\ (e \in V <=> s \in Envelope(t))
      BY FiniteEffects DEF D, e
    <2>2. RunTotal(t) = SumFunctionOnSet(Used, V) /\ RunTotal(t)' = SumFunctionOnSet(Used', V)
      BY DEF RunTotal
    <2>3. \A x \in V : Used[x] \in Nat /\ Used'[x] \in Nat
      BY <1>5, <2>1
    <2>4. \A x \in V : x # e => Used'[x] = Used[x]
      BY <1>4, <2>1
    <2> HIDE DEF V
    <2>5. CASE s \in Envelope(t)
      <3>1. SumFunctionOnSet(Used', V) = SumFunctionOnSet(Used, V) - Used[e] + Used'[e]
        BY <2>1, <2>3, <2>4, <2>5, SumChange
      <3>2. SumFunctionOnSet(Used, V) \in Nat
        BY <2>1, <2>3, SumNat
      <3>3. HeldBy[e] \in Nat /\ HeldBy'[e] \in Nat /\ SettledBy[e] \in Nat /\ SettledBy'[e] \in Nat
        BY <1>1, <1>5
      <3> QED BY <1>6, <2>2, <2>5, <3>1, <3>2, <3>3
    <2>6. CASE s \notin Envelope(t)
      <3>1. \A x \in V : Used'[x] = Used[x]
        BY <2>1, <2>4, <2>6
      <3>2. SumFunctionOnSet(Used', V) = SumFunctionOnSet(Used, V)
        BY <2>1, <3>1, SumSame
      <3> QED BY <2>2, <2>6, <3>2
    <2> QED BY <2>5, <2>6
  <1> QED
    BY <1>6, <1>8, <1>9, <1>10 DEF Total, D

-----------------------------------------------------------------------------
(* Requests.                                                               *)

\* Only the requests in A move.
OnlyMoves(A) == \A k \in Handlers \ A : handler'[k] = handler[k]
SendsAt(h, s, n) == handler[h].pc \in Sending /\ handler[h].slot = s /\ handler[h].n = n

LEMMA GotoMoves ==
    ASSUME TypeOK, NEW h \in Handlers, NEW pc, Goto(h, pc)
    PROVE  /\ OnlyMoves({h})
           /\ handler'[h].pc = pc /\ handler'[h].slot = handler[h].slot /\ handler'[h].n = handler[h].n
           /\ handler'[h].run = handler[h].run
  BY DEF TypeOK, Goto, OnlyMoves, HandlerStates

LEMMA ReturnMoves ==
    ASSUME TypeOK, NEW h \in Handlers, Return(h)
    PROVE  OnlyMoves({h}) /\ handler'[h].pc = "idle"
  BY DEF TypeOK, Return, OnlyMoves, Idle

LEMMA ReturnOK ==
    ASSUME NEW h \in Handlers, handler'[h].pc = "idle"
    PROVE  HandlerOK(h)' /\ handler'[h].pc \notin Sending
  BY DEF HandlerOK, Sending

\* A request becomes a sender only as the first one of its effect.
LEMMA SenderKeeps ==
    ASSUME OneSender, NEW A \in SUBSET Handlers, OnlyMoves(A),
           \A h \in A : handler'[h].pc \in Sending =>
               /\ handler[h].pc \in Sending
               /\ handler'[h].slot = handler[h].slot /\ handler'[h].n = handler[h].n
    PROVE  OneSender'
  <1> SUFFICES ASSUME NEW h \in Handlers, NEW k \in Handlers,
                      handler'[h].pc \in Sending, handler'[k].pc \in Sending,
                      handler'[h].slot = handler'[k].slot, handler'[h].n = handler'[k].n
               PROVE  h = k
    BY DEF OneSender, SameEffect
  <1>1. \A j \in {h, k} : /\ handler[j].pc \in Sending
                          /\ handler'[j].slot = handler[j].slot /\ handler'[j].n = handler[j].n
    BY DEF OnlyMoves
  <1> QED
    BY <1>1 DEF OneSender, SameEffect

\* The requests that do not move, when one attempt changes.
LEMMA PointHandlers ==
    ASSUME LedgerInv, TypeOK', NEW s \in Slots, NEW n \in Attempts,
           NEW A \in SUBSET Handlers, OnlyMoves(A), \A h \in A : HandlerOK(h)',
           ElsewhereSame(s, n),
           \A t \in Slots, m \in Attempts : t # s \/ m # n => provider'[t][m] = provider[t][m],
           Later(effect[s][n], effect'[s][n]),
           provider[s][n].status \in {"completed", "failed"} => provider'[s][n].status \in {"completed", "failed"},
           \A t \in Slots : latest[t] <= latest'[t],
           stored \subseteq stored',
           \/ effect[s][n].state # "dispatching"
           \/ \E h \in A : SendsAt(h, s, n)
           \/ effect'[s][n].state = effect[s][n].state /\ provider'[s][n].creates = provider[s][n].creates
    PROVE  HandlersOK'
  <1> SUFFICES ASSUME NEW k \in Handlers, k \notin A PROVE HandlerOK(k)'
    BY DEF HandlersOK
  <1>1. TypeOK /\ HandlerOK(k) /\ handler'[k] = handler[k] /\ OneSender
    BY DEF LedgerInv, OnlyMoves
  <1>2. ASSUME NEW t \in Slots, NEW m \in Attempts
        PROVE  /\ Later(effect[t][m], effect'[t][m])
               /\ provider[t][m].status \in {"completed", "failed"} =>
                    provider'[t][m].status \in {"completed", "failed"}
    BY DEF ElsewhereSame, Later
  <1>3. ASSUME handler[k].pc \in Sending
        PROVE  LET t == handler[k].slot
                   m == handler[k].n IN
               /\ effect'[t][m].state = effect[t][m].state
               /\ provider'[t][m].creates = provider[t][m].creates
    <2> DEFINE t == handler[k].slot
               m == handler[k].n
    <2>1. t \in Slots /\ m \in Attempts /\ effect[t][m].state = "dispatching"
      BY <1>1, <1>3 DEF HandlerOK, Sending
    <2>2. CASE t = s /\ m = n
      <3>1. ~ \E h \in A : SendsAt(h, s, n)
        BY <1>1, <1>3, <2>2 DEF OneSender, SameEffect, SendsAt
      <3> QED BY <2>1, <2>2, <3>1
    <2>3. CASE t # s \/ m # n
      BY <2>1, <2>3 DEF ElsewhereSame
    <2> QED BY <2>2, <2>3
  <1> QED
    BY <1>1, <1>2, <1>3, HandlerKeeps

\* The other rows, when one attempt changes.
LEMMA PointRows ==
    ASSUME LedgerInv, NEW s \in Slots, NEW n \in Attempts, RowOK(s, n)',
           ElsewhereSame(s, n),
           \A t \in Slots, m \in Attempts : t # s \/ m # n =>
               /\ provider'[t][m] = provider[t][m]
               /\ <<t, m>> \in stored' <=> <<t, m>> \in stored,
           latest' = latest
    PROVE  RowsOK'
  <1> SUFFICES ASSUME NEW t \in Slots, NEW m \in Attempts, t # s \/ m # n PROVE RowOK(t, m)'
    BY DEF RowsOK
  <1>1. RowOK(t, m)
    BY DEF LedgerInv
  <1> QED
    BY <1>1, RowFrame DEF ElsewhereSame

-----------------------------------------------------------------------------
(* Steps that leave the ledger alone.                                      *)

TriggerStep == AccountTriggerAdmits /\ EffectTriggerAdmits

LEMMA SameMoney ==
    ASSUME Conservation, EnvelopesWithinLimits, effect' = effect, account' = account
    PROVE  Conservation' /\ EnvelopesWithinLimits'
  <1>1. HeldBy' = HeldBy /\ SettledBy' = SettledBy
    BY DEF HeldBy, SettledBy
  <1>2. Used' = Used
    BY <1>1 DEF Used
  <1>3. \A s : RunTotal(s)' = RunTotal(s) /\ Dispatched(s)' = Dispatched(s)
    BY <1>2 DEF RunTotal, Dispatched
  <1> QED
    BY <1>1, <1>3 DEF Conservation, EnvelopesWithinLimits, Total

LEMMA QuietKeeps ==
    ASSUME LedgerInv, TypeOK', NEW A \in SUBSET Handlers, OnlyMoves(A),
           \A h \in A :
               /\ HandlerOK(h)'
               /\ handler'[h].pc \in Sending =>
                    /\ handler[h].pc \in Sending
                    /\ handler'[h].slot = handler[h].slot /\ handler'[h].n = handler[h].n,
           UNCHANGED <<effect, latest, provider, stored, account>>, AnsweredOK',
           account.reserved + account.settled <= budget'.limit
    PROVE  LedgerInv' /\ TriggerStep
  <1>0. /\ TypeOK /\ RowsOK /\ HandlersOK /\ OneSender /\ Conservation /\ EnvelopesWithinLimits
    BY DEF LedgerInv, RowsOK, HandlersOK
  <1>1. RowsOK'
    BY <1>0, RowFrame DEF RowsOK
  <1>2. HandlersOK'
    <2>1. LatestTyped
      BY <1>0, LatestType
    <2>2. \A t \in Slots : latest[t] <= latest'[t]
      BY <2>1 DEF LatestTyped
    <2> SUFFICES ASSUME NEW k \in Handlers, k \notin A PROVE HandlerOK(k)'
      BY DEF HandlersOK
    <2>3. HandlerOK(k) /\ handler'[k] = handler[k]
      BY <1>0 DEF HandlersOK, OnlyMoves
    <2> QED
      BY <1>0, <2>2, <2>3, HandlerKeeps DEF Later
  <1>3. OneSender'
    BY <1>0, SenderKeeps
  <1>4. Conservation' /\ EnvelopesWithinLimits'
    BY <1>0, SameMoney
  <1>5. AccountWithinLimit'
    BY DEF AccountWithinLimit
  <1>6. LedgerInv'
    BY <1>1, <1>2, <1>3, <1>4, <1>5 DEF LedgerInv, RowsOK, HandlersOK
  <1>7. AccountTriggerAdmits
    BY DEF AccountTriggerAdmits
  <1>8. EffectTriggerAdmits
    BY DEF EffectTriggerAdmits, RowTriggerAdmits
  <1> QED
    BY <1>6, <1>7, <1>8 DEF TriggerStep

\* The operator and the fences.
LEMMA FencesKeep ==
    ASSUME LedgerInv,
           \/ \E b \in Budgets : ProvisionBudget(b)
           \/ EndLease \/ LeaseNewRun \/ SupersedeCompilation
    PROVE  LedgerInv' /\ TriggerStep
  <1>0. TypeOK /\ AnsweredOK /\ AccountWithinLimit
    BY DEF LedgerInv
  <1>1. /\ OnlyMoves({}) /\ UNCHANGED <<effect, latest, provider, stored, account, answered, handler, bound>>
    BY DEF ProvisionBudget, EndLease, LeaseNewRun, SupersedeCompilation, OnlyMoves, fences
  <1>2. AnsweredOK'
    BY <1>0, <1>1 DEF AnsweredOK
  <1>3. ASSUME NEW b \in Budgets, ProvisionBudget(b)
        PROVE  TypeOK' /\ account.reserved + account.settled <= budget'.limit
    <2>1. b \in BudgetSpecs
      BY BudgetAssumption
    <2>2. budget.version + 1 \in 0..MaxVersions
      BY <1>0, <1>3, ProfileAssumption DEF TypeOK, ProvisionBudget
    <2>3. account.reserved \in Nat /\ account.settled \in Nat /\ b.limit \in Nat
      BY <1>0, <2>1 DEF TypeOK, BudgetSpecs
    <2>4. budget' = [version |-> budget.version + 1, authorized |-> b.authorized,
                     prior |-> b.prior, limit |-> b.limit]
      BY <1>3 DEF ProvisionBudget
    <2>5. b.limit >= account.reserved + account.settled
      BY <1>3 DEF ProvisionBudget, CoversUsage
    <2>6. TypeOK'
      BY <1>0, <1>1, <1>3, <2>1, <2>2, <2>4 DEF TypeOK, ProvisionBudget, fences, BudgetSpecs
    <2> QED
      BY <2>3, <2>4, <2>5, <2>6
  <1>4. ASSUME EndLease \/ LeaseNewRun \/ SupersedeCompilation
        PROVE  TypeOK' /\ account.reserved + account.settled <= budget'.limit
    <2>0. run' \in Runs
      BY <1>0, <1>4, ProfileAssumption DEF TypeOK, EndLease, LeaseNewRun, SupersedeCompilation, Runs
    <2>1. run' \in Runs /\ leased' \in BOOLEAN /\ setupLive' \in BOOLEAN
      BY <1>0, <1>4, <2>0, Zenon DEF TypeOK, EndLease, LeaseNewRun, SupersedeCompilation
    <2>2. budget' = budget
      BY <1>4 DEF EndLease, LeaseNewRun, SupersedeCompilation
    <2> QED
      BY <1>0, <1>1, <2>1, <2>2 DEF TypeOK, AccountWithinLimit
  <1> QED
    BY <1>1, <1>2, <1>3, <1>4, QuietKeeps

\* Requests that only move on: nothing they know is lost.
LEMMA MovesKeep ==
    ASSUME LedgerInv, NEW h \in Handlers,
           \/ \E s \in SetupSlots : SetupLookup(h, s)
           \/ ReplayDispatch(h) \/ CreateNoEffect(h) \/ AttachRecovery(h) \/ Poll(h)
           \/ AttachCompleted(h) \/ ReleaseAnswer(h) \/ GiveUp(h)
    PROVE  LedgerInv' /\ TriggerStep
  <1>0. TypeOK /\ AnsweredOK /\ AccountWithinLimit /\ HandlerOK(h) /\ RowsOK
    BY DEF LedgerInv, RowsOK
  <1>1. /\ UNCHANGED <<effect, latest, provider, stored, account, budget, bound, fences>>
    BY DEF SetupLookup, ReplayDispatch, CreateNoEffect, AttachRecovery, Poll, AttachCompleted,
           ReleaseAnswer, GiveUp
  <1> DEFINE s == handler[h].slot
             n == handler[h].n
             Fine == /\ handler' \in [Handlers -> HandlerStates] /\ OnlyMoves({h}) /\ HandlerOK(h)'
                     /\ handler'[h].pc \in Sending =>
                          /\ handler[h].pc \in Sending
                          /\ handler'[h].slot = s /\ handler'[h].n = n
  <1>2. ASSUME Return(h) PROVE Fine
    BY <1>0, <1>2, ReturnType, ReturnMoves, ReturnOK
  <1>3. ASSUME NEW t \in SetupSlots, SetupLookup(h, t) PROVE Fine
    <2> DEFINE row == LatestRow(t)
    <2>1. t \in Slots /\ LatestTyped
      BY <1>0, SlotFacts, LatestType
    <2>2. row.state \in {"uncertain", "completed"} =>
            latest[t] \in Attempts /\ row = effect[t][latest[t]] /\ RowOK(t, latest[t])
      BY <1>0, <2>1 DEF LatestRow, NoRow, TypeOK, RowsOK
    <2>3. PICK pc \in {"found", "complete", "reread"}, m \in Attempts :
            /\ handler' = [handler EXCEPT ![h] = [pc |-> pc, slot |-> t, n |-> m, run |-> 0]]
            /\ pc = "found" => m = 1
            /\ pc = "complete" => m = latest[t] /\ row.state = "uncertain" /\ row.ref > 0 /\ <<t, m>> \in stored
            /\ pc = "reread" => m = latest[t] /\ row.state = "completed"
      BY <1>3, <2>2, SlotFacts DEF SetupLookup
    <2>4. [pc |-> pc, slot |-> t, n |-> m, run |-> 0] \in HandlerStates
      BY <2>1 DEF HandlerStates, Steps
    <2>5. handler' \in [Handlers -> HandlerStates] /\ OnlyMoves({h})
      BY <1>0, <2>3, <2>4 DEF TypeOK, OnlyMoves
    <2>6. handler'[h].pc = pc /\ handler'[h].slot = t /\ handler'[h].n = m
      BY <1>0, <2>3 DEF TypeOK
    <2>7. pc # "found" => m <= latest[t]
      BY <2>1, <2>3 DEF LatestTyped
    <2>8. HandlerOK(h)'
      BY <1>1, <2>1, <2>2, <2>3, <2>6, <2>7 DEF HandlerOK, RowOK, Sending
    <2> QED
      BY <2>3, <2>5, <2>6, <2>8 DEF Sending
  <1>4. ASSUME NEW pc \in Steps, Goto(h, pc), handler[h].pc # "idle", handler[h].pc # "found",
               pc \in {"recover", "poll", "store", "cached", "reread", "no_effect"},
               pc = "no_effect" => handler[h].pc = "send",
               pc \in {"cached", "reread"} => effect[s][n].state = "completed",
               pc \in {"poll", "store"} =>
                 effect[s][n].state \in {"uncertain", "completed", "known_failed"} /\ effect[s][n].ref > 0,
               pc = "store" => provider[s][n].status \in {"completed", "failed"}
        PROVE  Fine
    <2>1. handler' \in [Handlers -> HandlerStates]
      BY <1>0, <1>4, GotoType
    <2>2. OnlyMoves({h}) /\ handler'[h].pc = pc /\ handler'[h].slot = s /\ handler'[h].n = n
      BY <1>0, <1>4, GotoMoves
    <2>3. HandlerOK(h)'
      BY <1>0, <1>1, <1>4, <2>2 DEF HandlerOK, Sending
    <2> QED
      BY <1>4, <2>1, <2>2, <2>3 DEF Sending
  <1> HIDE DEF Fine
  <1>5. ASSUME ReplayDispatch(h) PROVE Fine
    <2> DEFINE pc == AfterReplay(h)
    <2>1. pc \in {"idle", "recover", "cached"} /\ (pc = "cached" => effect[s][n].state = "completed")
      BY <1>5 DEF AfterReplay, AfterPrepare, Row, ReplayDispatch, Pending, Terminal
    <2>2. handler[h].pc = "prepared" /\ (IF pc = "idle" THEN Return(h) ELSE Goto(h, pc))
      BY <1>5 DEF ReplayDispatch, At
    <2> HIDE DEF pc
    <2> QED
      BY <1>2, <1>4, <2>1, <2>2 DEF Steps
  <1>6. ASSUME CreateNoEffect(h) PROVE Fine
    BY <1>4, <1>6 DEF CreateNoEffect, At, Steps
  <1>7. ASSUME AttachRecovery(h) PROVE Fine
    <2>1. s \in Slots /\ n \in Attempts
      BY <1>0, <1>7 DEF AttachRecovery, At, HandlerOK
    <2>2. effect[s][n].state = "uncertain" /\ effect[s][n].ref > 0
      <3>1. effect[s][n].state \in {"dispatching", "uncertain"} /\ effect[s][n].ref > 0
        BY <1>7 DEF AttachRecovery, Row, Pending
      <3>2. effect[s][n].state = "dispatching" => effect[s][n].ref = 0
        BY <1>0, <2>1 DEF RowsOK, RowOK
      <3> QED BY <3>1, <3>2
    <2> QED
      BY <1>4, <1>7, <2>2 DEF AttachRecovery, At, Steps
  <1>8. ASSUME Poll(h) PROVE Fine
    BY <1>0, <1>4, <1>8 DEF Poll, At, Steps, HandlerOK
  <1>9. ASSUME AttachCompleted(h) PROVE Fine
    BY <1>4, <1>9 DEF AttachCompleted, At, Row, Steps
  <1>10. Fine
    BY <1>2, <1>3, <1>5, <1>6, <1>7, <1>8, <1>9 DEF ReleaseAnswer, GiveUp
  <1>11. answered' \subseteq Slots \X Attempts /\ AnsweredOK'
    <2>1. CASE ReleaseAnswer(h)
      <3>1. s \in Slots /\ n \in Attempts /\ effect[s][n].state = "completed"
            /\ answered' = answered \cup {<<s, n>>}
        BY <1>0, <2>1 DEF ReleaseAnswer, At, HandlerOK, Row
      <3> QED BY <1>0, <1>1, <3>1 DEF AnsweredOK, TypeOK
    <2>2. CASE answered' = answered
      BY <1>0, <1>1, <2>2 DEF AnsweredOK, TypeOK
    <2> QED
      BY <2>1, <2>2 DEF SetupLookup, ReplayDispatch, CreateNoEffect, AttachRecovery, Poll,
                        AttachCompleted, GiveUp
  <1>12. TypeOK'
    BY <1>0, <1>1, <1>10, <1>11 DEF TypeOK, fences, Fine
  <1>13. account.reserved + account.settled <= budget'.limit
    BY <1>0, <1>1 DEF AccountWithinLimit
  <1> QED
    BY <1>1, <1>10, <1>11, <1>12, <1>13, QuietKeeps DEF Fine

-----------------------------------------------------------------------------
(* The account and the envelopes when one row changes.                     *)

LEMMA SumsTyped ==
    ASSUME TypeOK
    PROVE  /\ Total(HeldBy) \in Nat /\ Total(SettledBy) \in Nat
           /\ \A t : RunTotal(t) \in Nat
  <1>1. UsesTyped
    BY UseTypes
  <1>2. Total(HeldBy) \in Nat
    BY <1>1, FiniteEffects, SumNat DEF UsesTyped, Total
  <1>3. Total(SettledBy) \in Nat
    BY <1>1, FiniteEffects, SumNat DEF UsesTyped, Total
  <1>4. ASSUME NEW t PROVE RunTotal(t) \in Nat
    <2> DEFINE V == Envelope(t) \X Attempts
    <2>1. IsFiniteSet(V) /\ V \subseteq Slots \X Attempts
      BY FiniteEffects
    <2>2. \A x \in V : Used[x] \in Nat
      BY <1>1, <2>1 DEF UsesTyped
    <2> QED
      BY <2>1, <2>2, SumNat DEF RunTotal
  <1> QED
    BY <1>2, <1>3, <1>4

LEMMA RowType ==
    ASSUME TypeOK, NEW s \in Slots, NEW n \in Attempts
    PROVE  /\ effect[s][n] \in Rows /\ provider[s][n] \in Calls
           /\ Held(effect[s][n]) \in Nat /\ effect[s][n].settled \in Nat
           /\ account.reserved \in Nat /\ account.settled \in Nat /\ budget.limit \in Nat
  BY DEF TypeOK, Held, Rows

LEMMA DispatchedSame ==
    ASSUME NEW s \in Slots, NEW n \in Attempts, ElsewhereSame(s, n),
           effect[s][n].state \in {"none", "prepared"} <=> effect'[s][n].state \in {"none", "prepared"}
    PROVE  \A t : Dispatched(t)' = Dispatched(t)
  <1> SUFFICES ASSUME NEW t, NEW x \in Envelope(t) \X Attempts
               PROVE  effect'[x[1]][x[2]].state \in {"none", "prepared"}
                        <=> effect[x[1]][x[2]].state \in {"none", "prepared"}
    BY DEF Dispatched
  <1>1. x[1] \in Slots /\ x[2] \in Attempts
    BY FiniteEffects
  <1> QED
    BY <1>1 DEF ElsewhereSame

\* Money moves neither in the row nor in the account.
LEMMA NeutralMoney ==
    ASSUME LedgerInv, TypeOK', NEW s \in Slots, NEW n \in Attempts, ElsewhereSame(s, n),
           effect[s][n].state \in {"none", "prepared"} <=> effect'[s][n].state \in {"none", "prepared"},
           Held(effect'[s][n]) = Held(effect[s][n]), effect'[s][n].settled = effect[s][n].settled,
           UNCHANGED <<account, budget>>
    PROVE  Conservation' /\ EnvelopesWithinLimits' /\ AccountWithinLimit' /\ AccountTriggerAdmits
  <1>0. TypeOK /\ Conservation /\ EnvelopesWithinLimits /\ AccountWithinLimit
    BY DEF LedgerInv
  <1>1. /\ Held(effect[s][n]) \in Nat /\ effect[s][n].settled \in Nat
        /\ Total(HeldBy) \in Nat /\ Total(SettledBy) \in Nat /\ \A t : RunTotal(t) \in Nat
    BY <1>0, RowType, SumsTyped
  <1>2. Total(HeldBy)' = Total(HeldBy) /\ Total(SettledBy)' = Total(SettledBy)
    BY <1>0, <1>1, MoneyPoint
  <1>3. ASSUME NEW t PROVE RunTotal(t)' = RunTotal(t) /\ Dispatched(t)' = Dispatched(t)
    <2>1. RunTotal(t) \in Nat
      BY <1>1
    <2>2. RunTotal(t)' = RunTotal(t)
      BY <1>0, <1>1, <2>1, MoneyPoint
    <2> QED
      BY <2>2, DispatchedSame
  <1>4. Conservation'
    BY <1>0, <1>2 DEF Conservation
  <1>5. EnvelopesWithinLimits'
    BY <1>0, <1>3 DEF EnvelopesWithinLimits
  <1> QED
    BY <1>0, <1>4, <1>5 DEF AccountWithinLimit, AccountTriggerAdmits

\* A dispatched row gives its reservation back and keeps at most as much.
LEMMA SettleMoney ==
    ASSUME LedgerInv, TypeOK', NEW s \in Slots, NEW n \in Attempts, ElsewhereSame(s, n),
           effect[s][n].state \in Pending, effect'[s][n].state \in Terminal,
           effect[s][n].reserved = Reservation, effect[s][n].settled = 0,
           effect'[s][n].settled <= Reservation, budget' = budget,
           account' = [reserved |-> account.reserved - Reservation,
                       settled |-> account.settled + effect'[s][n].settled]
    PROVE  Conservation' /\ EnvelopesWithinLimits' /\ AccountWithinLimit' /\ AccountTriggerAdmits
  <1> DEFINE c == effect'[s][n].settled
  <1>0. TypeOK /\ Conservation /\ EnvelopesWithinLimits /\ AccountWithinLimit
    BY DEF LedgerInv
  <1>1. /\ Total(HeldBy) \in Nat /\ Total(SettledBy) \in Nat /\ \A t : RunTotal(t) \in Nat
    BY <1>0, SumsTyped
  <1>2. Held(effect[s][n]) = Reservation /\ Held(effect'[s][n]) = 0
    BY DEF Held, Pending, Terminal
  <1>3. c \in Nat /\ c <= Reservation /\ Reservation \in Nat /\ Reservation > 0
    BY SlotFacts DEF TypeOK, Rows
  <1>4. account.reserved \in Nat /\ account.settled \in Nat /\ budget.limit \in Nat
    BY <1>0, RowType
  <1>5. account'.reserved = account.reserved - Reservation /\ account'.settled = account.settled + c
    OBVIOUS
  <1>6. /\ Total(HeldBy)' = Total(HeldBy) - Reservation + 0
        /\ Total(SettledBy)' = Total(SettledBy) - 0 + c
    BY <1>0, <1>2, MoneyPoint
  <1>7. ASSUME NEW t PROVE RunTotal(t)' <= RunTotal(t) /\ Dispatched(t)' = Dispatched(t) /\ RunTotal(t)' \in Int
    <2>1. RunTotal(t) \in Nat
      BY <1>1
    <2>2. RunTotal(t)' = IF s \in Envelope(t) THEN RunTotal(t) - Reservation - 0 + 0 + c ELSE RunTotal(t)
      BY <1>0, <1>2, MoneyPoint
    <2>3. Dispatched(t)' = Dispatched(t)
      BY DispatchedSame DEF Pending, Terminal
    <2> HIDE DEF c
    <2> QED
      BY <1>3, <2>1, <2>2, <2>3
  <1> HIDE DEF c
  <1>8. Conservation'
    <2>1. account.reserved = Total(HeldBy) /\ account.settled = Total(SettledBy)
      BY <1>0 DEF Conservation
    <2>2. account'.reserved = Total(HeldBy)' /\ account'.settled = Total(SettledBy)'
      BY <1>1, <1>3, <1>4, <1>5, <1>6, <2>1
    <2> QED
      BY <2>2 DEF Conservation
  <1>9. EnvelopesWithinLimits'
    <2> SUFFICES ASSUME NEW t \in Slots
                 PROVE  Cardinality(Dispatched(t)') <= MaxCalls /\ RunTotal(t)' <= RunCeiling
      BY DEF EnvelopesWithinLimits
    <2>1. RunTotal(t) <= RunCeiling /\ Cardinality(Dispatched(t)) <= MaxCalls
      BY <1>0 DEF EnvelopesWithinLimits
    <2>2. RunTotal(t)' <= RunTotal(t) /\ Dispatched(t)' = Dispatched(t) /\ RunTotal(t) \in Nat /\ RunTotal(t)' \in Int
      BY <1>1, <1>7
    <2>3. RunCeiling \in Nat
      BY ProfileAssumption
    <2> QED
      BY <2>1, <2>2, <2>3
  <1>10. account'.reserved + account'.settled <= budget'.limit
    BY <1>0, <1>3, <1>4, <1>5 DEF AccountWithinLimit
  <1>11. /\ account'.reserved < account.reserved
         /\ account'.settled - account.settled \in 0..(account.reserved - account'.reserved)
    BY <1>3, <1>4, <1>5
  <1> QED
    BY <1>8, <1>9, <1>10, <1>11 DEF AccountWithinLimit, AccountTriggerAdmits

\* A prepared row is dispatched under a reservation that both limits admit.
LEMMA ReserveMoney ==
    ASSUME LedgerInv, TypeOK', NEW s \in Slots, NEW n \in Attempts, ElsewhereSame(s, n),
           effect[s][n].state = "prepared", effect[s][n].settled = 0,
           effect'[s][n].state = "dispatching", effect'[s][n].reserved = Reservation,
           effect'[s][n].settled = 0, EnvelopeAdmits(s), AccountAdmits, budget' = budget,
           account' = [account EXCEPT !.reserved = @ + Reservation]
    PROVE  Conservation' /\ EnvelopesWithinLimits' /\ AccountWithinLimit' /\ AccountTriggerAdmits
  <1>0. TypeOK /\ Conservation /\ EnvelopesWithinLimits /\ AccountWithinLimit
    BY DEF LedgerInv
  <1>1. /\ Total(HeldBy) \in Nat /\ Total(SettledBy) \in Nat /\ \A t : RunTotal(t) \in Nat
    BY <1>0, SumsTyped
  <1>2. Held(effect[s][n]) = 0 /\ Held(effect'[s][n]) = Reservation
    BY DEF Held, Pending
  <1>3. Reservation \in Nat /\ Reservation > 0 /\ RunCeiling \in Nat /\ MaxCalls \in Nat
    BY SlotFacts, ProfileAssumption
  <1>4. account.reserved \in Nat /\ account.settled \in Nat /\ budget.limit \in Nat
    BY <1>0, RowType
  <1>5. account'.reserved = account.reserved + Reservation /\ account'.settled = account.settled
    BY <1>0 DEF TypeOK
  <1>6. /\ Total(HeldBy)' = Total(HeldBy) - 0 + Reservation
        /\ Total(SettledBy)' = Total(SettledBy) - 0 + 0
    BY <1>0, <1>2, MoneyPoint
  <1>7. Conservation'
    <2>1. account.reserved = Total(HeldBy) /\ account.settled = Total(SettledBy)
      BY <1>0 DEF Conservation
    <2>2. account'.reserved = Total(HeldBy)' /\ account'.settled = Total(SettledBy)'
      BY <1>1, <1>3, <1>4, <1>5, <1>6, <2>1
    <2> QED
      BY <2>2 DEF Conservation
  <1>8. EnvelopesWithinLimits'
    <2> SUFFICES ASSUME NEW t \in Slots
                 PROVE  Cardinality(Dispatched(t)') <= MaxCalls /\ RunTotal(t)' <= RunCeiling
      BY DEF EnvelopesWithinLimits
    <2>1. RunTotal(t)' = IF s \in Envelope(t) THEN RunTotal(t) - 0 - 0 + Reservation + 0 ELSE RunTotal(t)
      BY <1>0, <1>2, MoneyPoint
    <2>2. RunTotal(t) <= RunCeiling /\ Cardinality(Dispatched(t)) <= MaxCalls /\ RunTotal(t) \in Nat
      BY <1>0, <1>1 DEF EnvelopesWithinLimits
    <2> DEFINE V == Envelope(t) \X Attempts
               Sent(x) == effect[x[1]][x[2]].state \notin {"none", "prepared"}
               SentNext(x) == effect'[x[1]][x[2]].state \notin {"none", "prepared"}
    <2>a. ASSUME NEW x \in V, x # <<s, n>> PROVE Sent(x) <=> SentNext(x)
      <3>0. Envelope(t) \subseteq Slots
        BY FiniteEffects
      <3>1. x[1] \in Slots /\ x[2] \in Attempts /\ x = <<x[1], x[2]>>
        BY <3>0
      <3>2. x[1] # s \/ x[2] # n
        BY <2>a, <3>1
      <3>3. effect'[x[1]][x[2]] = effect[x[1]][x[2]]
        BY <3>1, <3>2 DEF ElsewhereSame
      <3> QED
        BY <3>3
    <2>b. SentNext(<<s, n>>) /\ ~Sent(<<s, n>>) /\ (<<s, n>> \in V <=> s \in Envelope(t))
      OBVIOUS
    <2>c. Dispatched(t) = {x \in V : Sent(x)} /\ Dispatched(t)' = {x \in V : SentNext(x)}
      BY DEF Dispatched
    <2> HIDE DEF V, Sent, SentNext
    <2>3. CASE s \in Envelope(t)
      <3>1. Envelope(t) = Envelope(s)
        BY <2>3, ProfileAssumption DEF Envelope
      <3>2. RunTotal(t) = RunTotal(s) /\ Dispatched(t) = Dispatched(s)
        BY <3>1 DEF RunTotal, Dispatched
      <3>3. RunTotal(t) + Reservation <= RunCeiling /\ Cardinality(Dispatched(t)) < MaxCalls
        BY <3>2 DEF EnvelopeAdmits
      <3>4. Dispatched(t)' = Dispatched(t) \cup {<<s, n>>}
        BY <2>3, <2>a, <2>b, <2>c
      <3>5. IsFiniteSet(Dispatched(t))
        BY FiniteEffects, FS_Subset DEF Dispatched
      <3>6. Cardinality(Dispatched(t)) \in Nat /\ Cardinality(Dispatched(t)') <= Cardinality(Dispatched(t)) + 1
            /\ Cardinality(Dispatched(t)') \in Nat
        <4>1. Cardinality(Dispatched(t)) \in Nat
          BY <3>5, FS_CardinalityType
        <4>2. Cardinality(Dispatched(t)') \in {Cardinality(Dispatched(t)), Cardinality(Dispatched(t)) + 1}
          BY <3>4, <3>5, FS_AddElement
        <4> QED
          BY <4>1, <4>2
      <3> QED
        BY <1>3, <2>1, <2>2, <2>3, <3>3, <3>6
    <2>4. CASE s \notin Envelope(t)
      <3>1. Dispatched(t)' = Dispatched(t)
        BY <2>4, <2>a, <2>b, <2>c
      <3> QED
        BY <2>1, <2>2, <2>4, <3>1
    <2> QED
      BY <2>3, <2>4
  <1>9. account'.reserved + account'.settled <= budget'.limit
    BY <1>3, <1>4, <1>5 DEF AccountAdmits
  <1>10. account'.reserved > account.reserved
    BY <1>3, <1>4, <1>5
  <1> QED
    BY <1>5, <1>7, <1>8, <1>9, <1>10 DEF AccountWithinLimit, AccountTriggerAdmits

-----------------------------------------------------------------------------
(* Steps that change one attempt.                                          *)

LEMMA PointTrigger ==
    ASSUME NEW s \in Slots, NEW n \in Attempts, ElsewhereSame(s, n),
           RowTriggerAdmits(effect[s][n], effect'[s][n]),
           effect[s][n].state = "none" /\ n > 1 => effect[s][n - 1].state \in {"known_no_effect", "known_failed"}
    PROVE  EffectTriggerAdmits
  <1> SUFFICES ASSUME NEW t \in Slots, NEW m \in Attempts
               PROVE  /\ RowTriggerAdmits(effect[t][m], effect'[t][m])
                      /\ effect[t][m].state = "none" /\ effect'[t][m].state = "prepared" /\ m > 1
                           => effect[t][m - 1].state \in {"known_no_effect", "known_failed"}
    BY DEF EffectTriggerAdmits
  <1>1. CASE t = s /\ m = n
    BY <1>1
  <1>2. CASE t # s \/ m # n
    <2>1. effect'[t][m] = effect[t][m]
      BY <1>2 DEF ElsewhereSame
    <2> QED
      BY <2>1 DEF RowTriggerAdmits
  <1> QED
    BY <1>1, <1>2

LEMMA PointKeeps ==
    ASSUME LedgerInv, TypeOK', NEW s \in Slots, NEW n \in Attempts,
           NEW A \in SUBSET Handlers, OnlyMoves(A), \A h \in A : HandlerOK(h)', OneSender',
           ElsewhereSame(s, n), RowOK(s, n)',
           \A t \in Slots, m \in Attempts : t # s \/ m # n =>
               provider'[t][m] = provider[t][m] /\ (<<t, m>> \in stored' <=> <<t, m>> \in stored),
           stored \subseteq stored', latest' = latest, answered' = answered,
           Later(effect[s][n], effect'[s][n]),
           provider[s][n].status \in {"completed", "failed"} => provider'[s][n].status \in {"completed", "failed"},
           \/ effect[s][n].state # "dispatching"
           \/ \E h \in A : SendsAt(h, s, n)
           \/ effect'[s][n].state = effect[s][n].state /\ provider'[s][n].creates = provider[s][n].creates,
           Conservation', EnvelopesWithinLimits', AccountWithinLimit', AccountTriggerAdmits,
           RowTriggerAdmits(effect[s][n], effect'[s][n]), effect[s][n].state # "none"
    PROVE  LedgerInv' /\ TriggerStep
  <1>1. RowsOK'
    BY PointRows
  <1>2. LatestTyped
    BY LatestType DEF LedgerInv
  <1>3. HandlersOK'
    <2>1. \A t \in Slots : latest[t] <= latest'[t]
      BY <1>2 DEF LatestTyped
    <2>2. \A t \in Slots, m \in Attempts : t # s \/ m # n => provider'[t][m] = provider[t][m]
      OBVIOUS
    <2> QED
      BY <2>1, <2>2, PointHandlers
  <1>4. AnsweredOK'
    <2>1. AnsweredOK /\ answered \subseteq Slots \X Attempts
      BY DEF LedgerInv, TypeOK
    <2> SUFFICES ASSUME NEW x \in answered PROVE effect'[x[1]][x[2]].state = "completed"
      BY DEF AnsweredOK
    <2>2. x[1] \in Slots /\ x[2] \in Attempts /\ effect[x[1]][x[2]].state = "completed"
      BY <2>1 DEF AnsweredOK
    <2> QED
      BY <2>2 DEF ElsewhereSame, Later
  <1>5. LedgerInv'
    BY <1>1, <1>3, <1>4 DEF LedgerInv, RowsOK, HandlersOK
  <1>6. EffectTriggerAdmits
    BY PointTrigger
  <1> QED
    BY <1>5, <1>6 DEF TriggerStep

\* The allocation of the next attempt of a slot.
LEMMA AllocateKeeps ==
    ASSUME LedgerInv, TypeOK', NEW s \in Slots, NEW n \in Attempts, n = latest[s] + 1,
           n > 1 => effect[s][n - 1].state \in Retryable,
           effect' = [effect EXCEPT ![s][n] = PreparedRow], latest' = [latest EXCEPT ![s] = n],
           UNCHANGED <<provider, stored, account, budget, answered>>,
           NEW A \in SUBSET Handlers, OnlyMoves(A),
           \A h \in A : HandlerOK(h)' /\ handler'[h].pc \notin Sending
    PROVE  LedgerInv' /\ TriggerStep
  <1>0. /\ TypeOK /\ RowsOK /\ HandlersOK /\ OneSender /\ AnsweredOK
        /\ LatestTyped /\ Attempts \subseteq Nat \ {0}
    BY LatestType, SlotFacts DEF LedgerInv, RowsOK, HandlersOK
  <1>1. effect'[s][n] = PreparedRow /\ ElsewhereSame(s, n)
    <2> HIDE DEF PreparedRow
    <2> QED
      BY <1>0 DEF TypeOK, ElsewhereSame
  <1>2. latest'[s] = n /\ \A t \in Slots : t # s => latest'[t] = latest[t]
    BY <1>0 DEF TypeOK
  <1>3. n \in Nat /\ n > 0 /\ latest[s] \in Nat /\ n > latest[s]
    BY <1>0 DEF LatestTyped
  <1>4. RowOK(s, n) /\ effect[s][n].state = "none"
    BY <1>0, <1>3 DEF RowsOK, RowOK
  <1>5. RowsOK'
    <2> SUFFICES ASSUME NEW t \in Slots, NEW m \in Attempts PROVE RowOK(t, m)'
      BY DEF RowsOK
    <2>1. RowOK(t, m) /\ m \in Nat
      BY <1>0 DEF RowsOK
    <2>2. CASE t # s
      BY <1>1, <1>2, <2>1, <2>2, RowFrame DEF ElsewhereSame
    <2>3. CASE t = s /\ m # n
      <3>1. effect'[s][m] = effect[s][m]
        BY <1>1, <2>3 DEF ElsewhereSame
      <3>2. m < n => m < latest[s] \/ m = n - 1
        BY <1>3, <2>1, <2>3
      <3>3. m < n => effect[s][m].state \in Retryable
        <4>1. CASE m < latest[s]
          BY <2>1, <2>3, <4>1 DEF RowOK
        <4>2. CASE m = n - 1
          <5>1. m \in Nat \ {0}
            BY <1>0
          <5>2. n > 1
            BY <1>3, <4>2, <5>1
          <5> QED BY <4>2, <5>2
        <4> QED BY <3>2, <4>1, <4>2
      <3>4. m > n <=> m > latest[s]
        BY <1>3, <2>1, <2>3
      <3> QED
        BY <1>2, <2>1, <2>3, <3>1, <3>3, <3>4 DEF RowOK
    <2>4. CASE t = s /\ m = n
      <3>1. ~(n > n) /\ ~(n < n)
        BY <1>3
      <3>2. /\ PreparedRow.state = "prepared" /\ PreparedRow.reserved = 0 /\ PreparedRow.settled = 0
            /\ PreparedRow.ref = 0
        BY DEF PreparedRow, NoRow
      <3> QED
        BY <1>1, <1>2, <1>4, <2>4, <3>1, <3>2 DEF RowOK
    <2> QED BY <2>2, <2>3, <2>4
  <1>6. HandlersOK'
    <2>1. Later(effect[s][n], effect'[s][n])
      BY <1>4 DEF Later
    <2>2. \A t \in Slots : latest[t] <= latest'[t]
      BY <1>0, <1>2, <1>3 DEF LatestTyped
    <2> QED
      BY <1>1, <1>4, <2>1, <2>2, PointHandlers
  <1>7. OneSender'
    BY <1>0, SenderKeeps
  <1>8. AnsweredOK'
    <2> SUFFICES ASSUME NEW x \in answered PROVE effect'[x[1]][x[2]].state = "completed"
      BY DEF AnsweredOK
    <2>1. x[1] \in Slots /\ x[2] \in Attempts /\ effect[x[1]][x[2]].state = "completed"
      BY <1>0 DEF AnsweredOK, TypeOK
    <2>2. x[1] # s \/ x[2] # n
      BY <1>4, <2>1
    <2> QED
      BY <1>1, <2>1, <2>2 DEF ElsewhereSame
  <1>9. Conservation' /\ EnvelopesWithinLimits' /\ AccountWithinLimit' /\ AccountTriggerAdmits
    <2>1. effect'[s][n].state = "prepared" /\ effect'[s][n].settled = 0
      BY <1>1 DEF PreparedRow, NoRow
    <2>2. effect[s][n].settled = 0
      BY <1>4 DEF RowOK
    <2>3. Held(effect[s][n]) = 0 /\ Held(effect'[s][n]) = 0
      BY <1>4, <2>1 DEF Held, Pending
    <2> QED
      BY <1>1, <1>4, <2>1, <2>2, <2>3, NeutralMoney
  <1>10. LedgerInv'
    BY <1>5, <1>6, <1>7, <1>8, <1>9 DEF LedgerInv, RowsOK, HandlersOK
  <1>11. EffectTriggerAdmits
    BY <1>1, <1>4, PointTrigger DEF RowTriggerAdmits, Retryable
  <1> QED
    BY <1>9, <1>10, <1>11 DEF TriggerStep
-----------------------------------------------------------------------------
(* The actions that allocate an attempt.                                   *)

LEMMA RecoveryKeeps ==
    ASSUME LedgerInv, NEW s \in CheckerSlots, PrepareRecoveryChild(s)
    PROVE  LedgerInv' /\ TriggerStep
  <1> DEFINE n == latest[s] + 1
  <1>0. TypeOK /\ s \in Slots /\ LatestTyped
    BY SlotFacts, LatestType DEF LedgerInv
  <1>1. latest[s] \in 1..(MaxAttempts - 1) /\ latest[s] \in Nat
    BY <1>0 DEF PrepareRecoveryChild, LatestTyped
  <1>2. n \in Attempts /\ n - 1 = latest[s]
    BY <1>1, ProfileAssumption DEF Attempts
  <1>3. /\ effect[s][n - 1].state \in Retryable
        /\ effect' = [effect EXCEPT ![s][n] = PreparedRow] /\ latest' = [latest EXCEPT ![s] = n]
        /\ UNCHANGED <<account, budget, fences, bound, handler, provider, stored, answered>>
    BY <1>2 DEF PrepareRecoveryChild
  <1> HIDE DEF n
  <1>4. TypeOK'
    BY <1>0, <1>2, <1>3, RowTypes DEF TypeOK, fences
  <1>5. OnlyMoves({})
    BY <1>3 DEF OnlyMoves
  <1>6. n = latest[s] + 1
    BY DEF n
  <1> QED
    BY <1>0, <1>2, <1>3, <1>4, <1>5, <1>6, AllocateKeeps

\* Attaching to an attempt that exists, or allocating the first one.
LEMMA PrepareKeeps ==
    ASSUME LedgerInv, NEW h \in Handlers, NEW s \in CheckerSlots, PrepareAttempt(h, s)
    PROVE  LedgerInv' /\ TriggerStep
  <1> DEFINE n == IF latest[s] = 0 THEN 1 ELSE latest[s]
             row == IF latest[s] = 0 THEN PreparedRow ELSE LatestRow(s)
             pc == AfterPrepare(row.state)
             new == IF pc = "idle" THEN Idle ELSE [pc |-> pc, slot |-> s, n |-> n, run |-> run]
  <1>0. /\ TypeOK /\ s \in Slots /\ LatestTyped /\ RowsOK /\ AnsweredOK /\ AccountWithinLimit
        /\ latest[s] \in Nat
    BY SlotFacts, LatestType DEF LedgerInv, RowsOK, LatestTyped
  <1>1. n \in Attempts
    BY <1>0, SlotFacts DEF TypeOK
  <1>2. row \in Rows
    BY <1>0, <1>1, RowTypes DEF TypeOK, LatestRow
  <1>3. pc \in {"prepared", "recover", "cached", "idle"} /\ (pc = "cached" => row.state = "completed")
    BY DEF AfterPrepare
  <1>4. /\ latest' = [latest EXCEPT ![s] = n] /\ effect' = [effect EXCEPT ![s][n] = row]
        /\ bound' = [bound EXCEPT ![run][s] = n] /\ handler' = [handler EXCEPT ![h] = new]
        /\ UNCHANGED <<account, budget, fences, provider, stored, answered>>
    BY DEF PrepareAttempt
  <1>5. new \in HandlerStates
    BY <1>0, <1>1, <1>3, RowTypes, SlotFacts DEF HandlerStates, Steps, TypeOK
  <1>6. /\ new.pc = pc
        /\ pc # "idle" => new.slot = s /\ new.n = n
    BY DEF Idle
  <1>7. latest[s] = 0 => n = 1 /\ row = PreparedRow
    OBVIOUS
  <1>8. latest[s] # 0 => n = latest[s] /\ row = effect[s][n]
    BY DEF LatestRow
  <1> HIDE DEF n, row, pc, new
  <1>9. TypeOK'
    BY <1>0, <1>1, <1>2, <1>4, <1>5 DEF TypeOK, fences
  <1>10. OnlyMoves({h}) /\ handler'[h] = new
    BY <1>0, <1>4 DEF OnlyMoves, TypeOK
  <1>11. latest'[s] = n /\ effect'[s][n] = row
    BY <1>0, <1>1, <1>4 DEF TypeOK
  <1>12. n <= n
    BY <1>1, SlotFacts
  <1>13. HandlerOK(h)' /\ handler'[h].pc \notin Sending
    BY <1>0, <1>1, <1>3, <1>6, <1>10, <1>11, <1>12 DEF HandlerOK, Sending
  <1>14. CASE latest[s] = 0
    <2>1. n = latest[s] + 1 /\ ~(n > 1)
      BY <1>7, <1>14
    <2> QED
      BY <1>0, <1>1, <1>4, <1>7, <1>9, <1>10, <1>13, <1>14, <2>1, AllocateKeeps
  <1>15. CASE latest[s] # 0
    <2>1. latest' = latest /\ effect' = effect
      BY <1>0, <1>1, <1>4, <1>8, <1>15 DEF TypeOK
    <2>2. AnsweredOK' /\ account.reserved + account.settled <= budget'.limit
      BY <1>0, <1>4, <2>1 DEF AnsweredOK, AccountWithinLimit
    <2> QED
      BY <1>4, <1>9, <1>10, <1>13, <2>1, <2>2, QuietKeeps
  <1> QED
    BY <1>14, <1>15

LEMMA SetupPrepareKeeps ==
    ASSUME LedgerInv, NEW h \in Handlers, SetupPrepare(h)
    PROVE  LedgerInv' /\ TriggerStep
  <1> DEFINE s == handler[h].slot
  <1>0. /\ TypeOK /\ LatestTyped /\ AnsweredOK /\ AccountWithinLimit /\ HandlerOK(h)
    BY LatestType DEF LedgerInv
  <1>1. s \in Slots /\ handler[h].n = 1 /\ latest[s] \in Nat /\ 1 \in Attempts
    BY <1>0, SlotFacts DEF SetupPrepare, At, HandlerOK, LatestTyped
  <1>2. Goto(h, "prepared") /\ UNCHANGED <<account, budget, fences, bound, provider, stored, answered>>
    BY DEF SetupPrepare
  <1>3. /\ handler' \in [Handlers -> HandlerStates] /\ OnlyMoves({h})
        /\ handler'[h].pc = "prepared" /\ handler'[h].slot = s /\ handler'[h].n = 1
    <2>1. "prepared" \in Steps
      BY DEF Steps
    <2> QED BY <1>0, <1>1, <1>2, <2>1, GotoType, GotoMoves
  <1>4. handler'[h].pc \notin Sending
    BY <1>3 DEF Sending
  <1>5. CASE latest[s] > 0
    <2>1. UNCHANGED <<effect, latest>>
      BY <1>5 DEF SetupPrepare
    <2>2. TypeOK'
      BY <1>0, <1>2, <1>3, <2>1 DEF TypeOK, fences
    <2>3. AnsweredOK' /\ account.reserved + account.settled <= budget'.limit
      BY <1>0, <1>2, <2>1 DEF AnsweredOK, AccountWithinLimit
    <2>4. 1 <= latest'[s]
      BY <1>1, <1>5, <2>1
    <2>5. HandlerOK(h)'
      BY <1>1, <1>3, <2>4 DEF HandlerOK, Sending
    <2> QED
      BY <1>2, <1>3, <1>4, <2>1, <2>2, <2>3, <2>5, QuietKeeps
  <1>6. CASE ~(latest[s] > 0)
    <2>1. latest' = [latest EXCEPT ![s] = 1] /\ effect' = [effect EXCEPT ![s][1] = PreparedRow]
      BY <1>6 DEF SetupPrepare
    <2>2. TypeOK'
      BY <1>0, <1>1, <1>2, <1>3, <2>1, RowTypes DEF TypeOK, fences
    <2>3. 1 <= latest'[s]
      BY <1>0, <1>1, <2>1 DEF TypeOK
    <2>4. HandlerOK(h)'
      BY <1>1, <1>3, <2>3 DEF HandlerOK, Sending
    <2>5. 1 = latest[s] + 1 /\ ~(1 > 1)
      BY <1>1, <1>6
    <2> HIDE DEF s
    <2> QED
      BY <1>1, <1>2, <1>3, <1>4, <2>1, <2>2, <2>4, <2>5, AllocateKeeps
  <1> QED
    BY <1>5, <1>6

-----------------------------------------------------------------------------
(* The reservation and the provider.                                       *)

LEMMA ReserveKeeps ==
    ASSUME LedgerInv, NEW h \in Handlers, ReserveDispatch(h)
    PROVE  LedgerInv' /\ TriggerStep
  <1>a. PICK s, n : s = handler[h].slot /\ n = handler[h].n
    OBVIOUS
  <1> DEFINE row == effect[s][n]
             new == [row EXCEPT !.state = "dispatching", !.reserved = Reservation, !.run = handler[h].run]
  <1>0. /\ TypeOK /\ LatestTyped /\ RowsOK /\ HandlersOK /\ OneSender /\ HandlerOK(h)
    BY LatestType DEF LedgerInv, RowsOK, HandlersOK
  <1>1. handler[h].pc = "prepared" /\ s \in Slots /\ n \in Attempts /\ n <= latest[s]
    BY <1>0, <1>a DEF ReserveDispatch, At, HandlerOK
  <1>2. row.state = "prepared" /\ RowOK(s, n) /\ row \in Rows
    BY <1>0, <1>1, <1>a DEF ReserveDispatch, Row, RowsOK, TypeOK
  <1>3. /\ EnvelopeAdmits(s) /\ AccountAdmits
        /\ account' = [account EXCEPT !.reserved = @ + Reservation]
        /\ effect' = [effect EXCEPT ![s][n] = new] /\ Goto(h, "send")
        /\ UNCHANGED <<latest, budget, fences, bound, provider, stored, answered>>
    BY <1>a DEF ReserveDispatch, SetRow, Row
  <1>4. new \in Rows /\ handler[h].run \in Nat
    <2>1. handler[h].run \in Nat
      BY <1>0 DEF TypeOK, HandlerStates
    <2> QED BY <1>2, <2>1, SlotFacts DEF Rows, Pending
  <1>5. /\ new.state = "dispatching" /\ new.reserved = Reservation /\ new.settled = row.settled
        /\ new.ref = row.ref
    BY <1>2 DEF Rows
  <1>6. row.settled = 0 /\ row.ref = 0 /\ row.reserved = 0 /\ provider[s][n].creates = 0
    BY <1>2 DEF RowOK
  <1> HIDE DEF new
  <1>7. effect'[s][n] = new /\ ElsewhereSame(s, n)
    BY <1>0, <1>1, <1>3 DEF TypeOK, ElsewhereSame
  <1>8. /\ handler' \in [Handlers -> HandlerStates] /\ OnlyMoves({h})
        /\ handler'[h].pc = "send" /\ handler'[h].slot = s /\ handler'[h].n = n
    <2>1. "send" \in Steps
      BY DEF Steps
    <2> QED BY <1>0, <1>3, <1>a, <2>1, GotoType, GotoMoves
  <1>9. account' \in [reserved : Nat, settled : Nat]
    BY <1>0, <1>3, SlotFacts DEF TypeOK
  <1>10. TypeOK'
    BY <1>0, <1>1, <1>3, <1>4, <1>8, <1>9 DEF TypeOK, fences
  <1>11. HandlerOK(h)'
    BY <1>1, <1>3, <1>5, <1>6, <1>7, <1>8 DEF HandlerOK
  <1>12. OneSender'
    <2>1. ASSUME NEW k \in Handlers, k # h, handler'[k].pc \in Sending,
                 handler'[k].slot = s, handler'[k].n = n
          PROVE  FALSE
      <3>1. handler[k] = handler'[k] /\ HandlerOK(k)
        BY <1>0, <1>8, <2>1 DEF OnlyMoves, HandlersOK
      <3> QED
        BY <1>2, <2>1, <3>1 DEF HandlerOK, Sending
    <2> SUFFICES ASSUME NEW j \in Handlers, NEW k \in Handlers, j # k,
                        handler'[j].pc \in Sending, handler'[k].pc \in Sending,
                        handler'[j].slot = handler'[k].slot, handler'[j].n = handler'[k].n
                 PROVE  FALSE
      BY DEF OneSender, SameEffect
    <2>2. j # h /\ k # h
      BY <1>8, <2>1
    <2> QED
      BY <1>0, <1>8, <2>2 DEF OneSender, SameEffect, OnlyMoves
  <1>13. RowOK(s, n)'
    BY <1>2, <1>3, <1>5, <1>6, <1>7 DEF RowOK, Retryable
  <1>14. Conservation' /\ EnvelopesWithinLimits' /\ AccountWithinLimit' /\ AccountTriggerAdmits
    <2> HIDE DEF row
    <2>1. effect[s][n].state = "prepared" /\ effect[s][n].settled = 0
      BY <1>2, <1>6 DEF row
    <2>2. /\ effect'[s][n].state = "dispatching" /\ effect'[s][n].reserved = Reservation
          /\ effect'[s][n].settled = 0
      BY <1>5, <1>6, <1>7
    <2>3. budget' = budget
      BY <1>3
    <2> QED
      BY <1>1, <1>3, <1>7, <1>10, <2>1, <2>2, <2>3, ReserveMoney
  <1>15. RowTriggerAdmits(effect[s][n], effect'[s][n]) /\ Later(effect[s][n], effect'[s][n])
    BY <1>2, <1>5, <1>6, <1>7 DEF RowTriggerAdmits, Later
  <1> QED
    BY <1>1, <1>2, <1>3, <1>7, <1>8, <1>10, <1>11, <1>12, <1>13, <1>14, <1>15, PointKeeps

\* What the account and the ledger owe to a step that leaves both alone.
LEMMA ProviderKeeps ==
    ASSUME LedgerInv, TypeOK', NEW s \in Slots, NEW n \in Attempts,
           NEW A \in SUBSET Handlers, OnlyMoves(A), \A h \in A : HandlerOK(h)', OneSender',
           UNCHANGED <<effect, latest, account, budget, answered>>, RowOK(s, n)',
           \A t \in Slots, m \in Attempts : t # s \/ m # n =>
               provider'[t][m] = provider[t][m] /\ (<<t, m>> \in stored' <=> <<t, m>> \in stored),
           stored \subseteq stored',
           provider[s][n].status \in {"completed", "failed"} => provider'[s][n].status \in {"completed", "failed"},
           effect[s][n].state # "none",
           \/ \E h \in A : SendsAt(h, s, n)
           \/ provider'[s][n].creates = provider[s][n].creates
    PROVE  LedgerInv' /\ TriggerStep
  <1>1. ElsewhereSame(s, n) /\ effect'[s][n] = effect[s][n]
    BY DEF ElsewhereSame
  <1>2. Conservation' /\ EnvelopesWithinLimits' /\ AccountWithinLimit' /\ AccountTriggerAdmits
    BY <1>1, NeutralMoney
  <1>3. RowTriggerAdmits(effect[s][n], effect'[s][n]) /\ Later(effect[s][n], effect'[s][n])
    BY <1>1 DEF RowTriggerAdmits, Later
  <1> QED
    BY <1>1, <1>2, <1>3, PointKeeps

LEMMA FinishKeeps ==
    ASSUME LedgerInv, NEW s \in Slots, NEW n \in Attempts, ProviderFinish(s, n)
    PROVE  LedgerInv' /\ TriggerStep
  <1>0. TypeOK /\ RowOK(s, n) /\ OneSender
    BY DEF LedgerInv
  <1>1. /\ provider[s][n].status = "running"
        /\ UNCHANGED <<effect, latest, account, budget, fences, bound, handler, stored, answered>>
    BY DEF ProviderFinish
  <1>2. PICK status \in {"completed", "failed"} : provider' = [provider EXCEPT ![s][n].status = status]
    BY DEF ProviderFinish
  <1>3. TypeOK'
    <2> DEFINE call == [provider[s][n] EXCEPT !.status = status]
    <2>0. provider[s][n] \in Calls
      BY <1>0 DEF TypeOK
    <2>1. call \in Calls
      BY <2>0 DEF Calls
    <2>2. provider' = [provider EXCEPT ![s][n] = call]
      BY <1>2, Zenon
    <2> HIDE DEF call
    <2>3. provider' \in [Slots -> [Attempts -> Calls]]
      BY <1>0, <2>1, <2>2 DEF TypeOK
    <2> QED
      BY <1>0, <1>1, <2>3 DEF TypeOK, fences
  <1>4. /\ provider'[s][n].status = status /\ provider'[s][n].creates = provider[s][n].creates
        /\ provider'[s][n].cost = provider[s][n].cost
        /\ \A t \in Slots, m \in Attempts : t # s \/ m # n => provider'[t][m] = provider[t][m]
    BY <1>0, <1>2 DEF TypeOK, Calls
  <1>5. effect[s][n].state # "none"
    BY <1>0, <1>1 DEF RowOK
  <1>6. RowOK(s, n)'
    BY <1>0, <1>1, <1>4 DEF RowOK
  <1>7. OnlyMoves({}) /\ OneSender'
    BY <1>0, <1>1 DEF OnlyMoves, OneSender, SameEffect
  <1> QED
    BY <1>1, <1>3, <1>4, <1>5, <1>6, <1>7, ProviderKeeps

LEMMA CreateKeeps ==
    ASSUME LedgerInv, NEW h \in Handlers, CreateLost(h) \/ CreateAnswered(h)
    PROVE  LedgerInv' /\ TriggerStep
  <1>a. PICK s, n : s = handler[h].slot /\ n = handler[h].n
    OBVIOUS
  <1>0. TypeOK /\ HandlerOK(h) /\ OneSender /\ RowsOK /\ AnsweredOK /\ AccountWithinLimit
    BY DEF LedgerInv, RowsOK
  <1>1. /\ handler[h].pc = "send"
        /\ UNCHANGED <<effect, latest, account, budget, fences, bound, stored, answered>>
    BY DEF CreateLost, CreateAnswered, At
  <1>2. /\ s \in Slots /\ n \in Attempts /\ n <= latest[s] /\ effect[s][n].state = "dispatching"
        /\ provider[s][n].creates = 0
    BY <1>0, <1>1, <1>a DEF HandlerOK, Sending
  <1>3. RowOK(s, n)
    BY <1>0, <1>2 DEF RowsOK
  <1>4. PICK pc \in {"lost", "accepted", "invalid"} : Goto(h, pc)
    BY DEF CreateLost, CreateAnswered
  <1>5. /\ handler' \in [Handlers -> HandlerStates] /\ OnlyMoves({h})
        /\ handler'[h].pc = pc /\ handler'[h].slot = s /\ handler'[h].n = n
    <2>1. pc \in Steps
      BY DEF Steps
    <2> QED BY <1>0, <1>4, <1>a, <2>1, GotoType, GotoMoves
  <1>6. OneSender'
    BY <1>0, <1>1, <1>5, <1>a, SenderKeeps DEF Sending
  <1>7. SendsAt(h, s, n)
    BY <1>1, <1>a DEF SendsAt, Sending
  <1>8. ASSUME NEW status \in {"running", "completed", "failed"}, NEW cost \in Charges,
               Create(h, status, cost),
               pc = "accepted" /\ s \in SetupSlots => status \in {"completed", "failed"}
        PROVE  LedgerInv' /\ TriggerStep
    <2>1. TypeOK'
      <3>1. provider' \in [Slots -> [Attempts -> Calls]]
        BY <1>0, <1>2, <1>8, <1>a, CreateType
      <3> QED
        BY <1>0, <1>1, <1>5, <3>1 DEF TypeOK, fences
    <2> DEFINE call == [creates |-> provider[s][n].creates + 1, status |-> status,
                        cost |-> provider[s][n].cost + cost]
    <2>2. provider' = [provider EXCEPT ![s][n] = call]
      BY <1>8, <1>a DEF Create
    <2>3. provider[s][n].cost = 0 /\ provider[s][n].status = "none" /\ cost \in Nat /\ cost <= Reservation
      BY <1>2, <1>3, SlotFacts DEF RowOK
    <2>4. call.creates = 1 /\ call.status = status /\ call.cost = cost
      BY <1>2, <2>3
    <2> HIDE DEF call
    <2>5. /\ provider'[s][n] = call
          /\ \A t \in Slots, m \in Attempts : t # s \/ m # n => provider'[t][m] = provider[t][m]
      BY <1>0, <1>2, <2>2 DEF TypeOK
    <2>6. RowOK(s, n)'
      BY <1>1, <1>2, <1>3, <2>3, <2>4, <2>5 DEF RowOK
    <2>7. HandlerOK(h)'
      BY <1>1, <1>2, <1>5, <1>8, <2>4, <2>5 DEF HandlerOK
    <2> QED
      BY <1>1, <1>2, <1>5, <1>6, <1>7, <2>1, <2>3, <2>5, <2>6, <2>7, ProviderKeeps
  <1>9. ASSUME UNCHANGED provider, CreateLost(h) PROVE LedgerInv' /\ TriggerStep
    <2>1. handler'[h].pc = "lost"
      BY <1>0, <1>9, GotoMoves DEF CreateLost
    <2>2. TypeOK'
      BY <1>0, <1>1, <1>5, <1>9 DEF TypeOK, fences
    <2>3. HandlerOK(h)'
      BY <1>1, <1>2, <1>5, <2>1 DEF HandlerOK
    <2>4. AnsweredOK' /\ account.reserved + account.settled <= budget'.limit
      BY <1>0, <1>1 DEF AnsweredOK, AccountWithinLimit
    <2>5. handler[h].pc \in Sending
      BY <1>1 DEF Sending
    <2> QED
      BY <1>1, <1>5, <1>9, <1>a, <2>2, <2>3, <2>4, <2>5, QuietKeeps
  <1>10. ASSUME CreateAnswered(h) PROVE LedgerInv' /\ TriggerStep
    <2>1. PICK cost \in Charges, p \in {"accepted", "invalid"},
             status \in (IF s \in SetupSlots THEN {"completed", "failed"} ELSE {"running", "completed", "failed"}) :
               Create(h, status, cost) /\ Goto(h, p)
      BY <1>10, <1>a DEF CreateAnswered
    <2> QED
      BY <1>8, <2>1
  <1>11. ASSUME CreateLost(h) PROVE LedgerInv' /\ TriggerStep
    <2>1. UNCHANGED provider \/ \E cost \in Charges : Create(h, "completed", cost)
      BY <1>11 DEF CreateLost
    <2> QED
      BY <1>8, <1>9, <1>11, <2>1
  <1> QED
    BY <1>10, <1>11

-----------------------------------------------------------------------------
(* What becomes of a dispatched effect.                                    *)

LEMMA UncertainKeeps ==
    ASSUME LedgerInv, NEW h \in Handlers, MarkUncertain(h)
    PROVE  LedgerInv' /\ TriggerStep
  <1>a. PICK s, n : s = handler[h].slot /\ n = handler[h].n
    OBVIOUS
  <1> DEFINE row == effect[s][n]
             ref == IF At(h, "lost") THEN 0 ELSE provider[s][n].creates
             new == [row EXCEPT !.state = "uncertain", !.ref = ref]
  <1>0. TypeOK /\ RowsOK /\ OneSender /\ HandlerOK(h)
    BY DEF LedgerInv, RowsOK
  <1>1. /\ handler[h].pc \in {"lost", "invalid", "accepted"} /\ handler[h].pc \in Sending
        /\ s \in Slots /\ n \in Attempts /\ n <= latest[s]
    BY <1>0, <1>a DEF MarkUncertain, HandlerOK, Sending
  <1>2. row.state = "dispatching" /\ RowOK(s, n) /\ row \in Rows /\ provider[s][n] \in Calls
    BY <1>0, <1>1, <1>a DEF MarkUncertain, Row, RowsOK, TypeOK
  <1>3. /\ effect' = [effect EXCEPT ![s][n] = new]
        /\ UNCHANGED <<account, latest, budget, fences, bound, provider, stored, answered>>
    BY <1>a DEF MarkUncertain, SetRow, Row, UncertainReserves
  <1>4. ref \in Nat /\ ref \in {0, provider[s][n].creates}
    BY <1>2 DEF Calls
  <1>5. handler[h].pc \in {"invalid", "accepted"} => ref = 1
    BY <1>0, <1>1, <1>a DEF HandlerOK, At
  <1>6. row.settled = 0 /\ row.reserved = Reservation /\ row.ref = 0
    BY <1>2 DEF RowOK
  <1>7. new \in Rows
    BY <1>2, <1>4 DEF Rows, Pending
  <1>8. /\ new.state = "uncertain" /\ new.ref = ref /\ new.settled = row.settled
        /\ new.reserved = row.reserved /\ new.run = row.run
    BY <1>2 DEF Rows
  <1> HIDE DEF new, ref
  <1>9. effect'[s][n] = new /\ ElsewhereSame(s, n)
    BY <1>0, <1>1, <1>3 DEF TypeOK, ElsewhereSame
  <1>10. /\ handler' \in [Handlers -> HandlerStates] /\ OnlyMoves({h})
         /\ handler'[h].pc \notin Sending /\ HandlerOK(h)'
    <2>1. CASE Return(h)
      BY <1>0, <2>1, ReturnType, ReturnMoves, ReturnOK
    <2>2. CASE At(h, "accepted") /\ \E pc \in {"store", "poll"} :
                 Goto(h, pc) /\ (pc = "store" => s \in SetupSlots)
      <3>1. PICK pc \in {"store", "poll"} : Goto(h, pc) /\ (pc = "store" => s \in SetupSlots)
        BY <2>2
      <3>2. pc \in Steps /\ pc \notin Sending
        BY DEF Steps, Sending
      <3>3. /\ handler' \in [Handlers -> HandlerStates] /\ OnlyMoves({h})
            /\ handler'[h].pc = pc /\ handler'[h].slot = s /\ handler'[h].n = n
        BY <1>0, <1>a, <3>1, <3>2, GotoType, GotoMoves
      <3>4. ref > 0
        BY <1>5, <2>2 DEF At
      <3>5. pc = "store" => provider[s][n].status \in {"completed", "failed"}
        BY <1>0, <1>a, <2>2, <3>1 DEF HandlerOK, At
      <3>6. HandlerOK(h)'
        BY <1>1, <1>3, <1>8, <1>9, <3>2, <3>3, <3>4, <3>5 DEF HandlerOK
      <3> QED
        BY <3>2, <3>3, <3>6
    <2>3. \/ Return(h)
          \/ At(h, "accepted") /\ ((s \in SetupSlots /\ Goto(h, "store")) \/ Goto(h, "poll"))
      BY <1>a DEF MarkUncertain
    <2> QED
      BY <2>1, <2>2, <2>3
  <1>11. TypeOK'
    BY <1>0, <1>1, <1>3, <1>7, <1>10 DEF TypeOK, fences
  <1>12. OneSender'
    BY <1>0, <1>10, SenderKeeps
  <1>13. RowOK(s, n)'
    BY <1>2, <1>3, <1>4, <1>6, <1>8, <1>9 DEF RowOK, Retryable
  <1>14. Conservation' /\ EnvelopesWithinLimits' /\ AccountWithinLimit' /\ AccountTriggerAdmits
    <2>1. Held(effect'[s][n]) = Held(effect[s][n])
      BY <1>2, <1>8, <1>9 DEF Held, Pending
    <2> QED
      BY <1>1, <1>2, <1>3, <1>8, <1>9, <1>11, <2>1, NeutralMoney
  <1>15. RowTriggerAdmits(effect[s][n], effect'[s][n]) /\ Later(effect[s][n], effect'[s][n])
    BY <1>2, <1>6, <1>8, <1>9 DEF RowTriggerAdmits, Later
  <1>16. SendsAt(h, s, n)
    BY <1>1, <1>a DEF SendsAt
  <1> QED
    BY <1>1, <1>2, <1>3, <1>9, <1>10, <1>11, <1>12, <1>13, <1>14, <1>15, <1>16, PointKeeps

LEMMA NoEffectKeeps ==
    ASSUME LedgerInv, NEW h \in Handlers, MarkKnownNoEffect(h)
    PROVE  LedgerInv' /\ TriggerStep
  <1>a. PICK s, n : s = handler[h].slot /\ n = handler[h].n
    OBVIOUS
  <1> DEFINE row == effect[s][n]
             new == [row EXCEPT !.state = "known_no_effect"]
  <1>0. TypeOK /\ RowsOK /\ OneSender /\ HandlerOK(h)
    BY DEF LedgerInv, RowsOK
  <1>1. /\ handler[h].pc = "no_effect" /\ handler[h].pc \in Sending
        /\ s \in Slots /\ n \in Attempts /\ provider[s][n].creates = 0 /\ row.state = "dispatching"
    BY <1>0, <1>a DEF MarkKnownNoEffect, At, HandlerOK, Sending
  <1>2. RowOK(s, n) /\ row \in Rows
    BY <1>0, <1>1 DEF RowsOK, TypeOK
  <1>3. row.settled = 0 /\ row.reserved = Reservation /\ row.ref = 0
    BY <1>1, <1>2 DEF RowOK
  <1>4. /\ effect' = [effect EXCEPT ![s][n] = new] /\ Return(h)
        /\ account.reserved >= Reservation
        /\ account' = [account EXCEPT !.reserved = @ - Reservation]
        /\ UNCHANGED <<latest, budget, fences, bound, provider, stored, answered>>
    BY <1>3, <1>a DEF MarkKnownNoEffect, SetRow, Row, Release
  <1>5. new \in Rows
    BY <1>2 DEF Rows, Terminal
  <1>6. /\ new.state = "known_no_effect" /\ new.ref = row.ref /\ new.settled = row.settled
        /\ new.reserved = row.reserved /\ new.run = row.run
    BY <1>2 DEF Rows
  <1> HIDE DEF new
  <1>7. effect'[s][n] = new /\ ElsewhereSame(s, n)
    BY <1>0, <1>1, <1>4 DEF TypeOK, ElsewhereSame
  <1>8. /\ handler' \in [Handlers -> HandlerStates] /\ OnlyMoves({h})
        /\ handler'[h].pc \notin Sending /\ HandlerOK(h)'
    BY <1>0, <1>4, ReturnType, ReturnMoves, ReturnOK
  <1>9. account \in [reserved : Nat, settled : Nat] /\ Reservation \in Nat
    BY <1>0, SlotFacts DEF TypeOK
  <1>10. /\ account' \in [reserved : Nat, settled : Nat]
         /\ account' = [reserved |-> account.reserved - Reservation, settled |-> account.settled]
    BY <1>4, <1>9
  <1>11. account' = [reserved |-> account.reserved - Reservation, settled |-> account.settled + new.settled]
    <2>1. account.settled \in Nat
      BY <1>9
    <2>2. account.settled + new.settled = account.settled
      BY <1>3, <1>6, <2>1
    <2> QED
      BY <1>10, <2>2
  <1>12. TypeOK'
    BY <1>0, <1>1, <1>4, <1>5, <1>8, <1>10 DEF TypeOK, fences
  <1>13. OneSender'
    BY <1>0, <1>8, SenderKeeps
  <1>14. RowOK(s, n)'
    BY <1>1, <1>2, <1>3, <1>4, <1>6, <1>7 DEF RowOK, Retryable
  <1>15. Conservation' /\ EnvelopesWithinLimits' /\ AccountWithinLimit' /\ AccountTriggerAdmits
    <2>1. effect'[s][n].settled <= Reservation
      BY <1>3, <1>6, <1>7, SlotFacts
    <2>2. effect[s][n].state \in Pending /\ effect'[s][n].state \in Terminal
      BY <1>1, <1>6, <1>7 DEF Pending, Terminal
    <2> QED
      BY <1>1, <1>3, <1>4, <1>7, <1>11, <1>12, <2>1, <2>2, SettleMoney
  <1>16. RowTriggerAdmits(effect[s][n], effect'[s][n]) /\ Later(effect[s][n], effect'[s][n])
    BY <1>1, <1>3, <1>6, <1>7 DEF RowTriggerAdmits, Later, Terminal
  <1>17. SendsAt(h, s, n)
    BY <1>1, <1>a DEF SendsAt
  <1> QED
    BY <1>1, <1>4, <1>7, <1>8, <1>12, <1>13, <1>14, <1>15, <1>16, <1>17, PointKeeps

LEMMA StoreKeeps ==
    ASSUME LedgerInv, NEW h \in Handlers, StoreResponse(h)
    PROVE  LedgerInv' /\ TriggerStep
  <1>a. PICK s, n : s = handler[h].slot /\ n = handler[h].n
    OBVIOUS
  <1>0. TypeOK /\ RowsOK /\ OneSender /\ HandlerOK(h)
    BY DEF LedgerInv, RowsOK
  <1>1. /\ handler[h].pc = "store" /\ s \in Slots /\ n \in Attempts /\ n <= latest[s]
        /\ effect[s][n].state \in {"uncertain", "completed", "known_failed"} /\ effect[s][n].ref > 0
        /\ provider[s][n].status \in {"completed", "failed"}
    BY <1>0, <1>a DEF StoreResponse, At, HandlerOK
  <1>2. /\ stored' = stored \cup {<<s, n>>} /\ Goto(h, "complete")
        /\ UNCHANGED <<effect, latest, account, budget, fences, bound, provider, answered>>
    BY <1>a DEF StoreResponse
  <1>3. /\ handler' \in [Handlers -> HandlerStates] /\ OnlyMoves({h})
        /\ handler'[h].pc = "complete" /\ handler'[h].slot = s /\ handler'[h].n = n
    <2>1. "complete" \in Steps
      BY DEF Steps
    <2> QED BY <1>0, <1>2, <1>a, <2>1, GotoType, GotoMoves
  <1>4. handler'[h].pc \notin Sending
    BY <1>3 DEF Sending
  <1>5. TypeOK'
    BY <1>0, <1>1, <1>2, <1>3 DEF TypeOK, fences
  <1>6. HandlerOK(h)'
    BY <1>1, <1>2, <1>3, <1>4 DEF HandlerOK
  <1>7. OneSender'
    BY <1>0, <1>3, <1>4, SenderKeeps
  <1>8. RowOK(s, n)'
    <2>1. RowOK(s, n)
      BY <1>0, <1>1 DEF RowsOK
    <2> QED
      BY <1>1, <1>2, <2>1 DEF RowOK
  <1>9. \A t \in Slots, m \in Attempts : t # s \/ m # n => (<<t, m>> \in stored' <=> <<t, m>> \in stored)
    BY <1>2
  <1> QED
    BY <1>1, <1>2, <1>3, <1>5, <1>6, <1>7, <1>8, <1>9, ProviderKeeps

LEMMA CompleteKeeps ==
    ASSUME LedgerInv, NEW h \in Handlers, Complete(h)
    PROVE  LedgerInv' /\ TriggerStep
  <1>a. PICK s, n : s = handler[h].slot /\ n = handler[h].n
    OBVIOUS
  <1> DEFINE row == effect[s][n]
             call == provider[s][n]
             target == IF call.status = "completed" THEN "completed" ELSE "known_failed"
             new == [row EXCEPT !.state = target, !.ref = call.creates, !.settled = call.cost]
  <1>0. TypeOK /\ RowsOK /\ OneSender /\ HandlerOK(h) /\ AnsweredOK /\ AccountWithinLimit
    BY DEF LedgerInv, RowsOK
  <1>1. /\ handler[h].pc = "complete" /\ s \in Slots /\ n \in Attempts /\ n <= latest[s]
        /\ row.state \in {"uncertain", "completed", "known_failed"} /\ row.ref > 0
        /\ call.status \in {"completed", "failed"} /\ <<s, n>> \in stored
    BY <1>0, <1>a DEF Complete, At, HandlerOK
  <1>2. RowOK(s, n) /\ row \in Rows /\ call \in Calls
    BY <1>0, <1>1 DEF RowsOK, TypeOK
  <1>3. UNCHANGED <<latest, budget, fences, bound, provider, stored, answered>>
    BY DEF Complete
  <1>4. \/ Return(h)
        \/ target = "completed" /\ \E pc \in {"reread", "cached"} : Goto(h, pc)
    <2>1. \/ Return(h)
          \/ target = "completed" /\ (Goto(h, "reread") \/ Goto(h, "cached"))
      BY <1>a DEF Complete
    <2> QED
      BY <2>1
  <1>5. ASSUME effect'[s][n].state = target
        PROVE  /\ handler' \in [Handlers -> HandlerStates] /\ OnlyMoves({h})
               /\ handler'[h].pc \notin Sending /\ HandlerOK(h)'
    <2>1. CASE Return(h)
      BY <1>0, <2>1, ReturnType, ReturnMoves, ReturnOK
    <2>2. CASE target = "completed" /\ \E pc \in {"reread", "cached"} : Goto(h, pc)
      <3>1. PICK pc \in {"reread", "cached"} : Goto(h, pc)
        BY <2>2
      <3>2. pc \in Steps /\ pc \notin Sending
        BY DEF Steps, Sending
      <3>3. /\ handler' \in [Handlers -> HandlerStates] /\ OnlyMoves({h})
            /\ handler'[h].pc = pc /\ handler'[h].slot = s /\ handler'[h].n = n
        BY <1>0, <1>a, <3>1, <3>2, GotoType, GotoMoves
      <3>4. HandlerOK(h)'
        BY <1>1, <1>3, <1>5, <2>2, <3>2, <3>3 DEF HandlerOK
      <3> QED
        BY <3>2, <3>3, <3>4
    <2> QED
      BY <1>4, <2>1, <2>2
  <1>6. CASE row.state = target /\ UNCHANGED <<account, effect>>
    <2>1. effect'[s][n].state = target
      BY <1>6
    <2>2. /\ handler' \in [Handlers -> HandlerStates] /\ OnlyMoves({h})
          /\ handler'[h].pc \notin Sending /\ HandlerOK(h)'
      BY <1>5, <2>1
    <2>3. TypeOK'
      BY <1>0, <1>3, <1>6, <2>2 DEF TypeOK, fences
    <2>4. AnsweredOK' /\ account.reserved + account.settled <= budget'.limit
      BY <1>0, <1>3, <1>6 DEF AnsweredOK, AccountWithinLimit
    <2> QED
      BY <1>3, <1>6, <2>2, <2>3, <2>4, QuietKeeps
  <1>7. CASE /\ row.state \in Pending /\ Settle(row, call.cost)
             /\ effect' = [effect EXCEPT ![s][n] = new]
    <2>1. row.state = "uncertain" /\ row.settled = 0 /\ row.reserved = Reservation
          /\ row.ref = call.creates /\ call.cost \in Nat /\ call.cost <= Reservation
          /\ call.creates \in Nat
      BY <1>1, <1>2, <1>7 DEF RowOK, Pending, Calls
    <2>2. target \in {"completed", "known_failed"}
      OBVIOUS
    <2>3. new \in Rows
      BY <1>2, <2>1, <2>2 DEF Rows, Terminal
    <2>4. /\ new.state = target /\ new.ref = call.creates /\ new.settled = call.cost
          /\ new.reserved = row.reserved /\ new.run = row.run
      BY <1>2 DEF Rows
    <2>5. target = "completed" <=> call.status = "completed"
      OBVIOUS
    <2> HIDE DEF new, target
    <2>6. effect'[s][n] = new /\ ElsewhereSame(s, n)
      BY <1>0, <1>1, <1>7 DEF TypeOK, ElsewhereSame
    <2>7. /\ handler' \in [Handlers -> HandlerStates] /\ OnlyMoves({h})
          /\ handler'[h].pc \notin Sending /\ HandlerOK(h)'
      BY <1>5, <2>4, <2>6
    <2>8. /\ account' = [reserved |-> account.reserved - Reservation, settled |-> account.settled + call.cost]
          /\ account' \in [reserved : Nat, settled : Nat]
      <3>1. account.reserved \in Nat /\ account.settled \in Nat /\ Reservation \in Nat
        BY <1>0, SlotFacts DEF TypeOK
      <3>2. /\ account' = [reserved |-> account.reserved - Reservation, settled |-> account.settled + call.cost]
            /\ account.reserved >= Reservation
        BY <1>7, <2>1 DEF Settle
      <3> QED
        BY <2>1, <3>1, <3>2
    <2>9. TypeOK'
      BY <1>0, <1>1, <1>3, <1>7, <2>3, <2>7, <2>8 DEF TypeOK, fences
    <2>10. OneSender'
      BY <1>0, <2>7, SenderKeeps
    <2>11. RowOK(s, n)'
      BY <1>1, <1>2, <1>3, <2>1, <2>2, <2>4, <2>5, <2>6 DEF RowOK, Retryable
    <2>12. Conservation' /\ EnvelopesWithinLimits' /\ AccountWithinLimit' /\ AccountTriggerAdmits
      <3>1. effect'[s][n].settled = call.cost
        BY <2>4, <2>6
      <3>2. effect[s][n].state \in Pending /\ effect'[s][n].state \in Terminal
        BY <1>7, <2>2, <2>4, <2>6 DEF Terminal
      <3> QED
        BY <1>1, <1>3, <2>1, <2>6, <2>8, <2>9, <3>1, <3>2, SettleMoney
    <2>13. RowTriggerAdmits(effect[s][n], effect'[s][n]) /\ Later(effect[s][n], effect'[s][n])
      BY <1>1, <2>1, <2>2, <2>4, <2>6 DEF RowTriggerAdmits, Later, Terminal
    <2> QED
      BY <1>1, <1>3, <2>1, <2>6, <2>7, <2>9, <2>10, <2>11, <2>12, <2>13, PointKeeps
  <1> QED
    BY <1>6, <1>7, <1>a DEF Complete, SetRow, Row

-----------------------------------------------------------------------------
(* LedgerInv is an invariant.                                              *)

LEMMA InitInv == Init => LedgerInv
  <1> SUFFICES ASSUME Init PROVE LedgerInv
    OBVIOUS
  <1>1. TypeOK
    BY InitType
  <1>2. UsesTyped
    BY <1>1, UseTypes
  <1>3. \A s \in Slots, n \in Attempts : effect[s][n] = NoRow /\ provider[s][n] = NoCall /\ latest[s] = 0
    BY DEF Init
  <1>4. \A s \in Slots, n \in Attempts : RowOK(s, n)
    <2> SUFFICES ASSUME NEW s \in Slots, NEW n \in Attempts PROVE RowOK(s, n)
      OBVIOUS
    <2>1. n > 0 /\ ~(n < 0) /\ 0 <= Reservation
      BY SlotFacts
    <2> QED
      BY <1>3, <2>1 DEF Init, RowOK, NoRow, NoCall
  <1>5. \A h \in Handlers : handler[h].pc = "idle"
    BY DEF Init, Idle
  <1>6. (\A h \in Handlers : HandlerOK(h)) /\ OneSender
    BY <1>5 DEF HandlerOK, OneSender, Sending
  <1>7. AnsweredOK
    BY DEF Init, AnsweredOK
  <1>8. \A p \in Slots \X Attempts : HeldBy[p] = 0 /\ SettledBy[p] = 0 /\ Used[p] = 0
    BY <1>2, <1>3 DEF UsesTyped, NoRow, Held, Pending
  <1>9. Total(HeldBy) = 0
    BY <1>8, FiniteEffects, SumZero DEF Total
  <1>10. Total(SettledBy) = 0
    BY <1>8, FiniteEffects, SumZero DEF Total
  <1>11. Conservation /\ AccountWithinLimit
    BY <1>9, <1>10 DEF Init, Conservation, AccountWithinLimit
  <1>12. EnvelopesWithinLimits
    <2> SUFFICES ASSUME NEW s \in Slots
                 PROVE  Cardinality(Dispatched(s)) <= MaxCalls /\ RunTotal(s) <= RunCeiling
      BY DEF EnvelopesWithinLimits
    <2>1. Envelope(s) \X Attempts \subseteq Slots \X Attempts /\ IsFiniteSet(Envelope(s) \X Attempts)
      BY FiniteEffects
    <2>2. Dispatched(s) = {}
      BY <1>3, <2>1 DEF Dispatched, NoRow
    <2>3. \A p \in Envelope(s) \X Attempts : Used[p] = 0
      BY <1>8, <2>1
    <2>4. RunTotal(s) = 0
      BY <2>1, <2>3, SumZero DEF RunTotal
    <2> QED
      BY <2>2, <2>4, FS_EmptySet, ProfileAssumption
  <1> QED
    BY <1>1, <1>4, <1>6, <1>7, <1>11, <1>12 DEF LedgerInv

LEMMA NextKeeps == LedgerInv /\ Next => LedgerInv' /\ TriggerStep
  <1> SUFFICES ASSUME LedgerInv, Next PROVE LedgerInv' /\ TriggerStep
    OBVIOUS
  <1>1. ASSUME NEW h \in Handlers, HandlerStep(h) PROVE LedgerInv' /\ TriggerStep
    BY <1>1, PrepareKeeps, SetupPrepareKeeps, ReserveKeeps, MovesKeep, CreateKeeps, UncertainKeeps,
       NoEffectKeeps, StoreKeeps, CompleteKeeps DEF HandlerStep
  <1> QED
    BY <1>1, FencesKeep, RecoveryKeeps, FinishKeeps DEF Next

LEMMA StutterKeeps == LedgerInv /\ UNCHANGED vars => LedgerInv'
  <1> SUFFICES ASSUME LedgerInv, UNCHANGED vars PROVE LedgerInv'
    OBVIOUS
  <1>0. TypeOK /\ AnsweredOK /\ AccountWithinLimit
    BY DEF LedgerInv
  <1>1. UNCHANGED <<effect, latest, provider, stored, account, budget, answered, handler>> /\ OnlyMoves({})
    BY DEF vars, OnlyMoves
  <1>2. TypeOK' /\ AnsweredOK'
    BY <1>0 DEF TypeOK, AnsweredOK, vars
  <1>3. account.reserved + account.settled <= budget'.limit
    BY <1>0, <1>1 DEF AccountWithinLimit
  <1> QED
    BY <1>1, <1>2, <1>3, QuietKeeps

\* The ledger of paid calls keeps its inductive invariant in every
\* interleaving of requests, fences, budget changes and provider answers.
THEOREM LedgerInvariant == Spec => []LedgerInv
  <1>1. LedgerInv /\ [Next]_vars => LedgerInv'
    BY NextKeeps, StutterKeeps
  <1> QED
    BY <1>1, InitInv, PTL DEF Spec

\* Every variable keeps its type; the account is never driven below zero by
\* _release or _settle.
THEOREM LedgerTyped == Spec => []TypeOK
  <1>1. LedgerInv => TypeOK
    BY DEF LedgerInv
  <1> QED
    BY <1>1, LedgerInvariant, PTL

\* The account equals the sums over the ledger (reserve_dispatch, _settle,
\* _release), for any number of slots, attempts and concurrent requests.
THEOREM AccountConserved == Spec => []Conservation
  <1>1. LedgerInv => Conservation
    BY DEF LedgerInv
  <1> QED
    BY <1>1, LedgerInvariant, PTL

\* No envelope of a checker session or a compilation exceeds its calls or its
\* money (envelope_totals, setup_envelope_totals).
THEOREM EnvelopesKept == Spec => []EnvelopesWithinLimits
  <1>1. LedgerInv => EnvelopesWithinLimits
    BY DEF LedgerInv
  <1> QED
    BY <1>1, LedgerInvariant, PTL

\* What the provider charges stays within the lifetime limit, although the
\* ledger does not know every charge: each charge is covered by what its row
\* still holds or has settled (mark_uncertain keeps the reservation).
THEOREM BillCovered == Spec => []BillWithinLimit
  <1>1. LedgerInv => BillWithinLimit
    <2> SUFFICES ASSUME LedgerInv PROVE BillWithinLimit
      OBVIOUS
    <2> DEFINE D == Slots \X Attempts
    <2>0. TypeOK /\ UsesTyped /\ Conservation /\ AccountWithinLimit /\ RowsOK
      BY UseTypes DEF LedgerInv, RowsOK
    <2>1. ASSUME NEW p \in D PROVE /\ Billed[p] \in Nat /\ Used[p] \in Nat /\ Billed[p] <= Used[p]
                                   /\ HeldBy[p] \in Nat /\ SettledBy[p] \in Nat
                                   /\ Used[p] = HeldBy[p] + SettledBy[p]
      <3> DEFINE row == effect[p[1]][p[2]]
                 call == provider[p[1]][p[2]]
      <3>0. p[1] \in Slots /\ p[2] \in Attempts
        OBVIOUS
      <3>1. RowOK(p[1], p[2]) /\ call \in Calls /\ Reservation \in Nat
        BY <2>0, <3>0, RowType, SlotFacts DEF RowsOK
      <3>2. Billed[p] = call.cost /\ call.cost \in Nat
        BY <3>1 DEF Billed, Calls
      <3>3. /\ Used[p] = HeldBy[p] + SettledBy[p] /\ HeldBy[p] = Held(row) /\ SettledBy[p] = row.settled
            /\ HeldBy[p] \in Nat /\ SettledBy[p] \in Nat /\ Used[p] \in Nat /\ row \in Rows
        BY <2>0 DEF UsesTyped
      <3>4. CASE row.state \in Pending
        <4>1. Held(row) = Reservation /\ call.cost <= Reservation /\ row.settled = 0
          BY <3>1, <3>4 DEF RowOK, Held, Pending
        <4> QED
          BY <3>1, <3>2, <3>3, <4>1
      <3>5. CASE row.state \in {"none", "prepared", "known_no_effect"}
        <4>1. call.cost = 0
          BY <3>1, <3>5 DEF RowOK
        <4> QED
          BY <3>2, <3>3, <4>1
      <3>6. CASE row.state \in {"completed", "known_failed"}
        <4>1. row.settled = call.cost
          BY <3>1, <3>6 DEF RowOK
        <4> QED
          BY <3>2, <3>3, <4>1
      <3> QED
        BY <3>3, <3>4, <3>5, <3>6 DEF Rows, Pending, Terminal
    <2>2. IsFiniteSet(D)
      BY FiniteEffects
    <2> HIDE DEF D
    <2>3. SumFunctionOnSet(Billed, D) <= SumFunctionOnSet(Used, D)
      BY <2>1, <2>2, SumMonotone
    <2>4. SumFunctionOnSet(Used, D) = SumFunctionOnSet(HeldBy, D) + SumFunctionOnSet(SettledBy, D)
      BY <2>1, <2>2, SumPlus
    <2>5. SumFunctionOnSet(Billed, D) \in Nat /\ SumFunctionOnSet(Used, D) \in Nat
      BY <2>1, <2>2, SumNat
    <2>6. account.reserved = SumFunctionOnSet(HeldBy, D) /\ account.settled = SumFunctionOnSet(SettledBy, D)
      BY <2>0 DEF Conservation, Total, D
    <2>7. account.reserved + account.settled <= budget.limit /\ budget.limit \in Nat
      BY <2>0 DEF AccountWithinLimit, TypeOK
    <2>8. SumFunctionOnSet(Billed, D) <= budget.limit
      BY <2>3, <2>4, <2>5, <2>6, <2>7
    <2> QED
      BY <2>8 DEF BillWithinLimit, Total, D
  <1> QED
    BY <1>1, LedgerInvariant, PTL

\* An attempt is created at most once at the provider, and a slot has a later
\* attempt only when every earlier one is settled as failed or known to be
\* unbilled (the replay rule of reserve_dispatch and _eligible_parent).
THEOREM OneEffectAtATime == Spec => []EffectsOneAtATime
  <1>1. LedgerInv => EffectsOneAtATime
    <2> SUFFICES ASSUME LedgerInv, NEW s \in Slots, NEW n \in Attempts
                 PROVE  /\ provider[s][n].creates <= 1
                        /\ n < latest[s] =>
                             \/ effect[s][n].state = "known_no_effect" /\ provider[s][n].creates = 0
                             \/ /\ effect[s][n].state = "known_failed"
                                /\ effect[s][n].settled = provider[s][n].cost
      BY DEF EffectsOneAtATime
    <2>1. RowOK(s, n)
      BY DEF LedgerInv
    <2> QED
      BY <2>1 DEF RowOK, Retryable
  <1> QED
    BY <1>1, LedgerInvariant, PTL

\* Every released answer of a slot is its one completed, stored and settled
\* response (attach_completed, _cached).
THEOREM OneAnswer == Spec => []AnswersAgree
  <1>1. LedgerInv => AnswersAgree
    <2> SUFFICES ASSUME LedgerInv, NEW p \in answered
                 PROVE  /\ p[2] = latest[p[1]] /\ p \in stored
                        /\ effect[p[1]][p[2]].state = "completed"
                        /\ effect[p[1]][p[2]].settled = provider[p[1]][p[2]].cost
      BY DEF AnswersAgree
    <2>1. p[1] \in Slots /\ p[2] \in Attempts /\ p = <<p[1], p[2]>>
      BY DEF LedgerInv, TypeOK
    <2>2. RowOK(p[1], p[2]) /\ effect[p[1]][p[2]].state = "completed" /\ LatestTyped
      BY <2>1, LatestType DEF LedgerInv, AnsweredOK
    <2>3. ~(p[2] < latest[p[1]]) /\ ~(p[2] > latest[p[1]])
      BY <2>2 DEF RowOK, Retryable
    <2>4. p[2] \in Nat /\ latest[p[1]] \in Nat
      BY <2>1, <2>2, SlotFacts DEF LatestTyped
    <2>5. p[2] = latest[p[1]]
      BY <2>3, <2>4
    <2> QED
      BY <2>1, <2>2, <2>5 DEF RowOK
  <1> QED
    BY <1>1, LedgerInvariant, PTL

\* The triggers of migration 0062 admit every transaction of the service.
THEOREM TriggersAgree == Spec => TriggersAdmit
  <1>1. LedgerInv /\ Next => TriggerStep
    BY NextKeeps
  <1> QED
    BY <1>1, LedgerInvariant, PTL DEF Spec, TriggersAdmit, TriggerStep
=============================================================================
