----------------------- MODULE OutboxContract_proofs -----------------------
(***************************************************************************)
(* The contract alone already gives features the promise they rely on.     *)
(***************************************************************************)
EXTENDS OutboxContract, TLAPS

\* Until an event is handed out again nothing was done for it, and RETRY is
\* only answered for a claim under which nothing was done.
ContractInv ==
    /\ custody \in [Events -> {"absent", "waiting", "held", "handed", "acknowledged", "dead"}]
    /\ DOMAIN gen = Events /\ DOMAIN answer = Events /\ DOMAIN done = Events
    /\ \A e \in Events \ ReplaySafe :
         /\ done[e] \subseteq {gen[e]}
         /\ custody[e] \in {"absent", "waiting", "held"} \/ answer[e] = "retry" => done[e] = {}

\* An event that is not replay safe has its effect under one claim at most.
THEOREM ContractDoneOnce == ContractSpec => []DoneOnce
  <1>1. ContractInit => ContractInv
    BY DEF ContractInit, ContractInv
  <1>2. ContractInv /\ [ContractNext]_contract => ContractInv'
    <2> SUFFICES ASSUME ContractInv, [ContractNext]_contract PROVE ContractInv'
      OBVIOUS
    <2>1. CASE UNCHANGED contract
      BY <2>1 DEF contract, ContractInv
    <2>2. ASSUME NEW e \in Events, Offer(e) \/ Hand(e) \/ Abandon(e) \/ Acknowledge(e) \/ Return(e) PROVE ContractInv'
      BY <2>2 DEF Offer, Hand, Abandon, Acknowledge, Return, Move, ContractInv
    <2>3. ASSUME NEW e \in Events, Grant(e) PROVE ContractInv'
      BY <2>3 DEF Grant, Move, ContractInv
    <2>4. ASSUME NEW e \in Events, Effect(e) PROVE ContractInv'
      BY <2>4 DEF Effect, ContractInv
    <2>5. ASSUME NEW e \in Events, NEW v \in Answers, Answer(e, v) PROVE ContractInv'
      BY <2>5 DEF Answer, ContractInv
    <2> QED
      BY <2>1, <2>2, <2>3, <2>4, <2>5 DEF ContractNext
  <1>3. ContractInv => DoneOnce
    BY DEF ContractInv, DoneOnce
  <1> QED
    BY <1>1, <1>2, <1>3, PTL DEF ContractSpec
=============================================================================
