--------------------------- MODULE OutboxContract ---------------------------
(***************************************************************************)
(* What the outbox promises a feature, without workers, leases or clocks:  *)
(* an event is held by at most one claim at a time, handed to its handler  *)
(* at most once per claim, and comes back for another claim only when it   *)
(* was not handed out, its handler asked for a retry, or repeating an      *)
(* unknown call is declared safe.                                          *)
(***************************************************************************)
EXTENDS Integers

CONSTANTS Events, ReplaySafe, MaxAttempts

VARIABLES
    custody,  \* where the event stands
    gen,      \* claims granted so far
    answer,   \* what the handler answered to the newest claim
    done      \* claims under which a feature effect committed

contract == <<custody, gen, answer, done>>

Answers == {"acknowledge", "retry", "reject"}

ContractTypeOK ==
    /\ custody \in [Events -> {"absent", "waiting", "held", "handed", "acknowledged", "dead"}]
    /\ gen \in [Events -> 0..MaxAttempts]
    /\ answer \in [Events -> Answers \cup {"none"}]
    /\ done \in [Events -> SUBSET (1..MaxAttempts)]

ContractInit ==
    /\ custody = [e \in Events |-> "absent"]
    /\ gen = [e \in Events |-> 0]
    /\ answer = [e \in Events |-> "none"]
    /\ done = [e \in Events |-> {}]

Move(e, from, to) ==
    /\ custody[e] = from
    /\ custody' = [custody EXCEPT ![e] = to]

Offer(e) == Move(e, "absent", "waiting") /\ UNCHANGED <<gen, answer, done>>

Grant(e) ==
    /\ Move(e, "waiting", "held")
    /\ gen[e] < MaxAttempts
    /\ gen' = [gen EXCEPT ![e] = @ + 1]
    /\ answer' = [answer EXCEPT ![e] = "none"]
    /\ UNCHANGED done

Hand(e) == Move(e, "held", "handed") /\ UNCHANGED <<gen, answer, done>>

\* RETRY promises that nothing was done.
Answer(e, v) ==
    /\ gen[e] > 0 /\ answer[e] = "none"
    /\ v = "retry" => gen[e] \notin done[e]
    /\ answer' = [answer EXCEPT ![e] = v]
    /\ UNCHANGED <<custody, gen, done>>

Effect(e) ==
    /\ custody[e] = "handed" /\ answer[e] = "none"
    /\ done' = [done EXCEPT ![e] = @ \cup {gen[e]}]
    /\ UNCHANGED <<custody, gen, answer>>

Return(e) ==
    /\ \/ Move(e, "held", "waiting")
       \/ Move(e, "handed", "waiting") /\ (answer[e] = "retry" \/ e \in ReplaySafe)
    /\ gen[e] < MaxAttempts
    /\ UNCHANGED <<gen, answer, done>>

Acknowledge(e) ==
    /\ Move(e, "handed", "acknowledged") /\ answer[e] = "acknowledge"
    /\ UNCHANGED <<gen, answer, done>>

Abandon(e) ==
    /\ Move(e, "held", "dead") \/ Move(e, "handed", "dead")
    /\ UNCHANGED <<gen, answer, done>>

ContractNext ==
    \E e \in Events :
        \/ Offer(e) \/ Grant(e) \/ Hand(e) \/ Effect(e)
        \/ Return(e) \/ Acknowledge(e) \/ Abandon(e)
        \/ \E v \in Answers : Answer(e, v)

ContractSpec == ContractInit /\ [][ContractNext]_contract

\* The promise a feature without its own receipts relies on: its effect
\* commits under one claim at most.
DoneOnce == \A e \in Events \ ReplaySafe : \A g, h \in done[e] : g = h
=============================================================================
