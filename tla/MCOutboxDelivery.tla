-------------------------- MODULE MCOutboxDelivery --------------------------
(* Instances of OutboxDelivery for TLC. *)
EXTENDS OutboxDelivery, TLC

CONSTANTS e1, e2, w1, w2

WorkerSymmetry == Permutations(Workers)

\* Events do not share rows, so a behaviour with one event shows the races.
\* Which event it is, replay safe or not, is left open; the fault and
\* the racing workers are spent on the one that is not.
OneEvent ==
    /\ \E e \in Events : \A f \in Events \ {e} :
          event[f].state = "absent" /\ \A w \in Workers : work[w].event # f
    /\ \/ \A e \in ReplaySafe : event[e].state = "absent"
       \/ faults = 0 /\ \E w \in Workers : work[w].at = "idle"

MCNotBefore == [e \in Events |-> 1]
=============================================================================
