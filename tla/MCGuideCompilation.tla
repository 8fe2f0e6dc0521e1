------------------------- MODULE MCGuideCompilation -------------------------
(* Instances of GuideCompilation for TLC. *)
EXTENDS GuideCompilation, TLC

CONSTANTS w1, w2

\* The first generation has the faults, and the workers and publishers racing
\* each other; a second one meets what is left of the first, with one worker
\* and one publisher of its own.
FirstGenerationRaces ==
    \/ Latest = 1
    \/ /\ faults = 0
       /\ Cardinality({w \in Workers : worker[w].at # "idle" /\ worker[w].gen = 2}) <= 1
       /\ \E p \in Publishers : publisher[p].at = "idle"
=============================================================================
