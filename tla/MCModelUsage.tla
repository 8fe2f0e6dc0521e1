---------------------------- MODULE MCModelUsage ----------------------------
(* A small instance of ModelUsage: a budget of two calls, and a second     *)
(* configuration that lowers the limit while calls may be in flight.       *)
EXTENDS ModelUsage, TLC

OfferedBudgets == {[authorized |-> 4, prior |-> 0, limit |-> 4],
                   [authorized |-> 6, prior |-> 3, limit |-> 3]}
HandlerSymmetry == Permutations(Handlers)
=============================================================================
