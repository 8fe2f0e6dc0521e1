SPECIFICATION Spec
CONSTANTS
    MaxGen = 2
    MaxAttempts = 1
    MaxBudget = 1
    Budget = 1
    Prelude = 1
    Margin = 1
    RequestLease = 4
    DefaultTimeout = 1
    DefaultLease = 2
    ReviewModes = {FALSE}
INVARIANTS
    EvaluationInv
    OneVerdict
    ExecutedOnce
    AcknowledgedMeansCommitted
    NeverLostSilently
