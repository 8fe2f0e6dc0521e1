SPECIFICATION FairSpec
CONSTANTS
    MaxGen = 1
    MaxAttempts = 2
    MaxBudget = 1
    Budget = 1
    Prelude = 1
    Margin = 1
    RequestLease = 4
    DefaultTimeout = 1
    DefaultLease = 2
    ReviewModes = {TRUE, FALSE}
INVARIANTS
    RequestFitsItsDelivery
PROPERTIES
    EvaluationSettles
