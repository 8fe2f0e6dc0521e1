SPECIFICATION Spec
\* Production values in minutes, and a policy with a budget of three.
CONSTANTS
    MaxGen = 1
    MaxAttempts = 1
    MaxBudget = 56
    Budget = 3
    Prelude = 1
    Margin = 1
    RequestLease = 60
    DefaultTimeout = 4
    DefaultLease = 5
    ReviewModes = {FALSE}
INVARIANTS
    ExecutionFitsItsDelivery
