SPECIFICATION FairSpec
CONSTANTS
    a1 = a1
    a2 = a2
    a3 = a3
    c1 = c1
    c2 = c2
    deployment = deployment
    project = project
    Attempts = {a1, a2, a3}
    Contents = {c1, c2}
    Scopes = {deployment, project}
    ContentOf <- MCContentOf
    ScopesOf <- MCScopesOf
    Size <- MCSize
    Limit <- MCLimit
    Guides = {a1, a3}
    Bundles = {a2}
    Maximum <- MCMaximum
    MaxPuts <- MCMaxPuts
    MaxRecoveries = 1
    MaxFaults = 1
INVARIANTS
    QuotaExact
PROPERTIES
    SettledForever
    QuarantineHolds
    AmbiguityResolves
CHECK_DEADLOCK FALSE
