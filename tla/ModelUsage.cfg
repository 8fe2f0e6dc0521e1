SPECIFICATION Spec
CONSTANTS
    CheckerSlots = {c1}
    SetupSlots = {s1}
    Handlers = {h1, h2}
    Reservation = 2
    MaxCalls = 2
    RunCeiling = 3
    Charges = {1, 2}
    Budgets <- OfferedBudgets
    NoSlot = NoSlot
    MaxAttempts = 2
    MaxRuns = 2
    MaxVersions = 2
SYMMETRY HandlerSymmetry
INVARIANTS
    LedgerInv
    Conservation
    BillWithinLimit
    EffectsOneAtATime
    AnswersAgree
PROPERTIES
    TriggersAdmit
CHECK_DEADLOCK FALSE
