SPECIFICATION FairSpec
CONSTANTS
    w1 = w1
    w2 = w2
    Workers = {w1, w2}
    MaxGen = 2
    MaxFaults = 1
CONSTRAINT FirstGenerationRaces
INVARIANTS
    FinalizedFromEvidence
    AdmittedKeepsRun
PROPERTIES
    EvidenceStands
    NeverStranded
CHECK_DEADLOCK FALSE
