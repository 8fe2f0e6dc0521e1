SPECIFICATION FairSpec
CONSTANTS
    Contributors = {ada}
    strict = strict
    lenient = lenient
    Guides <- TwoGuides
    MaxRounds <- RoundsOf
    DeadlineHours <- HoursOf
    HumanReview <- NoHumanReview
    NoOne = NoOne
    NoGuide = NoGuide
    MaxAssignments = 1
    MaxSubmissions = 2
    MaxPreparations = 3
    MaxTime = 3
    MaxDead = 0
INVARIANTS
    RevisionInv
    RevisionsOnTime
    WindowExact
    RejectedForTheRightCause
PROPERTIES
    PassedDeadlineIsFinal
    OverdueWindowsClose
CHECK_DEADLOCK FALSE
