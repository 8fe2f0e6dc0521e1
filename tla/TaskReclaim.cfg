SPECIFICATION Spec
CONSTANTS
    Contributors = {ada, bob}
    strict = strict
    lenient = lenient
    Guides <- TwoGuides
    MaxRounds <- RoundsOf
    DeadlineHours <- HoursOf
    HumanReview <- StrictHumanReview
    NoOne = NoOne
    NoGuide = NoGuide
    MaxAssignments = 2
    MaxSubmissions = 3
    MaxPreparations = 1
    MaxTime = 3
    MaxDead = 1
INVARIANTS
    NeverUnroutable
    OpenWindowUsable
    CustodyMatchesOutcome
PROPERTIES
    DecisionsFinal
CHECK_DEADLOCK FALSE
