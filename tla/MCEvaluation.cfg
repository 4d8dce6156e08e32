\* Two evaluation requests over every short series and every answer of the forest.
SPECIFICATION Spec
CONSTANTS
    Span = 14
    TrendWindow = 3
    MinReadings = 3
    WatchLevel = 10
    Threshold = 1
    Requests = {q1, q2}
    Commits = {abc1, abc2}
    Series <- SmallSeries
    Plans <- SmallPlans
    Inputs <- SmallInputs
    ReportOf <- SmallReports
    DecayStart = 3
    DecayEnd = 6
    DecayPercent = 55
    Budget = 2
    NoPlan = NoPlan
SYMMETRY Symmetric
INVARIANTS
    TypeOK
    AlarmsFollowFalls
    VerdictsHaveAWitness
    ReportIsOnRecord
\* Every request is answered.
CHECK_DEADLOCK FALSE
