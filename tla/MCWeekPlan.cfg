\* Three requests of any kind for two weeks while the rule file is edited once.
CONSTANTS
    k1 = k1  k2 = k2  k3 = k3
    w1 = w1  w2 = w2
    Rules = {"A", "B", "C"}
    Points = {"SP1"}
    Weeks = {w1, w2}
    Requests = {k1, k2, k3}
    FirstYaml <- MCYaml
    Capacity = 2
    MaxEdits = 1
    None = None
SPECIFICATION Spec
SYMMETRY MCSymmetry
INVARIANTS
    TypeOK
    PlannedIffRouted
    WeekPlanCoversItsDuties
    VerifiedMeansSomebodyDid
PROPERTIES
    TasksOnlyAdvance
    ImplementsWeekBook
\* The bounds are used up and every request is answered.
CHECK_DEADLOCK FALSE
