\* A draft generation and a plan.
CONSTANTS
    k1 = k1  k2 = k2  k3 = k3
    w1 = w1  w2 = w2
    Rules = {"A", "B"}
    Points = {"SP1"}
    Weeks = {w1}
    Requests = {k1, k2}
    FirstYaml <- MCYaml
    Capacity = 9
    MaxEdits = 0
    None = None
SPECIFICATION Spec
SYMMETRY MCSymmetry
INVARIANT PlansHoldVerifiedDuties
\* The bounds are used up and every request is answered.
CHECK_DEADLOCK FALSE
