\* An operator acknowledges an alert during a detection pass.
CONSTANTS
    d1 = d1  d2 = d2
    k1 = k1  k2 = k2
    op1 = op1  op2 = op2
    Points = {"SP1"}
    Detectors = {d1}
    Requests = {k1}
    Operators = {op1, op2}
    Notes = {}
    Codes = {"trend_to_limit", "ewma_shift_up", "iforest_outlier"}
    History <- MCHistory
    Threshold = 5
    MaxPasses = 2
    None = None
SPECIFICATION Spec
SYMMETRY MCSymmetry
PROPERTY AcknowledgedEvidenceIsFrozen
\* The bounds are used up and every request is answered.
CHECK_DEADLOCK FALSE
