------------------------------ MODULE MCAlerts ------------------------------
(* Small instances of Alerts for TLC.                                      *)
EXTENDS Alerts, TLC

CONSTANTS d1, d2, k1, k2, op1, op2

\* A series on its way to the limit: quiet, a warning, then two verdicts that
\* each differ from the one before in some of the columns and not in others.
MCHistory ==
    << [last |-> 90, codes |-> {}],
       [last |-> 30, codes |-> {"trend_to_limit"}],
       [last |-> 5, codes |-> {"trend_to_limit"}],
       [last |-> 40, codes |-> {"ewma_shift_up"}] >>

MCSymmetry == Permutations({d1, d2}) \cup Permutations({k1, k2})
                \cup Permutations({op1, op2})
=============================================================================
