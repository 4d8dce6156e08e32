---------------------------- MODULE MCLabIngest -----------------------------
(* Small instances of LabIngest for TLC.                                   *)
EXTENDS LabIngest, TLC

CONSTANTS u1, u2, u3, m1, m2, w1, w2, p1, p2

At(wall) == [wall |-> wall, off |-> 0]
R(point, stamp, value) == [point |-> point, stamp |-> stamp, value |-> value]

\* p2 is not in the registry.  The files: one with a row of an unregistered
\* point between two good ones, one that repeats a key of the first with a
\* corrected value and adds a row that is out of range, one that repeats a
\* wall-clock reading of its own at another offset, one without rows.
MCFiles ==
    { << R(p1, At(1), 60), R(p2, At(1), 60), R(p1, At(2), 40) >>,
      << R(p1, At(1), 80), R(p1, At(2), 900) >>,
      << R(p1, At(2), 40), R(p1, [wall |-> 2, off |-> 1], 60), R(Blank, At(1), 40) >>,
      << >> }

\* A field value where the laboratory has one, one nobody else reports and
\* that is out of range, one of a point the registry does not know.
MCManualRows == { R(p1, At(1), 60), R(p1, At(2), 900), R(p2, At(1), 80) }

MCSymmetry == Permutations({u1, u2, u3}) \cup Permutations({m1, m2})
                \cup Permutations({w1, w2})
=============================================================================
