----------------------------- MODULE MCWeekPlan -----------------------------
(* Small instances of WeekPlan for TLC.                                    *)
EXTENDS WeekPlan, TLC

CONSTANTS k1, k2, k3, w1, w2

\* At startup rule A is verified and B is not; C may be added by an edit.
MCYaml == "A" :> TRUE @@ "B" :> FALSE

MCSymmetry == Permutations({k1, k2, k3}) \cup Permutations({w1, w2})
=============================================================================
