----------------------------- MODULE MCHarness ------------------------------
(***************************************************************************)
(* Two runs: two benchmarks, which share a history; an integration run     *)
(* and the benchmark it quotes; a review and an integration run.  Two      *)
(* ports, so that they draw the same one or not; a history of two entries, *)
(* one of them there.                                                      *)
(***************************************************************************)
EXTENDS Harness

CONSTANTS r1, r2

Pair(a, b) == [r \in Runs |-> IF r = r1 THEN a ELSE b]
SmallLineups ==
    {Pair("perf", "perf"), Pair("integration", "perf"), Pair("usability", "integration")}
=============================================================================
