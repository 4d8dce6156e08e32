---------------------------- MODULE MCEvaluation ----------------------------
(***************************************************************************)
(* Every series of three to five readings over three levels, in twentieths *)
(* of a mg/L, and every answer of the isolation forest; the last three     *)
(* readings of the longest are the injected episode.  Two requests, of     *)
(* commits that share a report file.                                       *)
(***************************************************************************)
EXTENDS Evaluation, TLC

CONSTANT Commits    \* git shas that share their first seven digits

Levels == {0, 12, 18}
SmallSeries == UNION {[1 .. n -> Levels] : n \in 3 .. 5}
SmallPlans == {NoPlan, [km |-> 80, baseline |-> 100, ms |-> 10, missed |-> 1]}
SmallInputs == {[p95 |-> 250, coverage |-> 69]}
Symmetric == Permutations(Requests) \cup Permutations(Commits)
SmallReports == [sha \in Commits |-> "eval-abc"]
=============================================================================
