----------------------------- MODULE MCDashboard ----------------------------
(***************************************************************************)
(* A small town hall: two operators, a sampling point, and a process       *)
(* that is started without tokens, with one token each, with a token       *)
(* rotated, and with a variable it refuses.                                *)
(***************************************************************************)
EXTENDS Dashboard

Has(o, t) == [operator |-> o, token |-> t]
OffEnv == [entries |-> <<None>>, legacy |-> None]
TwoEnv == [entries |-> <<Has("ann", "t1"), None>>, legacy |-> "t2"]
RotatedEnv == [entries |-> <<Has("operator", "t3"), Has("ann", "t1")>>, legacy |-> "t2"]
BadEnv == [entries |-> <<Has("ann", "t1"), Has("ann", "t2")>>, legacy |-> None]
SmallEnvs == {OffEnv, TwoEnv, RotatedEnv, BadEnv}
OnePoint == {1}
=============================================================================
