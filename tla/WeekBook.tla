------------------------------ MODULE WeekBook ------------------------------
(***************************************************************************)
(* What the tables of duties and route plans promise, whoever writes them: *)
(* a book in which duties are entered, routed and confirmed.  Each entry   *)
(* is one transaction; nothing in the book is struck out or written over.  *)
(* WeekPlan implements this module.                                        *)
(***************************************************************************)
EXTENDS Integers, Sequences

CONSTANTS
    Duties,     \* what may be due
    Due         \* the week of each duty

VARIABLES
    duties,     \* those on record, with their draft label
    planned,    \* those that are marked planned
    routes      \* the plans, by created_at

Init ==
    /\ duties = [d \in {} |-> FALSE]
    /\ planned = {}
    /\ routes = <<>>

\* A generation of one week enters duties that were not on record, under one
\* label; nobody has planned them yet.
Enter(entered, draft) ==
    /\ entered \cap DOMAIN duties = {}
    /\ \A d, e \in entered : Due[d] = Due[e]
    /\ duties' = [d \in DOMAIN duties \cup entered |->
                    IF d \in entered THEN draft ELSE duties[d]]
    /\ UNCHANGED <<planned, routes>>

\* A plan of a week visits duties of that week that are on record, and they
\* are marked in the same transaction.
Route(week, stops) ==
    /\ stops # {}
    /\ \A d \in stops : d \in DOMAIN duties /\ Due[d] = week
    /\ routes' = Append(routes, [week |-> week, stops |-> stops, confirmed |-> FALSE])
    /\ planned' = planned \cup stops
    /\ UNCHANGED duties

\* A plan is confirmed, for good.
Confirm(i) ==
    /\ routes' = [routes EXCEPT ![i].confirmed = TRUE]
    /\ UNCHANGED <<duties, planned>>

Next ==
    \/ \E entered \in SUBSET Duties, draft \in BOOLEAN : Enter(entered, draft)
    \/ \E stops \in SUBSET Duties : \E week \in {Due[d] : d \in stops} : Route(week, stops)
    \/ \E i \in DOMAIN routes : Confirm(i)

Spec == Init /\ [][Next]_<<duties, planned, routes>>
=============================================================================
