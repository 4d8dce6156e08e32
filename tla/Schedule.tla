------------------------------ MODULE Schedule ------------------------------
(***************************************************************************)
(* M3, the route planner: plan_routes for one week.  The capacity check,   *)
(* the angular sweep, nearest neighbour, 2-opt and the walk that gives     *)
(* every stop its day and time.                                            *)
(*                                                                         *)
(* The planner is sequential and deterministic: what varies is its input,  *)
(* picked in Init, and an action is one turn of one of its loops.          *)
(*                                                                         *)
(* Distances are whole minutes of driving, the only use the code makes of  *)
(* kilometres but to print them; rounding is left out.  Times are minutes  *)
(* since Monday 0:00 of the week.  A stop is a task at a place, tasks are  *)
(* numbered in the order of their ids.                                     *)
(***************************************************************************)
EXTENDS Integers, Sequences, FiniteSets, Functions

CONSTANTS
    Places,             \* sampling points and depots
    Minutes,            \* driving time: Places \X Places -> Nat
    Bearing,            \* atan2 as a rank, depot first
    Batches,            \* the lists of stops a week may have
    Fleets,             \* the lists of vehicles a system may have
    Solvers,            \* the `solver` argument
    SERVICE_MINUTES,
    REPLAN_DAYS

ASSUME MinutesAssumption ==
    /\ Minutes \in [Places \X Places -> Nat]
    /\ Bearing \in [Places \X Places -> Int]
    /\ \A p, q \in Places : Minutes[<<p, q>>] = Minutes[<<q, p>>] /\ Minutes[<<p, p>>] = 0

Stop == [task : Nat, place : Places]
VehicleSpec == [depot : Places, shift : Nat]

ASSUME InputAssumption ==
    /\ \A b \in Batches : /\ b \in Seq(Stop)
                          /\ \A k, l \in DOMAIN b : b[k].task = b[l].task => k = l
    /\ \A f \in Fleets : f \in Seq(VehicleSpec)
    /\ SERVICE_MINUTES \in Nat
    /\ REPLAN_DAYS \in Nat

VARIABLES
    stops, vehicles, solver,    \* the arguments
    pc,
    v,              \* the vehicle whose turn it is
    order,          \* the stops sorted by bearing
    assignment,     \* vehicle -> its stops, in the order of nearest neighbour
    route,          \* the route of vehicle v
    scan,           \* locals of two_opt
    walk,           \* locals of _assign_etas
    plan,           \* route_stops
    total           \* total_km, in minutes

vars == <<stops, vehicles, solver, pc, v, order, assignment, route, scan, walk, plan, total>>
input == <<stops, vehicles, solver>>

Day == 24 * 60
Shift(day) == day * Day + 8 * 60        \* clock(8, 0)

-----------------------------------------------------------------------------
(* What the steps are built from.                                          *)

\* The k-th place of a tour that starts and ends at the depot.
At(tour, k, depot) == IF k \in DOMAIN tour THEN tour[k].place ELSE depot

Tour(tour, depot) ==
    SumFunction([k \in 0 .. Len(tour) |->
        Minutes[<<At(tour, k, depot), At(tour, k + 1, depot)>>]])

Ceil(a, b) == (a + b - 1) \div b

Service(n) == n * SERVICE_MINUTES

Offered(fleet) == REPLAN_DAYS * SumFunction([k \in DOMAIN fleet |-> fleet[k].shift])

Infeasible == vehicles = <<>> \/ Service(Len(stops)) > Offered(vehicles)

\* Stops of equal bearing go by task id.
Before(s, t) ==
    LET b(x) == Bearing[<<vehicles[1].depot, x.place>>]
    IN  b(s) < b(t) \/ (b(s) = b(t) /\ s.task < t.task)

\* Mutant: rounded down, the last stops belong to no sector.
PerSectorFloor(n, fleet) == IF n < Len(fleet) THEN 1 ELSE n \div Len(fleet)

PerSector(n, fleet) == IF n = 0 THEN 1 ELSE Ceil(n, Len(fleet))

\* How many stops come before this one in the sorted list.
Rank(s) == Cardinality({t \in Range(stops) : Before(t, s)})

Sorted == [k \in 1 .. Len(stops) |-> CHOOSE s \in Range(stops) : Rank(s) = k - 1]

\* Where the k-th piece of the sorted list ends.
End(k) ==
    LET size == PerSector(Len(stops), vehicles)
    IN  IF k * size < Len(stops) THEN k * size ELSE Len(stops)

\* The stops of vehicle k.
Sector(k) == SubSeq(order, End(k - 1) + 1, End(k))

Place(tour, depot) == IF tour = <<>> THEN depot ELSE tour[Len(tour)].place

\* The first of the nearest.
Nearest(from, sector, remaining) ==
    LET far(k) == Minutes[<<from, sector[k].place>>]
    IN  CHOOSE k \in remaining : \A l \in remaining :
            far(k) < far(l) \/ (far(k) = far(l) /\ k <= l)

\* route[:i] + route[i:j+1][::-1] + route[j+1:]
Reverse2(tour, i, j) ==
    [k \in DOMAIN tour |-> IF k \in i .. j THEN tour[i + j - k] ELSE tour[k]]

-----------------------------------------------------------------------------
NoScan == [i |-> 0, j |-> 0, best |-> 0, improved |-> FALSE]

\* A vehicle leaves its depot on Monday at eight.
Depart(depot) ==
    [next |-> 1, day |-> 0, minutes |-> 0, clock |-> Shift(0), here |-> depot]

Init ==
    /\ stops \in Batches
    /\ vehicles \in Fleets
    /\ solver \in Solvers
    /\ pc = "check"
    /\ v = 1
    /\ order = <<>>
    /\ assignment = [k \in DOMAIN vehicles |-> <<>>]
    /\ route = <<>>
    /\ scan = NoScan
    /\ walk = [next |-> 1]
    /\ plan = <<>>
    /\ total = 0

Refuse ==
    /\ pc = "check"
    /\ Infeasible
    /\ pc' = "refused"
    /\ UNCHANGED <<input, v, order, assignment, route, scan, walk, plan, total>>

Accept ==
    /\ pc = "check"
    /\ ~Infeasible
    /\ pc' = "sweep"
    /\ order' = Sorted
    /\ UNCHANGED <<input, v, assignment, route, scan, walk, plan, total>>

(* sweep_and_route, one stop at a time.                                    *)

\* Indices into the sector.
Remaining ==
    LET sector == Sector(v)
    IN  {k \in DOMAIN sector : sector[k] \notin Range(assignment[v])}

Drive ==
    /\ pc = "sweep"
    /\ Remaining # {}
    /\ LET from == Place(assignment[v], vehicles[v].depot)
           sector == Sector(v)
           nearest == sector[Nearest(from, sector, Remaining)]
       IN  assignment' = [assignment EXCEPT ![v] = Append(@, nearest)]
    /\ UNCHANGED <<input, pc, v, order, route, scan, walk, plan, total>>

\* The next sector, or, after the last one, the first route.
NextSector ==
    /\ pc = "sweep"
    /\ Remaining = {}
    /\ v' = IF v = Len(vehicles) THEN 1 ELSE v + 1
    /\ pc' = IF v = Len(vehicles) THEN "route" ELSE "sweep"
    /\ UNCHANGED <<input, order, assignment, route, scan, walk, plan, total>>

(* two_opt.                                                                *)

Improves == solver \in {"sweep2opt", "greedy2opt"}

Pass(tour) ==
    [i |-> 2, j |-> 3, best |-> Tour(tour, vehicles[v].depot), improved |-> FALSE]

\* A route of fewer than three stops is left as it is.
StartRoute ==
    /\ pc = "route"
    /\ route' = assignment[v]
    /\ LET optimise == Improves /\ Len(route') >= 3
       IN  /\ pc' = IF optimise THEN "improve" ELSE "walk"
           /\ scan' = IF optimise THEN Pass(route') ELSE NoScan
    /\ walk' = Depart(vehicles[v].depot)
    /\ total' = IF pc' = "walk" THEN total + Tour(route', vehicles[v].depot) ELSE total
    /\ UNCHANGED <<input, v, order, assignment, plan>>

Scanning == scan.i < Len(route)

\* Mutant: j is left where it is when i moves on.
AdvancePastEnd(s) ==
    IF s.j < Len(route) THEN [s EXCEPT !.j = @ + 1] ELSE [s EXCEPT !.i = @ + 1]

\* j runs to the end of the route, then i moves on.
Advance(s) ==
    IF s.j < Len(route) THEN [s EXCEPT !.j = @ + 1]
    ELSE [s EXCEPT !.i = @ + 1, !.j = s.i + 2]

\* Mutant: a tour of equal length counts as an improvement.
NoLonger(km, best) == km <= best

Shorter(km, best) == km < best

\* The locals of two_opt once the candidate has been measured.
Kept(km) == [scan EXCEPT !.best = km, !.improved = TRUE]

TryReversal ==
    /\ pc = "improve"
    /\ Scanning
    /\ LET candidate == Reverse2(route, scan.i, scan.j)
           km == Tour(candidate, vehicles[v].depot)
       IN  IF Shorter(km, scan.best)
           THEN route' = candidate /\ scan' = Advance(Kept(km))
           ELSE route' = route /\ scan' = Advance(scan)
    /\ UNCHANGED <<input, pc, v, order, assignment, walk, plan, total>>

\* Mutant: one pass over the pairs is all there is.
EndPassAtOnce ==
    /\ pc = "improve"
    /\ ~Scanning
    /\ pc' = "walk"
    /\ total' = total + Tour(route, vehicles[v].depot)
    /\ UNCHANGED <<input, v, order, assignment, route, scan, walk, plan>>

\* Another pass if this one improved the route.
EndPass ==
    /\ pc = "improve"
    /\ ~Scanning
    /\ pc' = IF scan.improved THEN "improve" ELSE "walk"
    /\ scan' = IF scan.improved THEN Pass(route) ELSE scan
    /\ total' = IF scan.improved THEN total ELSE total + Tour(route, vehicles[v].depot)
    /\ UNCHANGED <<input, v, order, assignment, route, walk, plan>>

(* _assign_etas.                                                           *)

\* Mutant: the drive to the stop is not asked about.
FullWithoutLeg(w, leg) == w.minutes + SERVICE_MINUTES > vehicles[v].shift

Full(w, leg) == w.minutes + leg + SERVICE_MINUTES > vehicles[v].shift

\* The next working day starts at the depot at eight.
NextDay(w) == [Depart(vehicles[v].depot) EXCEPT
                !.next = w.next, !.day = w.day + 1, !.clock = Shift(w.day + 1)]

\* The vehicle at the stop: the clock counts the drive, the shift counts the
\* service as well.
Visit(w, leg, place) ==
    [w EXCEPT !.next = @ + 1, !.clock = @ + leg, !.here = place,
              !.minutes = @ + leg + SERVICE_MINUTES]

Walk ==
    /\ pc = "walk"
    /\ walk.next <= Len(route)
    /\ LET stop == route[walk.next]
           w == IF Full(walk, Minutes[<<walk.here, stop.place>>]) THEN NextDay(walk) ELSE walk
           leg == Minutes[<<w.here, stop.place>>]
       IN  /\ walk' = Visit(w, leg, stop.place)
           /\ plan' = Append(plan, [seq |-> Len(plan) + 1, task |-> stop.task,
                                    vehicle |-> v, eta |-> w.clock + leg, leg |-> leg])
    /\ UNCHANGED <<input, pc, v, order, assignment, route, scan, total>>

NextVehicle ==
    /\ pc = "walk"
    /\ walk.next > Len(route)
    /\ v' = IF v = Len(vehicles) THEN v ELSE v + 1
    /\ pc' = IF v = Len(vehicles) THEN "done" ELSE "route"
    /\ UNCHANGED <<input, order, assignment, route, scan, walk, plan, total>>

Next ==
    \/ Refuse \/ Accept
    \/ Drive \/ NextSector
    \/ StartRoute \/ TryReversal \/ EndPass
    \/ Walk \/ NextVehicle

\* The planner runs on until it returns or raises.
Spec == Init /\ [][Next]_vars /\ WF_vars(Next)

-----------------------------------------------------------------------------
(* Properties.                                                             *)

Planned == [seq : Nat, task : Nat, vehicle : Nat, eta : Nat, leg : Nat]

\* Every variable has its type; the loops stay inside their bounds and a
\* route is always some order of the stops its vehicle was given.
TypeOK ==
    /\ stops \in Seq(Stop) /\ vehicles \in Seq(VehicleSpec) /\ solver \in Solvers
    /\ pc \in {"check", "refused", "sweep", "route", "improve", "walk", "done"}
    /\ v \in Nat
    /\ order \in Seq(Stop)
    /\ assignment \in [DOMAIN vehicles -> Seq(Stop)]
    /\ route \in Seq(Stop)
    /\ plan \in Seq(Planned)
    /\ total \in Nat
    /\ scan.best \in Nat /\ scan.improved \in BOOLEAN
    /\ pc = "improve" => /\ scan.i \in 2 .. Len(route)
                         /\ scan.j \in scan.i + 1 .. Len(route) + 1
    /\ pc \in {"improve", "walk"} => Range(route) = Range(assignment[v])

\* test_plan_contains_every_task_exactly_once: the plan that is returned
\* numbers its stops from 1 and holds every task of the week once, whatever
\* the sizes of the week and of the fleet.
EveryStopOnce ==
    pc = "done" =>
        /\ Len(plan) = Len(stops)
        /\ \A k \in DOMAIN plan : plan[k].seq = k
        /\ {plan[k].task : k \in DOMAIN plan} = {stops[k].task : k \in DOMAIN stops}

\* When two_opt has returned, none of the reversals its loops try shortens
\* the route any more, although the route changed while they were tried.
NoTriedReversalHelps ==
    pc = "walk" /\ Improves =>
        \A i, j \in DOMAIN route :
            1 < i /\ i < j => Tour(Reverse2(route, i, j), vehicles[v].depot)
                                >= Tour(route, vehicles[v].depot)

\* The stops vehicle k sets out for on one day, and the minutes it drives then.
OnDay(k, day) ==
    {n \in DOMAIN plan :
        plan[n].vehicle = k /\ (plan[n].eta - plan[n].leg) \div Day = day}
Driven(day) == SumFunctionOnSet([n \in DOMAIN plan |-> plan[n].leg], day)

\* _assign_etas: the drives and services of one vehicle on one day fit its
\* shift, unless that day has a single stop, which no day could hold.  A shift
\* starts at eight and is over before midnight, or a day is none.
ShiftHolds ==
    \A k \in DOMAIN vehicles, day \in 0 .. Len(plan) :
        LET today == OnDay(k, day)
        IN  vehicles[k].shift < 16 * 60 =>
                \/ Cardinality(today) <= 1
                \/ Service(Cardinality(today)) + Driven(today) <= vehicles[k].shift

\* plan_routes returns or raises: the improvement loop, which has no other
\* bound than that every accepted tour is shorter, comes to an end.
Terminates == <>(pc \in {"done", "refused"})

\* "each required task is a stop that must be visited inside its regulatory
\* window" (m3_schedule:4): no stop of a plan comes after the week.
StopsInTheirWindow == \A k \in DOMAIN plan : plan[k].eta <= 7 * Day
=============================================================================
