----------------------------- MODULE MCSchedule -----------------------------
(* Small instances of Schedule for TLC: a town with a depot in its middle. *)
EXTENDS Schedule, TLC

\* Places by their position on a grid of roads; the depot is "D".  2-opt takes
\* two passes over the nearest neighbour tour of all five points.
Position == "D" :> <<0, 0>> @@ "S" :> <<-1, -3>> @@ "A" :> <<6, -9>> @@ "B" :> <<7, -5>>
                @@ "E" :> <<10, -2>> @@ "W" :> <<-5, 0>>

Distance(a, b) == IF a > b THEN a - b ELSE b - a

MCPlaces == DOMAIN Position

MCMinutes ==
    [pq \in MCPlaces \X MCPlaces |->
        Distance(Position[pq[1]][1], Position[pq[2]][1])
            + Distance(Position[pq[1]][2], Position[pq[2]][2])]

\* Angles around the depot, from south to west; that of the depot itself is 0.
Angle == "S" :> -4 @@ "A" :> -3 @@ "B" :> -2 @@ "E" :> -1 @@ "D" :> 0 @@ "W" :> 1
MCBearing == [pq \in MCPlaces \X MCPlaces |-> Angle[pq[2]]]

Points == {"S", "A", "B", "E", "W"}

\* Lists of n stops, in the order of their ids or against it.
Listings(n) == {[k \in 1 .. n |-> [task |-> ids[k], place |-> places[k]]] :
    ids \in {[k \in 1 .. n |-> k], [k \in 1 .. n |-> n + 1 - k]},
    places \in [1 .. n -> Points]}

Lorry(shift) == [depot |-> "D", shift |-> shift]

\* Up to three stops anywhere, four or five at as many places.
MCBatches == UNION {Listings(n) : n \in 0 .. 3}
    \cup {b \in Listings(4) \cup Listings(5) : IsInjective([k \in DOMAIN b |-> b[k].place])}
MCFleets == {<<>>, <<Lorry(10)>>, <<Lorry(90)>>, <<Lorry(50), Lorry(40)>>,
             <<Lorry(45), Lorry(45), Lorry(30)>>}

\* One long route through the town.
RoundBatch == {b \in Listings(4) : \A k \in 1 .. 4 : b[k].task = k}
RoundFleet == {<<Lorry(420)>>}

\* Eight visits of four minutes' drive and a vehicle out for half an hour a day.
HalfHourBatch == {[k \in 1 .. 8 |-> [task |-> k, place |-> "S"]]}
HalfHourFleet == {<<Lorry(30)>>}
=============================================================================
