--------------------------- MODULE ScheduleProofs ---------------------------
(***************************************************************************)
(* Proofs about Schedule: for any places and distances, any week of tasks  *)
(* and any fleet, what the planner computes on its way through sweep,      *)
(* nearest neighbour, 2-opt and the walk.                                  *)
(*                                                                         *)
(* The lengths of tours and the minutes of a day are sums over sets, which *)
(* are defined by recursion.  What holds of them is proved by the least    *)
(* counterexample: among the subsets of a finite set for which a statement *)
(* fails there would be one all of whose proper subsets satisfy it.        *)
(***************************************************************************)
EXTENDS Schedule, FiniteSetTheorems, SequenceTheorems, TLAPS

-----------------------------------------------------------------------------
(* Sums over finite sets.                                                  *)

\* A set of subsets of a finite set has a least one.
LEMMA LeastSubset ==
  ASSUME NEW S, IsFiniteSet(S), NEW C, C \subseteq SUBSET S, C # {}
  PROVE  \E T \in C : \A U \in C : U \subseteq T => U = T
<1>1. IsWellFoundedOn(StrictSubsetOrdering(S), FiniteSubsetsOf(S))
  BY FS_StrictSubsetOrderingWellFounded
<1>2. FiniteSubsetsOf(S) = SUBSET S
  BY FS_FiniteSubsetsOfFinite
<1>3. PICK T \in C : \A U \in C : ~(<<U, T>> \in StrictSubsetOrdering(S))
  BY <1>1, <1>2, WFMin
<1> QED BY <1>3 DEF StrictSubsetOrdering

One(T) == CHOOSE x \in T : TRUE

\* The sums of F over the subsets of S, one element at a time.
IsSum(g, F, S) ==
    g = [T \in SUBSET S |-> IF T = {} THEN 0 ELSE F[One(T)] + g[T \ {One(T)}]]

TheSum(F, S) == CHOOSE g : IsSum(g, F, S)

LEMMA SumIsOfTheSum ==
  ASSUME NEW F, NEW S
  PROVE  SumFunctionOnSet(F, S) = TheSum(F, S)[S]
  BY DEF SumFunctionOnSet, FoldFunctionOnSet, MapThenFoldSet, TheSum, IsSum, One

LEMMA OneIsIn == ASSUME NEW T, T # {} PROVE One(T) \in T
  BY DEF One

\* There are no two sums that differ.
LEMMA SumsAgree ==
  ASSUME NEW F, NEW G, NEW S, NEW R, IsFiniteSet(S), NEW g, NEW h,
         IsSum(g, F, S), IsSum(h, G, R), S \subseteq R, \A x \in S : F[x] = G[x]
  PROVE  \A T \in SUBSET S : g[T] = h[T]
<1> DEFINE C == {T \in SUBSET S : g[T] # h[T]}
<1> SUFFICES ASSUME C # {} PROVE FALSE
  OBVIOUS
<1>1. PICK T \in C : \A U \in C : U \subseteq T => U = T
  <2> HIDE DEF C
  <2>1. C \subseteq SUBSET S
    BY DEF C
  <2> QED BY <2>1, LeastSubset
<1>2. T \in SUBSET S /\ T \in SUBSET R /\ g[T] # h[T]
  BY <1>1
<1>3. CASE T = {}
  BY <1>2, <1>3 DEF IsSum
<1>4. CASE T # {}
  <2>1. PICK x : x = One(T)
    OBVIOUS
  <2>2. x \in T
    BY <1>4, <2>1, OneIsIn
  <2>3. g[T \ {x}] = h[T \ {x}]
    BY <1>1, <2>2
  <2>4. g[T] = F[x] + g[T \ {x}]
    BY <1>2, <1>4, <2>1 DEF IsSum
  <2>5. h[T] = G[x] + h[T \ {x}]
    BY <1>2, <1>4, <2>1 DEF IsSum
  <2>6. F[x] = G[x]
    BY <1>2, <2>2
  <2> QED BY <1>2, <2>3, <2>4, <2>5, <2>6
<1> QED BY <1>3, <1>4

\* Every finite set has its sums.
LEMMA SumExists ==
  ASSUME NEW F, NEW S, IsFiniteSet(S)
  PROVE  \E g : IsSum(g, F, S)
<1> DEFINE C == {T \in SUBSET S : ~ \E g : IsSum(g, F, T)}
<1> SUFFICES ASSUME C # {} PROVE FALSE
  OBVIOUS
<1>1. PICK T \in C : \A U \in C : U \subseteq T => U = T
  <2> HIDE DEF C
  <2>1. C \subseteq SUBSET S
    BY DEF C
  <2> QED BY <2>1, LeastSubset
<1>2. T \subseteq S /\ ~ \E g : IsSum(g, F, T)
  BY <1>1
<1>3. \A U \in SUBSET T : U # T => IsSum(TheSum(F, U), F, U)
  <2> SUFFICES ASSUME NEW U \in SUBSET T, U # T PROVE IsSum(TheSum(F, U), F, U)
    OBVIOUS
  <2>1. \E g : IsSum(g, F, U)
    BY <1>1, <1>2
  <2> QED BY <2>1 DEF TheSum
<1>4. PICK g : g = [U \in SUBSET T |-> IF U = {} THEN 0
                     ELSE F[One(U)] + TheSum(F, U \ {One(U)})[U \ {One(U)}]]
  OBVIOUS
<1>5. \A U \in SUBSET T : U # T => g[U] = TheSum(F, U)[U]
  <2> SUFFICES ASSUME NEW U \in SUBSET T, U # T PROVE g[U] = TheSum(F, U)[U]
    OBVIOUS
  <2>1. IsSum(TheSum(F, U), F, U)
    BY <1>3
  <2>2. CASE U = {}
    BY <1>4, <2>1, <2>2, U \in SUBSET U DEF IsSum
  <2>3. CASE U # {}
    <3>1. PICK V : V = U \ {One(U)}
      OBVIOUS
    <3>2. V \subseteq U /\ V # T /\ V \subseteq T
      BY <2>3, <3>1, OneIsIn
    <3>3. IsSum(TheSum(F, V), F, V) /\ IsFiniteSet(V)
      BY <1>3, <1>2, <3>2, FS_Subset
    <3>4. TheSum(F, U)[V] = TheSum(F, V)[V]
      BY <2>1, <3>2, <3>3, SumsAgree
    <3>5. TheSum(F, U)[U] = F[One(U)] + TheSum(F, U)[V]
      BY <2>1, <2>3, <3>1, U \in SUBSET U DEF IsSum
    <3>6. g[U] = F[One(U)] + TheSum(F, V)[V]
      BY <1>4, <2>3, <3>1
    <3> QED BY <3>4, <3>5, <3>6
  <2> QED BY <2>2, <2>3
<1>6. ASSUME NEW U \in SUBSET T, U # {}
      PROVE  g[U] = F[One(U)] + g[U \ {One(U)}]
  <2>1. U \ {One(U)} \in SUBSET T /\ U \ {One(U)} # T
    BY <1>6, OneIsIn
  <2>2. g[U] = F[One(U)] + TheSum(F, U \ {One(U)})[U \ {One(U)}]
    BY <1>4, <1>6
  <2> QED BY <1>5, <2>1, <2>2
<1>7. IsSum(g, F, T)
  BY <1>4, <1>6 DEF IsSum
<1> QED BY <1>2, <1>7

LEMMA TheSumIsSum ==
  ASSUME NEW F, NEW S, IsFiniteSet(S)
  PROVE  IsSum(TheSum(F, S), F, S)
  BY SumExists DEF TheSum

\* What the sums over subsets are.
LEMMA SumOfSubset ==
  ASSUME NEW F, NEW S, IsFiniteSet(S), NEW T \in SUBSET S
  PROVE  SumFunctionOnSet(F, T) = TheSum(F, S)[T]
<1>1. IsFiniteSet(T)
  BY FS_Subset
<1>2. TheSum(F, T)[T] = TheSum(F, S)[T]
  BY <1>1, TheSumIsSum, SumsAgree
<1> QED BY <1>2, SumIsOfTheSum

\* Only the values over the set matter.
LEMMA SumDependsOn ==
  ASSUME NEW F, NEW G, NEW S, IsFiniteSet(S), \A x \in S : F[x] = G[x]
  PROVE  SumFunctionOnSet(F, S) = SumFunctionOnSet(G, S)
<1>1. PICK g, h : g = TheSum(F, S) /\ h = TheSum(G, S)
  OBVIOUS
<1>2. IsSum(g, F, S) /\ IsSum(h, G, S)
  BY <1>1, TheSumIsSum
<1>3. \A T \in SUBSET S : g[T] = h[T]
  BY <1>2, SumsAgree
<1> QED BY <1>1, <1>3, SumIsOfTheSum

LEMMA SumOfNothing ==
  ASSUME NEW F PROVE SumFunctionOnSet(F, {}) = 0
<1>1. IsSum(TheSum(F, {}), F, {})
  BY FS_EmptySet, TheSumIsSum
<1>2. {} \in SUBSET {}
  OBVIOUS
<1>3. TheSum(F, {})[{}] = 0
  BY <1>1, <1>2 DEF IsSum
<1> QED BY <1>3, SumIsOfTheSum

\* The sum of natural numbers is one.
LEMMA SumIsNat ==
  ASSUME NEW F, NEW S, IsFiniteSet(S), \A x \in S : F[x] \in Nat
  PROVE  SumFunctionOnSet(F, S) \in Nat
<1> DEFINE g == TheSum(F, S)
           C == {T \in SUBSET S : g[T] \notin Nat}
<1>1. IsSum(g, F, S)
  BY TheSumIsSum
<1> HIDE DEF g
<1>2. C = {}
  <2> SUFFICES ASSUME C # {} PROVE FALSE
    OBVIOUS
  <2>1. PICK T \in C : \A U \in C : U \subseteq T => U = T
    <3> HIDE DEF C
    <3>1. C \subseteq SUBSET S
      BY DEF C
    <3> QED BY <3>1, LeastSubset
  <2>2. T \in SUBSET S /\ g[T] \notin Nat
    BY <2>1
  <2>3. T # {} /\ One(T) \in T
    BY <1>1, <2>2, OneIsIn DEF IsSum
  <2>4. g[T] = F[One(T)] + g[T \ {One(T)}]
    BY <1>1, <2>2, <2>3 DEF IsSum
  <2>5. g[T \ {One(T)}] \in Nat
    BY <2>1, <2>3
  <2> QED BY <2>2, <2>3, <2>4, <2>5
<1>3. g[S] \in Nat
  BY <1>2
<1> QED BY <1>3, SumIsOfTheSum DEF g

\* Any element may be taken out.
LEMMA SumTakesOut ==
  ASSUME NEW F, NEW S, IsFiniteSet(S), \A x \in S : F[x] \in Nat, NEW x \in S
  PROVE  SumFunctionOnSet(F, S) = F[x] + SumFunctionOnSet(F, S \ {x})
<1> DEFINE g == TheSum(F, S)
           C == {T \in SUBSET S : \E y \in T : g[T] # F[y] + g[T \ {y}]}
<1>1. IsSum(g, F, S)
  BY TheSumIsSum
<1>2. \A T \in SUBSET S : g[T] \in Nat
  <2> SUFFICES ASSUME NEW T \in SUBSET S PROVE g[T] \in Nat
    OBVIOUS
  <2>1. IsFiniteSet(T) /\ SumFunctionOnSet(F, T) = g[T]
    BY FS_Subset, SumOfSubset
  <2> QED BY <2>1, SumIsNat
<1> HIDE DEF g
<1>3. C = {}
  <2> SUFFICES ASSUME C # {} PROVE FALSE
    OBVIOUS
  <2>1. PICK T \in C : \A U \in C : U \subseteq T => U = T
    <3> HIDE DEF C
    <3>1. C \subseteq SUBSET S
      BY DEF C
    <3> QED BY <3>1, LeastSubset
  <2>2. PICK y \in T : T \in SUBSET S /\ g[T] # F[y] + g[T \ {y}]
    BY <2>1
  <2>3. PICK z : z = One(T) /\ z \in T
    BY <2>2, OneIsIn
  <2>4. g[T] = F[z] + g[T \ {z}]
    BY <1>1, <2>2, <2>3, T # {} DEF IsSum
  <2>5. y # z
    BY <2>2, <2>4
  <2>6. T \ {z} \notin C /\ T \ {y} \notin C
    BY <2>1, <2>2, <2>3
  <2>7. T \ {z} \in SUBSET S /\ T \ {y} \in SUBSET S /\ y \in T \ {z} /\ z \in T \ {y}
    BY <2>2, <2>3, <2>5
  <2>8. g[T \ {z}] = F[y] + g[(T \ {z}) \ {y}]
    BY <2>6, <2>7
  <2>9. g[T \ {y}] = F[z] + g[(T \ {y}) \ {z}]
    BY <2>6, <2>7
  <2>10. (T \ {y}) \ {z} = (T \ {z}) \ {y}
    OBVIOUS
  <2>11. (T \ {z}) \ {y} \in SUBSET S
    BY <2>2
  <2>12. /\ F[y] \in Nat /\ F[z] \in Nat /\ g[T] \in Nat /\ g[T \ {y}] \in Nat
         /\ g[T \ {z}] \in Nat /\ g[(T \ {z}) \ {y}] \in Nat
    BY <1>2, <2>2, <2>3, <2>7, <2>11
  <2>13. PICK a \in Nat, b \in Nat, c \in Nat, d \in Nat :
             /\ a = F[y] /\ b = F[z] /\ c = g[(T \ {z}) \ {y}] /\ d = g[T \ {y}]
    BY <2>12
  <2>14. g[T] = b + (a + c) /\ d = b + c /\ g[T] # a + d
    BY <2>2, <2>4, <2>8, <2>9, <2>10, <2>13
  <2> QED BY <2>14
<1>4. g[S] = F[x] + g[S \ {x}]
  BY <1>3
<1> QED BY <1>4, SumIsOfTheSum, SumOfSubset DEF g

LEMMA UpTo ==
  ASSUME NEW n \in Nat
  PROVE  IsFiniteSet(1 .. n) /\ Cardinality(1 .. n) = n
<1>1. 1 \in Int /\ n \in Int
  OBVIOUS
<1>2. IsFiniteSet(1 .. n) /\ Cardinality(1 .. n) = IF 1 > n THEN 0 ELSE n - 1 + 1
  BY <1>1, FS_Interval
<1> QED BY <1>2

\* A set of natural numbers has a least one.
LEMMA LeastNumber ==
  ASSUME NEW N, N \subseteq Nat, N # {}
  PROVE  \E m \in N : \A n \in N : m <= n
<1>1. PICK x : x \in N
  OBVIOUS
<1> DEFINE D == 1 .. x
<1> DEFINE C == {1 .. n : n \in {n \in N : n <= x}}
<1>2. C \subseteq SUBSET D /\ C # {} /\ IsFiniteSet(D)
  BY <1>1, UpTo
<1>3. PICK I \in C : \A J \in C : J \subseteq I => J = I
  <2> HIDE DEF C, D
  <2> QED BY <1>2, LeastSubset
<1>4. PICK m \in N : m <= x /\ I = 1 .. m
  BY <1>3
<1>5. ASSUME NEW n \in N, n < m
      PROVE  FALSE
  <2>1. 1 .. n \in C /\ 1 .. n \subseteq I
    BY <1>1, <1>4, <1>5
  <2>2. m \in 1 .. m /\ m \notin 1 .. n
    BY <1>4, <1>5
  <2> QED BY <1>3, <1>4, <2>1, <2>2
<1> QED BY <1>4, <1>5

-----------------------------------------------------------------------------
(* The sorted list.                                                        *)

\* A list that gives each of its places another number has no repetitions.
LEMMA ListOfDifferentNumbers ==
  ASSUME NEW m \in Nat, NEW f \in [1 .. m -> Nat],
         \A k, l \in 1 .. m : f[k] = f[l] => k = l
  PROVE  f \in Seq(Nat) /\ Len(f) = m /\ IsInjective(f)
<1>1. f \in Seq(Nat) /\ Len(f) = m /\ DOMAIN f = 1 .. m
  OBVIOUS
<1> QED BY <1>1 DEF IsInjective

\* A list without repetitions holds as many things as it has places.
LEMMA AsManyThings ==
  ASSUME NEW T, NEW s \in Seq(T), IsInjective(s)
  PROVE  IsFiniteSet(Range(s)) /\ Cardinality(Range(s)) = Len(s)
<1>1. s \in Bijection(1 .. Len(s), Range(s))
  BY DEF IsInjective, Range, Bijection, Injection, Surjection
<1>2. IsFiniteSet(1 .. Len(s)) /\ Cardinality(1 .. Len(s)) = Len(s)
  BY UpTo
<1> QED BY <1>1, <1>2, FS_Bijection DEF ExistsBijection

\* Two such lists of the same things are equally long.
LEMMA SameLength ==
  ASSUME NEW T, NEW s \in Seq(T), NEW t \in Seq(T),
         IsInjective(s), IsInjective(t), Range(s) = Range(t)
  PROVE  Len(s) = Len(t)
  BY AsManyThings

LEMMA BatchOfStops ==
  ASSUME stops \in Batches
  PROVE  /\ stops \in Seq(Stop)
         /\ IsInjective(stops)
         /\ \A s, t \in Range(stops) : s.task = t.task => s = t
<1>1. /\ stops \in Seq(Stop)
      /\ \A k, l \in DOMAIN stops : stops[k].task = stops[l].task => k = l
  BY InputAssumption
<1> QED BY <1>1 DEF IsInjective, Range

\* Before is a total order of the stops of a week.
LEMMA BeforeIsTotal ==
  ASSUME stops \in Batches, vehicles \in Fleets, vehicles # <<>>
  PROVE  /\ \A s \in Range(stops) : ~Before(s, s)
         /\ \A s, t \in Range(stops) : s = t \/ Before(s, t) \/ Before(t, s)
         /\ \A s, t, u \in Range(stops) : Before(s, t) /\ Before(t, u) => Before(s, u)
<1> DEFINE b(x) == Bearing[<<vehicles[1].depot, x.place>>]
<1>1. vehicles[1].depot \in Places
  <2>1. vehicles \in Seq(VehicleSpec)
    BY InputAssumption
  <2>2. vehicles[1] \in VehicleSpec
    BY <2>1
  <2> QED BY <2>2 DEF VehicleSpec
<1>2. \A s \in Range(stops) : b(s) \in Int /\ s.task \in Nat
  <2> SUFFICES ASSUME NEW s \in Range(stops) PROVE b(s) \in Int /\ s.task \in Nat
    OBVIOUS
  <2>1. s \in Stop
    BY BatchOfStops DEF Range
  <2>2. s.task \in Nat /\ s.place \in Places
    BY <2>1 DEF Stop
  <2>3. <<vehicles[1].depot, s.place>> \in Places \X Places
    BY <1>1, <2>2
  <2> QED BY <2>2, <2>3, MinutesAssumption
<1>3. \A s, t : Before(s, t) <=> b(s) < b(t) \/ (b(s) = b(t) /\ s.task < t.task)
  BY DEF Before
<1>4. \A s, t \in Range(stops) : s.task = t.task => s = t
  BY BatchOfStops
<1> HIDE DEF b
<1>5. \A s \in Range(stops) : ~Before(s, s)
  BY <1>2, <1>3
<1>6. \A s, t \in Range(stops) : s = t \/ Before(s, t) \/ Before(t, s)
  BY <1>2, <1>3, <1>4
<1>7. \A s, t, u \in Range(stops) : Before(s, t) /\ Before(t, u) => Before(s, u)
  BY <1>2, <1>3
<1> QED BY <1>5, <1>6, <1>7

\* Ranks are the numbers below Len(stops), each the rank of one stop.
LEMMA RanksAreIndices ==
  ASSUME stops \in Batches, vehicles \in Fleets, vehicles # <<>>
  PROVE  /\ \A s \in Range(stops) : Rank(s) \in 0 .. Len(stops) - 1
         /\ \A s, t \in Range(stops) : Rank(s) = Rank(t) => s = t
         /\ \A k \in 0 .. Len(stops) - 1 : \E s \in Range(stops) : Rank(s) = k
<1> DEFINE S == Range(stops)
           below(s) == {t \in S : Before(t, s)}
<1>1. IsFiniteSet(S) /\ Cardinality(S) = Len(stops) /\ Len(stops) \in Nat
  BY BatchOfStops, AsManyThings
<1>2. \A s : Rank(s) = Cardinality(below(s))
  BY DEF Rank
<1>3. \A s \in S : IsFiniteSet(below(s)) /\ Cardinality(below(s)) \in Nat
  BY <1>1, FS_Subset, FS_CardinalityType
<1>a. \A s \in S : below(s) \in SUBSET S /\ below(s) # S
  BY BeforeIsTotal
<1>b. \A s, t \in S : Before(s, t) => below(s) \in SUBSET below(t) /\ below(s) # below(t)
  BY BeforeIsTotal
<1>c. \A s, t \in S : s # t => Before(s, t) \/ Before(t, s)
  BY BeforeIsTotal
<1> HIDE DEF S, below
<1>4. ASSUME NEW s \in S
      PROVE  Rank(s) \in 0 .. Len(stops) - 1
  <2>1. Cardinality(below(s)) <= Cardinality(S) /\ Cardinality(below(s)) # Cardinality(S)
    BY <1>1, <1>a, FS_Subset
  <2> QED BY <1>1, <1>2, <1>3, <2>1
<1>5. ASSUME NEW s \in S, NEW t \in S, Before(s, t)
      PROVE  Rank(s) < Rank(t)
  <2>1. below(s) \in SUBSET below(t) /\ below(s) # below(t) /\ IsFiniteSet(below(t))
    BY <1>3, <1>5, <1>b
  <2>2. /\ Cardinality(below(s)) <= Cardinality(below(t))
        /\ Cardinality(below(s)) # Cardinality(below(t))
    BY <2>1, FS_Subset
  <2> QED BY <1>2, <1>3, <2>2
<1>6. \A s, t \in S : Rank(s) = Rank(t) => s = t
  <2> SUFFICES ASSUME NEW s \in S, NEW t \in S, Rank(s) = Rank(t), s # t PROVE FALSE
    OBVIOUS
  <2>1. Before(s, t) \/ Before(t, s)
    BY <1>c
  <2> QED BY <1>2, <1>3, <1>5, <2>1
<1>7. \A k \in 0 .. Len(stops) - 1 : \E s \in S : Rank(s) = k
  <2> DEFINE f == [s \in S |-> Rank(s)]
             R == 0 .. Len(stops) - 1
  <2>1. f \in Injection(S, R)
    BY <1>4, <1>6 DEF Injection, IsInjective
  <2>2. IsFiniteSet(R) /\ Cardinality(R) = Cardinality(S)
    <3>1. 0 \in Int /\ Len(stops) - 1 \in Int
      BY <1>1
    <3>2. /\ IsFiniteSet(R)
          /\ Cardinality(R) = IF 0 > Len(stops) - 1 THEN 0 ELSE Len(stops) - 1 - 0 + 1
      BY <3>1, FS_Interval
    <3> QED BY <1>1, <3>2
  <2>3. f \in Surjection(S, R)
    <3> HIDE DEF f, R, S
    <3> QED BY <2>1, <2>2, FS_Injection
  <2> QED BY <2>3 DEF Surjection
<1> QED BY <1>4, <1>6, <1>7 DEF S

\* Sorting loses nothing and repeats nothing.
LEMMA SortedIsAPermutation ==
  ASSUME stops \in Batches, vehicles \in Fleets, vehicles # <<>>
  PROVE  /\ Sorted \in Seq(Stop)
         /\ Len(Sorted) = Len(stops)
         /\ Range(Sorted) = Range(stops)
         /\ IsInjective(Sorted)
<1> DEFINE n == Len(stops)
<1>1. n \in Nat /\ Range(stops) \subseteq Stop
  BY BatchOfStops DEF Range
<1>2. PICK s \in [1 .. n -> Range(stops)] :
         \A k \in 1 .. n : Sorted[k] = s[k] /\ Rank(s[k]) = k - 1
  <2>1. \A k \in 1 .. n : Sorted[k] \in Range(stops) /\ Rank(Sorted[k]) = k - 1
    <3> SUFFICES ASSUME NEW k \in 1 .. n
                 PROVE  Sorted[k] \in Range(stops) /\ Rank(Sorted[k]) = k - 1
      OBVIOUS
    <3>1. Sorted[k] = CHOOSE x \in Range(stops) : Rank(x) = k - 1
      BY DEF Sorted
    <3>2. k - 1 \in 0 .. Len(stops) - 1
      BY <1>1
    <3>3. \E x \in Range(stops) : Rank(x) = k - 1
      BY <3>2, RanksAreIndices
    <3> QED BY <3>1, <3>3
  <2>2. [k \in 1 .. n |-> Sorted[k]] \in [1 .. n -> Range(stops)]
    BY <2>1
  <2> QED BY <2>1, <2>2
<1>3. Sorted = s
  BY <1>2 DEF Sorted
<1>4. s \in Seq(Stop) /\ Len(s) = n /\ DOMAIN s = 1 .. n
  BY <1>1, <1>2
<1>5. IsInjective(s)
  BY <1>2, <1>1 DEF IsInjective
<1>6. Range(s) = Range(stops)
  <2>1. Range(s) \subseteq Range(stops)
    BY <1>2 DEF Range
  <2>2. ASSUME NEW x \in Range(stops) PROVE x \in Range(s)
    <3>1. Rank(x) \in 0 .. n - 1
      BY RanksAreIndices
    <3>2. PICK k \in 1 .. n : Rank(x) = k - 1
      <4>1. Rank(x) + 1 \in 1 .. n /\ Rank(x) = (Rank(x) + 1) - 1
        BY <1>1, <3>1
      <4> QED BY <4>1
    <3>3. s[k] = x
      BY <1>2, <3>2, RanksAreIndices
    <3> QED BY <1>4, <3>3 DEF Range
  <2> QED BY <2>1, <2>2
<1> QED BY <1>3, <1>4, <1>5, <1>6

-----------------------------------------------------------------------------
(* Sectors, the nearest stop and the length of a tour.                     *)

LEMMA FleetOfVehicles ==
  ASSUME vehicles \in Fleets
  PROVE  /\ vehicles \in Seq(VehicleSpec)
         /\ \A k \in DOMAIN vehicles : /\ vehicles[k].depot \in Places
                                       /\ vehicles[k].shift \in Nat
<1>1. vehicles \in Seq(VehicleSpec)
  BY InputAssumption
<1>2. \A k \in DOMAIN vehicles : vehicles[k] \in VehicleSpec
  BY <1>1
<1> QED BY <1>1, <1>2 DEF VehicleSpec

\* Rounding up, as many sectors as vehicles hold every stop.
LEMMA SectorsSuffice ==
  ASSUME NEW n \in Nat, NEW c \in Nat, c # 0
  PROVE  Ceil(n, c) \in Nat /\ c * Ceil(n, c) >= n
<1> DEFINE q == (n + c - 1) \div c
           r == (n + c - 1) % c
<1>1. n + c - 1 \in Nat
  OBVIOUS
<1>2. q \in Nat /\ r \in 0 .. c - 1 /\ n + c - 1 = c * q + r
  BY <1>1
<1>3. c * q \in Nat
  BY <1>2
<1>4. Ceil(n, c) = q
  BY DEF Ceil
<1> HIDE DEF q, r
<1> QED BY <1>2, <1>3, <1>4

\* The sectors are adjacent pieces of the sorted list, and there is nothing
\* behind the last one.
LEMMA SectorEnds ==
  ASSUME stops \in Batches, vehicles \in Fleets, vehicles # <<>>
  PROVE  /\ End(0) = 0
         /\ End(Len(vehicles)) = Len(stops)
         /\ \A k \in DOMAIN vehicles : /\ End(k - 1) \in Nat /\ End(k) \in Nat
                                       /\ End(k - 1) <= End(k)
                                       /\ End(k) <= Len(stops)
<1>1. PICK n \in Nat, c \in Nat : n = Len(stops) /\ c = Len(vehicles) /\ c # 0
  BY BatchOfStops, FleetOfVehicles
<1>2. PICK size \in Nat : size = PerSector(n, vehicles) /\ c * size >= n
  <2>1. CASE n = 0
    BY <1>1, <2>1 DEF PerSector
  <2>2. CASE n # 0
    BY <1>1, <2>2, SectorsSuffice DEF PerSector
  <2> QED BY <2>1, <2>2
<1>3. \A k : End(k) = IF k * size < n THEN k * size ELSE n
  BY <1>1, <1>2 DEF End
<1>4. End(0) = 0
  BY <1>3
<1>5. End(Len(vehicles)) = Len(stops)
  <2>1. c * size \in Nat
    OBVIOUS
  <2> QED BY <1>1, <1>2, <1>3, <2>1
<1>6. ASSUME NEW k \in DOMAIN vehicles
      PROVE  /\ End(k - 1) \in Nat /\ End(k) \in Nat
             /\ End(k - 1) <= End(k) /\ End(k) <= Len(stops)
  <2>1. k \in Nat \ {0} /\ k - 1 \in Nat
    BY FleetOfVehicles
  <2>2. PICK a \in Nat, b \in Nat : a = (k - 1) * size /\ b = k * size
    BY <2>1
  <2>3. b = a + size
    BY <2>1, <2>2
  <2>4. End(k - 1) = (IF a < n THEN a ELSE n) /\ End(k) = (IF b < n THEN b ELSE n)
    BY <1>3, <2>2
  <2> QED BY <1>1, <2>3, <2>4
<1> QED BY <1>4, <1>5, <1>6

\* The stops of a sector.
LEMMA SectorStops ==
  ASSUME stops \in Batches, vehicles \in Fleets, vehicles # <<>>,
         order \in Seq(Stop), Len(order) = Len(stops), NEW k \in DOMAIN vehicles
  PROVE  /\ Sector(k) \in Seq(Stop)
         /\ Range(Sector(k)) = {order[m] : m \in End(k - 1) + 1 .. End(k)}
<1>1. PICK a \in Nat, b \in Nat : /\ a = End(k - 1) /\ b = End(k) /\ a <= b
                                  /\ b <= Len(order)
  BY SectorEnds
<1>2. PICK s : s = SubSeq(order, a + 1, b) /\ s = Sector(k)
  BY <1>1 DEF Sector
<1>3. /\ s \in Seq(Stop) /\ Len(s) = b - a
      /\ \A m \in 1 .. b - a : s[m] = order[a + m]
  <2>1. a + 1 \in Int /\ b \in Int /\ \A m \in a + 1 .. b : order[m] \in Stop
    BY <1>1
  <2>2. /\ s \in Seq(Stop)
        /\ Len(s) = IF a + 1 <= b THEN b - (a + 1) + 1 ELSE 0
        /\ \A m \in 1 .. b - (a + 1) + 1 : s[m] = order[a + 1 + m - 1]
    BY <1>2, <2>1, SubSeqProperties
  <2>3. b - (a + 1) + 1 = b - a /\ \A m \in 1 .. b - a : a + 1 + m - 1 = a + m
    BY <1>1
  <2>4. Len(s) = b - a
    BY <1>1, <2>2
  <2> QED BY <2>2, <2>3, <2>4
<1>4. DOMAIN s = 1 .. b - a
  BY <1>1, <1>3
<1>5. {s[m] : m \in 1 .. b - a} = {order[m] : m \in a + 1 .. b}
  <2>1. ASSUME NEW m \in 1 .. b - a PROVE s[m] \in {order[l] : l \in a + 1 .. b}
    <3>1. a + m \in a + 1 .. b
      BY <1>1
    <3> QED BY <1>3, <3>1
  <2>2. ASSUME NEW m \in a + 1 .. b PROVE order[m] \in {s[l] : l \in 1 .. b - a}
    <3>1. m - a \in 1 .. b - a /\ a + (m - a) = m
      BY <1>1
    <3> QED BY <1>3, <3>1
  <2> QED BY <2>1, <2>2
<1>6. Range(s) = {s[m] : m \in 1 .. b - a}
  BY <1>4 DEF Range
<1> QED BY <1>1, <1>2, <1>3, <1>5, <1>6

\* Among the stops that remain there is a nearest.
LEMMA NearestRemains ==
  ASSUME NEW from \in Places, NEW sector \in Seq(Stop), NEW R,
         R \subseteq DOMAIN sector, R # {}
  PROVE  Nearest(from, sector, R) \in R
<1> DEFINE far(k) == Minutes[<<from, sector[k].place>>]
<1>1. \A k \in R : far(k) \in Nat /\ k \in Nat
  <2> SUFFICES ASSUME NEW k \in R PROVE far(k) \in Nat /\ k \in Nat
    OBVIOUS
  <2>1. sector[k] \in Stop /\ k \in Nat
    OBVIOUS
  <2>2. <<from, sector[k].place>> \in Places \X Places
    BY <2>1 DEF Stop
  <2> QED BY <2>1, <2>2, MinutesAssumption
<1>2. Nearest(from, sector, R) =
        CHOOSE k \in R : \A l \in R : far(k) < far(l) \/ (far(k) = far(l) /\ k <= l)
  BY DEF Nearest
<1> HIDE DEF far
<1>3. PICK d \in {far(k) : k \in R} : \A e \in {far(k) : k \in R} : d <= e
  <2>1. {far(k) : k \in R} \subseteq Nat /\ {far(k) : k \in R} # {}
    BY <1>1
  <2> QED BY <2>1, LeastNumber
<1>4. PICK k \in {l \in R : far(l) = d} : \A l \in {l \in R : far(l) = d} : k <= l
  <2>1. {l \in R : far(l) = d} \subseteq Nat /\ {l \in R : far(l) = d} # {}
    BY <1>1, <1>3
  <2> QED BY <2>1, LeastNumber
<1>5. \A l \in R : far(k) < far(l) \/ (far(k) = far(l) /\ k <= l)
  <2> SUFFICES ASSUME NEW l \in R PROVE far(k) < far(l) \/ (far(k) = far(l) /\ k <= l)
    OBVIOUS
  <2>1. far(l) \in Nat /\ far(k) \in Nat /\ far(k) = d /\ d <= far(l)
    BY <1>1, <1>3, <1>4
  <2> QED BY <1>4, <2>1
<1> QED BY <1>2, <1>4, <1>5

LEMMA AtAPlace ==
  ASSUME NEW tour \in Seq(Stop), NEW depot \in Places, NEW k
  PROVE  At(tour, k, depot) \in Places
<1>1. CASE k \in DOMAIN tour
  <2>1. tour[k] \in Stop
    BY <1>1
  <2> QED BY <1>1, <2>1 DEF At, Stop
<1> QED BY <1>1 DEF At

LEMMA DriveIsNat ==
  ASSUME NEW p \in Places, NEW q \in Places
  PROVE  Minutes[<<p, q>>] \in Nat
<1>1. <<p, q>> \in Places \X Places
  OBVIOUS
<1> QED BY <1>1, MinutesAssumption

LEMMA TourIsNat ==
  ASSUME NEW tour \in Seq(Stop), NEW depot \in Places
  PROVE  Tour(tour, depot) \in Nat
<1> DEFINE F == [k \in 0 .. Len(tour) |->
                   Minutes[<<At(tour, k, depot), At(tour, k + 1, depot)>>]]
<1>1. Tour(tour, depot) = SumFunctionOnSet(F, 0 .. Len(tour))
  BY DEF Tour, SumFunction, SumFunctionOnSet, FoldFunction
<1>2. IsFiniteSet(0 .. Len(tour))
  BY FS_Interval
<1>3. \A k \in 0 .. Len(tour) : F[k] \in Nat
  BY AtAPlace, DriveIsNat
<1> QED BY <1>1, <1>2, <1>3, SumIsNat

-----------------------------------------------------------------------------
(* The invariant.                                                          *)

Planning == pc \in {"sweep", "route", "improve", "walk", "done"}

\* The vehicle's locals once it has a route.
WalkState ==
    [next : Nat, day : Nat, minutes : Nat, clock : Nat, here : Places]

\* The locals of two_opt.
ScanState == [i : Nat, j : Nat, best : Nat, improved : BOOLEAN]

Typed ==
    /\ stops \in Batches /\ vehicles \in Fleets /\ solver \in Solvers
    /\ pc \in {"check", "refused", "sweep", "route", "improve", "walk", "done"}
    /\ v \in Nat
    /\ order \in Seq(Stop)
    /\ assignment \in [DOMAIN vehicles -> Seq(Stop)]
    /\ route \in Seq(Stop)
    /\ scan \in ScanState
    /\ pc \in {"improve", "walk"} => walk \in WalkState
    /\ plan \in Seq(Planned)
    /\ total \in Nat

\* The sorted list is the given one in another order.
OrderInv ==
    /\ pc = "check" => v = 1
    /\ Planning => /\ v \in DOMAIN vehicles
                   /\ Len(order) = Len(stops)
                   /\ Range(order) = Range(stops)
                   /\ IsInjective(order)

\* A vehicle gets stops of its sector, none twice, and in the end all of them.
SweepInv ==
    /\ pc = "check" => \A k \in DOMAIN vehicles : assignment[k] = <<>>
    /\ Planning =>
        \A k \in DOMAIN vehicles :
            /\ IsInjective(assignment[k])
            /\ Range(assignment[k]) \subseteq Range(Sector(k))
            /\ (pc = "sweep" /\ k >= v) \/ Range(assignment[k]) = Range(Sector(k))

\* The reversal of a .. b has been measured in this pass.
Tried(a, b) == a < scan.i \/ (a = scan.i /\ b < scan.j)

Helps(a, b) ==
    Tour(Reverse2(route, a, b), vehicles[v].depot) < Tour(route, vehicles[v].depot)

\* The route is some order of what the vehicle was given; a pass that has
\* improved nothing has measured every reversal before i, j against this route.
RouteInv ==
    /\ pc \in {"improve", "walk"} =>
        IsInjective(route) /\ Range(route) = Range(assignment[v])
    /\ pc = "improve" =>
        /\ scan.i \in 2 .. Len(route)
        /\ scan.j \in scan.i + 1 .. Len(route) + 1
        /\ scan.i < Len(route) => scan.j <= Len(route)
        /\ scan.best = Tour(route, vehicles[v].depot)
        /\ ~scan.improved => \A a, b \in DOMAIN route :
                                1 < a /\ a < b /\ Tried(a, b) => ~Helps(a, b)
    /\ pc = "walk" /\ Improves =>
        \A a, b \in DOMAIN route : 1 < a /\ a < b => ~Helps(a, b)

\* The stops of the vehicles that are through, and those this one has visited.
Settled == {order[k] : k \in 1 .. End(IF pc = "done" THEN v ELSE v - 1)}
Visited == IF pc = "walk" THEN {route[k] : k \in 1 .. walk.next - 1} ELSE {}

PlanInv ==
    /\ pc \in {"check", "refused", "sweep"} => plan = <<>>
    /\ pc = "walk" => walk.next \in 1 .. Len(route) + 1
    /\ pc = "improve" => walk = Depart(vehicles[v].depot)
    /\ \A k \in DOMAIN plan : plan[k].seq = k
    /\ \A k, l \in DOMAIN plan : plan[k].task = plan[l].task => k = l
    /\ pc \in {"route", "improve", "walk", "done"} =>
        {plan[k].task : k \in DOMAIN plan} = {s.task : s \in Settled \cup Visited}
    /\ pc = "done" => v = Len(vehicles)

\* A day that fits its shift.
Fits(k, day) ==
    \/ Cardinality(OnDay(k, day)) <= 1
    \/ Service(Cardinality(OnDay(k, day))) + Driven(OnDay(k, day)) <= vehicles[k].shift

\* What the walk has counted is what the plan says of its day, and no day
\* after it has begun.
DayInv ==
    /\ \A n \in DOMAIN plan :
        /\ plan[n].vehicle <= v
        /\ pc \in {"route", "improve"} => plan[n].vehicle < v
    /\ \A k \in DOMAIN vehicles, day \in Nat : vehicles[k].shift < 16 * 60 => Fits(k, day)
    /\ pc = "walk" /\ vehicles[v].shift < 16 * 60 =>
        LET today == OnDay(v, walk.day)
        IN  /\ Service(Cardinality(today)) + Driven(today) = walk.minutes
            /\ walk.clock = Shift(walk.day) + Driven(today)
            /\ \A day \in Nat : day > walk.day => OnDay(v, day) = {}

IInv == Typed /\ OrderInv /\ SweepInv /\ RouteInv /\ PlanInv /\ DayInv

-----------------------------------------------------------------------------
(* What the steps leave where it is.                                       *)

LEMMA SectorsStay ==
  ASSUME UNCHANGED <<stops, vehicles, order>>
  PROVE  \A k : Sector(k)' = Sector(k) /\ End(k)' = End(k)
  BY DEF Sector, End, PerSector, Ceil

\* A reversal is another order of the same stops.
LEMMA ReversalReorders ==
  ASSUME NEW t \in Seq(Stop), NEW i \in DOMAIN t, NEW j \in DOMAIN t, i <= j
  PROVE  /\ Reverse2(t, i, j) \in Seq(Stop)
         /\ Len(Reverse2(t, i, j)) = Len(t)
         /\ Range(Reverse2(t, i, j)) = Range(t)
         /\ IsInjective(t) => IsInjective(Reverse2(t, i, j))
<1>1. PICK n \in Nat : n = Len(t) /\ DOMAIN t = 1 .. n
  OBVIOUS
<1> DEFINE m(k) == IF k \in i .. j THEN i + j - k ELSE k
<1>2. \A k \in 1 .. n : m(k) \in 1 .. n /\ m(m(k)) = k
  BY <1>1
<1>3. PICK r : r = Reverse2(t, i, j)
  OBVIOUS
<1>4. r = [k \in 1 .. n |-> t[m(k)]]
  BY <1>1, <1>3 DEF Reverse2
<1> HIDE DEF m
<1>5. r \in Seq(Stop) /\ Len(r) = n /\ DOMAIN r = 1 .. n
  BY <1>1, <1>2, <1>4
<1>6. Range(r) = Range(t)
  <2>1. ASSUME NEW k \in 1 .. n PROVE r[k] \in Range(t) /\ t[k] \in Range(r)
    <3>1. r[k] = t[m(k)] /\ m(k) \in DOMAIN t
      BY <1>1, <1>2, <1>4
    <3>2. t[k] = r[m(k)] /\ m(k) \in DOMAIN r
      BY <1>2, <1>4, <1>5
    <3> QED BY <3>1, <3>2 DEF Range
  <2>2. \A x \in Range(r) : x \in Range(t)
    BY <2>1, <1>5 DEF Range
  <2>3. \A x \in Range(t) : x \in Range(r)
    BY <2>1, <1>1 DEF Range
  <2> QED BY <2>2, <2>3
<1>7. ASSUME IsInjective(t) PROVE IsInjective(r)
  <2> SUFFICES ASSUME NEW a \in 1 .. n, NEW b \in 1 .. n, r[a] = r[b] PROVE a = b
    BY <1>5 DEF IsInjective
  <2>1. m(a) = m(b)
    BY <1>1, <1>2, <1>4, <1>7 DEF IsInjective
  <2> QED BY <1>2, <2>1
<1> QED BY <1>1, <1>3, <1>5, <1>6, <1>7

\* The pair after this one.
LEMMA AdvanceIs ==
  ASSUME NEW s \in ScanState, route \in Seq(Stop)
  PROVE  Advance(s) =
           [i |-> IF s.j < Len(route) THEN s.i ELSE s.i + 1,
            j |-> IF s.j < Len(route) THEN s.j + 1 ELSE s.i + 2,
            best |-> s.best, improved |-> s.improved]
<1>1. PICK i, j, b, f : s = [i |-> i, j |-> j, best |-> b, improved |-> f]
  BY DEF ScanState
<1> QED BY <1>1 DEF Advance

LEMMA KeptIs ==
  ASSUME scan \in ScanState, NEW km \in Nat
  PROVE  Kept(km) = [i |-> scan.i, j |-> scan.j, best |-> km, improved |-> TRUE]
<1>1. PICK i, j, b, f : scan = [i |-> i, j |-> j, best |-> b, improved |-> f]
  BY DEF ScanState
<1>2. PICK yes : yes = TRUE
  OBVIOUS
<1>3. PICK y : y = [scan EXCEPT !.best = km, !.improved = yes]
  OBVIOUS
<1>4. y = [i |-> i, j |-> j, best |-> km, improved |-> yes]
  BY <1>1, <1>3
<1>5. Kept(km) = y
  BY <1>2, <1>3, Zenon DEF Kept
<1>6. y = [i |-> scan.i, j |-> scan.j, best |-> km, improved |-> yes]
  BY <1>1, <1>4
<1> QED BY <1>2, <1>5, <1>6, Zenon

LEMMA VehicleAtWork ==
  ASSUME Typed, OrderInv, Planning
  PROVE  /\ vehicles # <<>> /\ v \in 1 .. Len(vehicles) /\ v \in DOMAIN vehicles
         /\ Len(vehicles) \in Nat /\ DOMAIN vehicles = 1 .. Len(vehicles)
         /\ vehicles \in Seq(VehicleSpec)
         /\ vehicles[v].depot \in Places /\ vehicles[v].shift \in Nat
<1>1. vehicles \in Fleets /\ v \in DOMAIN vehicles
  BY DEF Typed, OrderInv
<1>2. vehicles \in Seq(VehicleSpec) /\ vehicles[v].depot \in Places /\ vehicles[v].shift \in Nat
  BY <1>1, FleetOfVehicles
<1> QED BY <1>1, <1>2

-----------------------------------------------------------------------------
(* The steps of the loops.                                                 *)

\* The stop a vehicle drives to next is one of its sector that it does not
\* have yet.
LEMMA DriveTakes ==
  ASSUME IInv, Drive
  PROVE  \E s \in Range(Sector(v)) :
           /\ s \in Stop
           /\ s \notin Range(assignment[v])
           /\ assignment' = [assignment EXCEPT ![v] = Append(assignment[v], s)]
<1> USE DEF IInv
<1>1. Planning /\ stops \in Batches /\ vehicles \in Fleets
  BY DEF Drive, Planning, Typed
<1>2. PICK from : from = Place(assignment[v], vehicles[v].depot)
  OBVIOUS
<1>3. from \in Places
  <2>1. assignment[v] \in Seq(Stop)
    BY <1>1, VehicleAtWork DEF Typed
  <2>2. CASE assignment[v] = <<>>
    BY <1>1, <1>2, <2>2, VehicleAtWork DEF Place
  <2>3. CASE assignment[v] # <<>>
    <3>1. assignment[v][Len(assignment[v])] \in Stop
      BY <2>1, <2>3
    <3> QED BY <1>2, <2>3, <3>1 DEF Place, Stop
  <2> QED BY <2>2, <2>3
<1>4. Sector(v) \in Seq(Stop)
  BY <1>1, VehicleAtWork, SectorStops DEF Typed, OrderInv
<1>5. Remaining # {} /\ Remaining \subseteq DOMAIN Sector(v)
  BY DEF Drive, Remaining
<1>6. PICK k : k = Nearest(from, Sector(v), Remaining)
  OBVIOUS
<1>7. k \in Remaining
  BY <1>3, <1>4, <1>5, <1>6, NearestRemains
<1>8. /\ Sector(v)[k] \in Range(Sector(v)) /\ Sector(v)[k] \in Stop
      /\ Sector(v)[k] \notin Range(assignment[v])
  BY <1>4, <1>7 DEF Remaining, Range
<1>9. assignment' = [assignment EXCEPT ![v] = Append(assignment[v], Sector(v)[k])]
  BY <1>2, <1>6 DEF Drive
<1> QED BY <1>8, <1>9

\* What a reversal does to the route and the locals.
LEMMA TryReversalDoes ==
  ASSUME IInv, TryReversal
  PROVE  /\ scan.i \in DOMAIN route /\ scan.j \in DOMAIN route
         /\ 1 < scan.i /\ scan.i < scan.j
         /\ LET i == IF scan.j < Len(route) THEN scan.i ELSE scan.i + 1
                j == IF scan.j < Len(route) THEN scan.j + 1 ELSE scan.i + 2
                depot == vehicles[v].depot
            IN  \/ /\ route' = Reverse2(route, scan.i, scan.j)
                   /\ scan' = [i |-> i, j |-> j, best |-> Tour(route', depot),
                               improved |-> TRUE]
                \/ /\ route' = route
                   /\ ~Helps(scan.i, scan.j)
                   /\ scan' = [i |-> i, j |-> j, best |-> scan.best,
                               improved |-> scan.improved]
<1> USE DEF IInv
<1>1. Planning /\ route \in Seq(Stop) /\ scan \in ScanState /\ pc = "improve"
  BY DEF TryReversal, Planning, Typed
<1>2. /\ scan.i \in 2 .. Len(route) /\ scan.j \in scan.i + 1 .. Len(route) + 1
      /\ scan.i < Len(route) => scan.j <= Len(route)
      /\ scan.best = Tour(route, vehicles[v].depot)
  BY <1>1 DEF RouteInv
<1>3. scan.i < Len(route)
  BY DEF TryReversal, Scanning
<1>4. scan.i \in DOMAIN route /\ scan.j \in DOMAIN route /\ 1 < scan.i /\ scan.i < scan.j
  BY <1>1, <1>2, <1>3
<1>5. PICK c : c = Reverse2(route, scan.i, scan.j)
  OBVIOUS
<1>6. c \in Seq(Stop)
  BY <1>1, <1>4, <1>5, ReversalReorders
<1>7. PICK km \in Nat : km = Tour(c, vehicles[v].depot)
  BY <1>1, <1>6, VehicleAtWork, TourIsNat
<1>8. CASE Shorter(km, scan.best)
  <2>1. route' = c /\ scan' = Advance(Kept(km))
    BY <1>5, <1>7, <1>8 DEF TryReversal
  <2>2. PICK y : y = Kept(km)
    OBVIOUS
  <2>3. y = [i |-> scan.i, j |-> scan.j, best |-> km, improved |-> TRUE]
    BY <1>1, <2>2, KeptIs
  <2>4. y \in ScanState
    BY <1>1, <2>3 DEF ScanState
  <2>5. scan' = [i |-> IF y.j < Len(route) THEN y.i ELSE y.i + 1,
                 j |-> IF y.j < Len(route) THEN y.j + 1 ELSE y.i + 2,
                 best |-> y.best, improved |-> y.improved]
    BY <1>1, <2>1, <2>2, <2>4, AdvanceIs
  <2> QED BY <1>4, <1>5, <1>7, <2>1, <2>3, <2>5
<1>9. CASE ~Shorter(km, scan.best)
  <2>1. route' = route /\ scan' = Advance(scan)
    BY <1>5, <1>7, <1>9 DEF TryReversal
  <2>2. ~Helps(scan.i, scan.j)
    BY <1>2, <1>5, <1>7, <1>9 DEF Helps, Shorter
  <2>3. scan' = [i |-> IF scan.j < Len(route) THEN scan.i ELSE scan.i + 1,
                 j |-> IF scan.j < Len(route) THEN scan.j + 1 ELSE scan.i + 2,
                 best |-> scan.best, improved |-> scan.improved]
    BY <1>1, <2>1, AdvanceIs
  <2> QED BY <1>4, <2>1, <2>2, <2>3
<1> QED BY <1>8, <1>9

\* A visit is counted on the day it belongs to: on this day when the drive and
\* the service still fit the shift, or first thing on the next.
LEMMA WalkDoes ==
  ASSUME IInv, Walk
  PROVE  /\ walk.next \in DOMAIN route /\ route[walk.next] \in Stop
         /\ \E w \in WalkState, leg \in Nat :
              /\ \/ w = walk /\ walk.minutes + leg + SERVICE_MINUTES <= vehicles[v].shift
                 \/ w = [next |-> walk.next, day |-> walk.day + 1, minutes |-> 0,
                         clock |-> Shift(walk.day + 1), here |-> vehicles[v].depot]
              /\ walk' = [next |-> walk.next + 1, day |-> w.day,
                          minutes |-> w.minutes + leg + SERVICE_MINUTES,
                          clock |-> w.clock + leg, here |-> route[walk.next].place]
              /\ plan' = Append(plan, [seq |-> Len(plan) + 1, task |-> route[walk.next].task,
                                       vehicle |-> v, eta |-> w.clock + leg, leg |-> leg])
<1> USE DEF IInv
<1>1. /\ Planning /\ route \in Seq(Stop) /\ walk \in WalkState /\ walk.next \in Nat \ {0}
      /\ walk.next <= Len(route)
  BY DEF Walk, Planning, Typed, PlanInv
<1>2. walk.next \in DOMAIN route /\ route[walk.next] \in Stop
  BY <1>1
<1>3. PICK stop, w, leg :
        /\ stop \in Stop
        /\ stop = route[walk.next]
        /\ w = (IF Full(walk, Minutes[<<walk.here, stop.place>>]) THEN NextDay(walk) ELSE walk)
        /\ leg = Minutes[<<w.here, stop.place>>]
  BY <1>2
<1>4. /\ walk' = Visit(w, leg, stop.place)
      /\ plan' = Append(plan, [seq |-> Len(plan) + 1, task |-> stop.task,
                               vehicle |-> v, eta |-> w.clock + leg, leg |-> leg])
  BY <1>3 DEF Walk
<1>5. stop.place \in Places /\ vehicles[v].depot \in Places /\ SERVICE_MINUTES \in Nat
  BY <1>1, <1>3, VehicleAtWork, InputAssumption DEF Stop
<1>6. PICK x \in Nat, d \in Nat, m \in Nat, c \in Nat, h \in Places :
        walk = [next |-> x, day |-> d, minutes |-> m, clock |-> c, here |-> h]
  BY <1>1 DEF WalkState
<1>7. NextDay(walk) = [next |-> x, day |-> d + 1, minutes |-> 0,
                       clock |-> Shift(d + 1), here |-> vehicles[v].depot]
  <2>1. PICK y : y = Depart(vehicles[v].depot)
    OBVIOUS
  <2>2. y = [next |-> 1, day |-> 0, minutes |-> 0, clock |-> Shift(0),
             here |-> vehicles[v].depot]
    BY <2>1 DEF Depart
  <2>3. NextDay(walk) = [y EXCEPT !.next = x, !.day = d + 1, !.clock = Shift(d + 1)]
    BY <1>6, <2>1 DEF NextDay
  <2> QED BY <2>2, <2>3
<1>8. Shift(d + 1) \in Nat
  BY DEF Shift, Day
<1>9. /\ w \in WalkState
      /\ \/ w = walk /\ walk.minutes + leg + SERVICE_MINUTES <= vehicles[v].shift
         \/ w = [next |-> walk.next, day |-> walk.day + 1, minutes |-> 0,
                 clock |-> Shift(walk.day + 1), here |-> vehicles[v].depot]
  <2>1. CASE Full(walk, Minutes[<<walk.here, stop.place>>])
    <3>1. w = [next |-> x, day |-> d + 1, minutes |-> 0,
               clock |-> Shift(d + 1), here |-> vehicles[v].depot]
      BY <1>3, <1>7, <2>1
    <3>2. w \in WalkState
      BY <1>5, <1>8, <3>1 DEF WalkState
    <3> QED BY <1>6, <3>1, <3>2
  <2>2. CASE ~Full(walk, Minutes[<<walk.here, stop.place>>])
    <3>1. w = walk /\ leg = Minutes[<<walk.here, stop.place>>]
      BY <1>3, <2>2
    <3>2. leg \in Nat /\ vehicles[v].shift \in Nat
      BY <1>1, <1>5, <1>6, <3>1, DriveIsNat, VehicleAtWork
    <3>3. walk.minutes \in Nat /\ w \in WalkState
      BY <1>1, <3>1 DEF WalkState
    <3>4. ~(walk.minutes + leg + SERVICE_MINUTES > vehicles[v].shift)
      BY <2>2, <3>1 DEF Full
    <3>5. walk.minutes + leg + SERVICE_MINUTES <= vehicles[v].shift
      BY <1>5, <3>2, <3>3, <3>4
    <3> QED BY <3>1, <3>3, <3>5
  <2> QED BY <2>1, <2>2
<1>10. leg \in Nat
  BY <1>3, <1>5, <1>9, DriveIsNat DEF WalkState
<1>11. walk' = [next |-> walk.next + 1, day |-> w.day,
                minutes |-> w.minutes + leg + SERVICE_MINUTES,
                clock |-> w.clock + leg, here |-> route[walk.next].place]
  <2>1. PICK x2 \in Nat, d2 \in Nat, m2 \in Nat, c2 \in Nat, h2 \in Places :
          w = [next |-> x2, day |-> d2, minutes |-> m2, clock |-> c2, here |-> h2]
    BY <1>9 DEF WalkState
  <2>2. x2 = x
    BY <1>6, <1>9, <2>1
  <2>3. walk' = [next |-> x2 + 1, day |-> d2, minutes |-> m2 + leg + SERVICE_MINUTES,
                 clock |-> c2 + leg, here |-> stop.place]
    BY <1>4, <2>1 DEF Visit
  <2> QED BY <1>3, <1>6, <2>1, <2>2, <2>3
<1> QED BY <1>2, <1>3, <1>4, <1>9, <1>10, <1>11

-----------------------------------------------------------------------------
(* Types.                                                                  *)

LEMMA TypedInit == Init => Typed
<1> SUFFICES ASSUME Init PROVE Typed
  OBVIOUS
<1>1. assignment \in [DOMAIN vehicles -> Seq(Stop)]
  BY DEF Init
<1>2. scan \in ScanState
  BY DEF Init, NoScan, ScanState
<1> QED BY <1>1, <1>2 DEF Init, Typed

LEMMA TypedNext == IInv /\ [Next]_vars => Typed'
<1> SUFFICES ASSUME IInv, [Next]_vars PROVE Typed'
  OBVIOUS
<1> USE DEF IInv
<1>t. Typed
  OBVIOUS
<1>1. CASE Refuse
  BY <1>t, <1>1 DEF Refuse, Typed, input
<1>2. CASE Accept
  <2>1. Sorted \in Seq(Stop)
    BY <1>t, <1>2, SortedIsAPermutation DEF Accept, Infeasible, Typed
  <2> QED BY <1>t, <1>2, <2>1 DEF Accept, Typed, input
<1>3. CASE Drive
  <2>1. PICK s \in Stop : assignment' = [assignment EXCEPT ![v] = Append(assignment[v], s)]
    BY <1>3, DriveTakes
  <2>2. vehicles' = vehicles /\ v \in DOMAIN vehicles /\ assignment[v] \in Seq(Stop)
    BY <1>t, <1>3, VehicleAtWork DEF Drive, input, Planning, Typed
  <2>3. Append(assignment[v], s) \in Seq(Stop)
    BY <2>2
  <2>4. assignment' \in [DOMAIN vehicles' -> Seq(Stop)]
    BY <1>t, <2>1, <2>2, <2>3 DEF Typed
  <2> QED BY <1>t, <1>3, <2>4 DEF Drive, Typed, input
<1>4. CASE NextSector
  BY <1>t, <1>4 DEF NextSector, Typed, input
<1>5. CASE StartRoute
  <2>1. Planning
    BY <1>5 DEF StartRoute, Planning
  <2>2. route' \in Seq(Stop) /\ vehicles[v].depot \in Places
    BY <1>t, <1>5, <2>1, VehicleAtWork DEF StartRoute, Typed
  <2>3. Tour(route', vehicles[v].depot) \in Nat
    BY <2>2, TourIsNat
  <2>4. scan' \in ScanState /\ pc' \in {"improve", "walk"}
    BY <1>5, <2>3 DEF StartRoute, Pass, NoScan, ScanState
  <2>5. walk' \in WalkState
    <3>1. Shift(0) \in Nat
      BY DEF Shift, Day
    <3> QED BY <1>5, <2>2, <3>1 DEF StartRoute, Depart, WalkState
  <2>6. total' \in Nat
    BY <1>t, <1>5, <2>3 DEF StartRoute, Typed
  <2> QED BY <1>t, <1>5, <2>2, <2>4, <2>5, <2>6 DEF StartRoute, Typed, input
<1>6. CASE TryReversal
  <2>1. Planning /\ route \in Seq(Stop) /\ scan \in ScanState
    BY <1>t, <1>6 DEF TryReversal, Planning, Typed
  <2>2. /\ scan.i \in DOMAIN route /\ scan.j \in DOMAIN route /\ scan.i < scan.j
        /\ scan.i \in Nat /\ scan.j \in Nat
        /\ scan.best \in Nat /\ scan.improved \in BOOLEAN
    BY <1>6, <2>1, TryReversalDoes DEF ScanState
  <2>3. route' \in Seq(Stop)
    BY <1>6, <2>1, <2>2, TryReversalDoes, ReversalReorders
  <2>4. Tour(route', vehicles[v].depot) \in Nat
    BY <2>1, <2>3, VehicleAtWork, TourIsNat
  <2>5. scan' \in ScanState
    <3>1. PICK i \in Nat, j \in Nat :
            /\ i = IF scan.j < Len(route) THEN scan.i ELSE scan.i + 1
            /\ j = IF scan.j < Len(route) THEN scan.j + 1 ELSE scan.i + 2
      BY <2>2
    <3>2. \/ scan' = [i |-> i, j |-> j, best |-> Tour(route', vehicles[v].depot),
                      improved |-> TRUE]
          \/ scan' = [i |-> i, j |-> j, best |-> scan.best, improved |-> scan.improved]
      BY <1>6, <3>1, TryReversalDoes
    <3>3. PICK b \in Nat, f \in BOOLEAN :
            scan' = [i |-> i, j |-> j, best |-> b, improved |-> f]
      <4>1. TRUE \in BOOLEAN
        OBVIOUS
      <4> QED BY <2>2, <2>4, <3>2, <4>1, Zenon
    <3> QED BY <3>1, <3>3 DEF ScanState
  <2> QED BY <1>t, <1>6, <2>3, <2>5 DEF TryReversal, Typed, input
<1>7. CASE EndPass
  <2>1. Planning /\ route \in Seq(Stop)
    BY <1>t, <1>7 DEF EndPass, Planning, Typed
  <2>2. Tour(route, vehicles[v].depot) \in Nat
    BY <2>1, VehicleAtWork, TourIsNat
  <2>3. scan' \in ScanState
    BY <1>t, <1>7, <2>2 DEF EndPass, Pass, ScanState, Typed
  <2>4. total' \in Nat
    BY <1>t, <1>7, <2>2 DEF EndPass, Typed
  <2> QED BY <1>t, <1>7, <2>3, <2>4 DEF EndPass, Typed, input
<1>8. CASE Walk
  <2>1. Planning /\ plan \in Seq(Planned) /\ v \in Nat
    BY <1>t, <1>8 DEF Walk, Planning, Typed
  <2>2. PICK w \in WalkState, leg \in Nat :
          /\ walk' = [next |-> walk.next + 1, day |-> w.day,
                      minutes |-> w.minutes + leg + SERVICE_MINUTES,
                      clock |-> w.clock + leg, here |-> route[walk.next].place]
          /\ plan' = Append(plan, [seq |-> Len(plan) + 1, task |-> route[walk.next].task,
                                   vehicle |-> v, eta |-> w.clock + leg, leg |-> leg])
    BY <1>8, WalkDoes
  <2>3. walk.next \in Nat /\ route[walk.next].task \in Nat /\ route[walk.next].place \in Places
    BY <1>t, <1>8, WalkDoes DEF Stop, Typed, Walk, WalkState
  <2>4. w.day \in Nat /\ w.minutes \in Nat /\ w.clock \in Nat
    BY <2>2 DEF WalkState
  <2>5. walk' \in WalkState
    <3>0. SERVICE_MINUTES \in Nat
      BY InputAssumption
    <3>1. /\ walk.next + 1 \in Nat /\ w.clock + leg \in Nat
          /\ w.minutes + leg + SERVICE_MINUTES \in Nat
      BY <2>3, <2>4, <3>0
    <3>2. PICK a, m, c, h :
            /\ a \in Nat /\ m \in Nat /\ c \in Nat /\ h \in Places
            /\ a = walk.next + 1 /\ m = w.minutes + leg + SERVICE_MINUTES
            /\ c = w.clock + leg /\ h = route[walk.next].place
      BY <2>3, <3>1
    <3>3. walk' = [next |-> a, day |-> w.day, minutes |-> m, clock |-> c, here |-> h]
      BY <2>2, <3>2
    <3> QED BY <2>4, <3>2, <3>3 DEF WalkState
  <2>6. PICK p : p = [seq |-> Len(plan) + 1, task |-> route[walk.next].task,
                      vehicle |-> v, eta |-> w.clock + leg, leg |-> leg]
    OBVIOUS
  <2>7. p \in Planned
    BY <2>1, <2>2, <2>3, <2>4, <2>6 DEF Planned
  <2>8. plan' \in Seq(Planned)
    BY <2>1, <2>2, <2>6, <2>7
  <2> QED BY <1>t, <1>8, <2>5, <2>8 DEF Walk, Typed, input
<1>9. CASE NextVehicle
  BY <1>t, <1>9 DEF NextVehicle, Typed, input
<1>10. CASE UNCHANGED vars
  BY <1>t, <1>10 DEF vars, Typed
<1> QED BY <1>1, <1>2, <1>3, <1>4, <1>5, <1>6, <1>7, <1>8, <1>9, <1>10 DEF Next

-----------------------------------------------------------------------------
(* The sorted list and the sectors.                                        *)

LEMMA OrderInit == Init => OrderInv
  BY DEF Init, OrderInv, Planning

LEMMA OrderNext == IInv /\ [Next]_vars => OrderInv'
<1> SUFFICES ASSUME IInv, [Next]_vars PROVE OrderInv'
  OBVIOUS
<1>i. Typed /\ OrderInv
  BY DEF IInv
<1>1. CASE Refuse
  BY <1>1 DEF Refuse, OrderInv, Planning
<1>2. CASE Accept
  <2>1. vehicles # <<>> /\ stops \in Batches /\ vehicles \in Fleets /\ v = 1
    BY <1>i, <1>2 DEF Accept, Infeasible, Typed, OrderInv
  <2>2. 1 \in DOMAIN vehicles
    BY <2>1, FleetOfVehicles
  <2> QED BY <1>2, <2>1, <2>2, SortedIsAPermutation DEF Accept, OrderInv, Planning, input
<1>3. CASE Drive
  BY <1>i, <1>3 DEF Drive, OrderInv, Planning, input
<1>4. CASE NextSector
  <2>1. PICK n \in Nat : n = Len(vehicles) /\ v \in 1 .. n /\ DOMAIN vehicles = 1 .. n
    BY <1>i, <1>4, VehicleAtWork DEF NextSector, Planning
  <2>2. v' \in 1 .. n
    <3>1. CASE v = n
      BY <1>4, <2>1, <3>1 DEF NextSector
    <3>2. CASE v # n
      BY <1>4, <2>1, <3>2 DEF NextSector
    <3> QED BY <3>1, <3>2
  <2> QED BY <1>i, <1>4, <2>1, <2>2 DEF NextSector, OrderInv, Planning, input
<1>5. CASE StartRoute
  BY <1>i, <1>5 DEF StartRoute, OrderInv, Planning, input
<1>6. CASE TryReversal
  BY <1>i, <1>6 DEF TryReversal, OrderInv, Planning, input
<1>7. CASE EndPass
  BY <1>i, <1>7 DEF EndPass, OrderInv, Planning, input
<1>8. CASE Walk
  BY <1>i, <1>8 DEF Walk, OrderInv, Planning, input
<1>9. CASE NextVehicle
  <2>1. PICK n \in Nat : n = Len(vehicles) /\ v \in 1 .. n /\ DOMAIN vehicles = 1 .. n
    BY <1>i, <1>9, VehicleAtWork DEF NextVehicle, Planning
  <2>2. v' \in 1 .. n
    <3>1. CASE v = n
      BY <1>9, <2>1, <3>1 DEF NextVehicle
    <3>2. CASE v # n
      BY <1>9, <2>1, <3>2 DEF NextVehicle
    <3> QED BY <3>1, <3>2
  <2> QED BY <1>i, <1>9, <2>1, <2>2 DEF NextVehicle, OrderInv, Planning, input
<1>10. CASE UNCHANGED vars
  BY <1>i, <1>10 DEF vars, OrderInv, Planning
<1> QED BY <1>1, <1>2, <1>3, <1>4, <1>5, <1>6, <1>7, <1>8, <1>9, <1>10 DEF Next

LEMMA SweepInit == Init => SweepInv
  BY DEF Init, SweepInv, Planning

\* One more stop in a list without repetitions.
LEMMA AppendToInjective ==
  ASSUME NEW T, NEW s \in Seq(T), NEW x \in T, IsInjective(s), x \notin Range(s)
  PROVE  /\ IsInjective(Append(s, x))
         /\ Range(Append(s, x)) = Range(s) \cup {x}
<1>1. PICK n \in Nat : n = Len(s) /\ DOMAIN s = 1 .. n
  OBVIOUS
<1>2. PICK t : t = Append(s, x)
  OBVIOUS
<1>3. /\ DOMAIN t = 1 .. n + 1 /\ t[n + 1] = x
      /\ \A k \in 1 .. n : t[k] = s[k] /\ s[k] # x
  BY <1>1, <1>2 DEF Range
<1>4. IsInjective(t)
  BY <1>1, <1>3 DEF IsInjective
<1>5. Range(t) = Range(s) \cup {x}
  <2>1. \A k \in 1 .. n + 1 : k \in 1 .. n \/ k = n + 1
    OBVIOUS
  <2> QED BY <1>1, <1>3, <2>1 DEF Range
<1> QED BY <1>2, <1>4, <1>5

LEMMA SweepNext == IInv /\ [Next]_vars => SweepInv'
<1> SUFFICES ASSUME IInv, [Next]_vars PROVE SweepInv'
  OBVIOUS
<1>i. Typed /\ OrderInv /\ SweepInv
  BY DEF IInv
<1>1. CASE Refuse
  BY <1>1 DEF Refuse, SweepInv, Planning
<1>2. CASE Accept
  <2>1. /\ \A k \in DOMAIN vehicles : assignment[k] = <<>>
        /\ assignment' = assignment /\ vehicles' = vehicles /\ pc' = "sweep" /\ v' = 1
    BY <1>i, <1>2 DEF Accept, SweepInv, OrderInv, input
  <2>2. IsInjective(<<>>) /\ Range(<<>>) = {}
    BY DEF IsInjective, Range
  <2>3. \A k \in DOMAIN vehicles : k >= 1
    BY <1>i, FleetOfVehicles DEF Typed
  <2> QED BY <2>1, <2>2, <2>3 DEF SweepInv, Planning
<1>3. CASE Drive
  <2>1. PICK s \in Range(Sector(v)) :
          /\ s \in Stop
          /\ s \notin Range(assignment[v])
          /\ assignment' = [assignment EXCEPT ![v] = Append(assignment[v], s)]
    BY <1>3, DriveTakes
  <2>2. /\ v \in DOMAIN vehicles /\ v' = v /\ pc = "sweep" /\ pc' = pc /\ vehicles' = vehicles
        /\ assignment \in [DOMAIN vehicles -> Seq(Stop)]
        /\ \A k : Sector(k)' = Sector(k)
    BY <1>i, <1>3, VehicleAtWork, SectorsStay DEF Drive, input, Planning, Typed
  <2>3. assignment'[v] = Append(assignment[v], s)
    BY <2>1, <2>2
  <2>4. /\ IsInjective(assignment[v])
        /\ Range(assignment[v]) \subseteq Range(Sector(v))
    BY <1>i, <2>2 DEF SweepInv, Planning
  <2>5. /\ IsInjective(assignment'[v])
        /\ Range(assignment'[v]) \subseteq Range(Sector(v))
    BY <2>1, <2>2, <2>3, <2>4, AppendToInjective
  <2>6. \A k \in DOMAIN vehicles \ {v} : assignment'[k] = assignment[k]
    BY <2>1, <2>2
  <2> SUFFICES ASSUME NEW k \in DOMAIN vehicles
               PROVE  (/\ IsInjective(assignment[k])
                       /\ Range(assignment[k]) \subseteq Range(Sector(k))
                       /\ (pc = "sweep" /\ k >= v)
                          \/ Range(assignment[k]) = Range(Sector(k)))'
    BY <2>2 DEF SweepInv, Planning
  <2>7. CASE k = v
    <3>1. v >= v
      BY <1>i, <2>2, VehicleAtWork DEF Planning
    <3> QED BY <2>2, <2>5, <2>7, <3>1
  <2>8. CASE k # v
    BY <1>i, <2>2, <2>6, <2>8 DEF SweepInv, Planning
  <2> QED BY <2>7, <2>8
<1>4. CASE NextSector
  <2>0. PICK n \in Nat : n = Len(vehicles) /\ v \in 1 .. n /\ DOMAIN vehicles = 1 .. n
    BY <1>i, <1>4, VehicleAtWork DEF NextSector, Planning
  <2>1. /\ pc = "sweep" /\ vehicles' = vehicles /\ assignment' = assignment
        /\ \A k : Sector(k)' = Sector(k)
    BY <1>i, <1>4, VehicleAtWork, SectorsStay DEF NextSector, Planning, input
  <2>2. Range(assignment[v]) = Range(Sector(v)) /\ v \in DOMAIN vehicles
    <3>1. \A k \in DOMAIN Sector(v) : Sector(v)[k] \in Range(assignment[v])
      BY <1>4 DEF NextSector, Remaining
    <3>2. Range(Sector(v)) \subseteq Range(assignment[v])
      BY <3>1 DEF Range
    <3> QED BY <1>i, <2>0, <2>1, <3>2 DEF SweepInv, Planning
  <2> SUFFICES ASSUME NEW k \in DOMAIN vehicles
               PROVE  (/\ IsInjective(assignment[k])
                       /\ Range(assignment[k]) \subseteq Range(Sector(k))
                       /\ (pc = "sweep" /\ k >= v)
                          \/ Range(assignment[k]) = Range(Sector(k)))'
    BY <1>4, <2>1 DEF SweepInv, NextSector
  <2>3. IsInjective(assignment[k]) /\ Range(assignment[k]) \subseteq Range(Sector(k))
    BY <1>i, <2>1 DEF SweepInv, Planning
  <2>4. (pc' = "sweep" /\ k >= v') \/ Range(assignment[k]) = Range(Sector(k))
    <3>1. CASE k < v
      <4>1. ~(k >= v)
        BY <2>0, <3>1
      <4> QED BY <1>i, <2>1, <4>1 DEF SweepInv, Planning
    <3>2. CASE k = v
      BY <2>2, <3>2
    <3>3. CASE k > v
      <4>1. v # n /\ k \in 1 .. n
        BY <2>0, <3>3
      <4>2. pc' = "sweep" /\ v' = v + 1
        BY <1>4, <2>0, <4>1 DEF NextSector
      <4> QED BY <2>0, <3>3, <4>1, <4>2
    <3> QED BY <2>0, <3>1, <3>2, <3>3
  <2> QED BY <2>1, <2>3, <2>4
<1>5. ASSUME StartRoute \/ TryReversal \/ EndPass \/ Walk \/ NextVehicle
      PROVE  SweepInv'
  <2>1. /\ pc \in {"route", "improve", "walk"} /\ pc' \in {"route", "improve", "walk", "done"}
        /\ UNCHANGED <<stops, vehicles, order, assignment>>
    BY <1>5 DEF StartRoute, TryReversal, EndPass, Walk, NextVehicle, input
  <2>2. \A k : Sector(k)' = Sector(k)
    BY <2>1, SectorsStay
  <2> QED BY <1>i, <2>1, <2>2 DEF SweepInv, Planning
<1>6. CASE UNCHANGED vars
  <2>1. UNCHANGED <<stops, vehicles, order, assignment, pc, v>>
    BY <1>6 DEF vars
  <2>2. \A k : Sector(k)' = Sector(k)
    BY <2>1, SectorsStay
  <2> QED BY <1>i, <2>1, <2>2 DEF SweepInv, Planning
<1> QED BY <1>1, <1>2, <1>3, <1>4, <1>5, <1>6 DEF Next

-----------------------------------------------------------------------------
(* The route and what 2-opt knows of it.                                   *)

LEMMA RouteInit == Init => RouteInv
  BY DEF Init, RouteInv

LEMMA RouteNext == IInv /\ [Next]_vars => RouteInv'
<1> SUFFICES ASSUME IInv, [Next]_vars PROVE RouteInv'
  OBVIOUS
<1>i. Typed /\ OrderInv /\ SweepInv /\ RouteInv
  BY DEF IInv
<1>1. ASSUME Refuse \/ Accept \/ Drive \/ NextSector \/ NextVehicle
      PROVE  RouteInv'
  <2>1. pc' \notin {"improve", "walk"}
    BY <1>1 DEF Refuse, Accept, Drive, NextSector, NextVehicle
  <2> QED BY <2>1 DEF RouteInv
<1>2. CASE StartRoute
  <2>1. /\ Planning /\ pc = "route" /\ route' = assignment[v] /\ v \in DOMAIN vehicles
        /\ UNCHANGED <<vehicles, v, assignment>>
    BY <1>i, <1>2 DEF StartRoute, Planning, OrderInv, input
  <2>2. PICK n \in Nat : n = Len(route') /\ route' \in Seq(Stop) /\ DOMAIN route' = 1 .. n
    BY <1>i, <2>1 DEF Typed
  <2>3. IsInjective(route') /\ Range(route') = Range(assignment'[v'])
    BY <1>i, <2>1 DEF SweepInv
  <2>4. CASE Improves /\ n >= 3
    <3>1. pc' = "improve" /\ scan' = Pass(route')
      BY <1>2, <2>2, <2>4 DEF StartRoute
    <3>2. /\ scan'.i = 2 /\ scan'.j = 3
          /\ scan'.best = Tour(route', vehicles'[v'].depot)
      BY <2>1, <3>1 DEF Pass
    <3>3. \A a, b \in 1 .. n : 1 < a /\ a < b /\ (a < 2 \/ (a = 2 /\ b < 3)) => FALSE
      OBVIOUS
    <3>4. \A a, b \in DOMAIN route' : ~(1 < a /\ a < b /\ Tried(a, b)')
      BY <2>2, <3>2, <3>3 DEF Tried
    <3> QED BY <2>2, <2>3, <2>4, <3>1, <3>2, <3>4 DEF RouteInv
  <2>5. CASE ~(Improves /\ n >= 3)
    <3>1. pc' = "walk" /\ Improves' = Improves
      BY <1>2, <2>2, <2>5 DEF StartRoute, Improves, input
    <3>2. Improves => \A a, b \in 1 .. n : ~(1 < a /\ a < b)
      BY <2>5
    <3> QED BY <2>2, <2>3, <3>1, <3>2 DEF RouteInv
  <2> QED BY <2>4, <2>5
<1>3. CASE TryReversal
  <2>1. /\ Planning /\ pc = "improve" /\ pc' = "improve" /\ route \in Seq(Stop)
        /\ UNCHANGED <<vehicles, v, assignment>>
        /\ scan \in ScanState
    BY <1>i, <1>3 DEF TryReversal, Planning, Typed, input
  <2>2. PICK n \in Nat : n = Len(route) /\ DOMAIN route = 1 .. n
    BY <2>1
  <2>3. PICK p \in 1 .. n, q \in 1 .. n : p = scan.i /\ q = scan.j /\ 1 < p /\ p < q
    BY <1>3, <2>2, TryReversalDoes
  <2>4. /\ IsInjective(route) /\ Range(route) = Range(assignment[v])
        /\ scan.best = Tour(route, vehicles[v].depot)
        /\ ~scan.improved => \A a, b \in 1 .. n : 1 < a /\ a < b /\ Tried(a, b) => ~Helps(a, b)
    BY <1>i, <2>1, <2>2 DEF RouteInv
  <2>5. PICK i \in Nat, j \in Nat :
          /\ i = IF q < n THEN p ELSE p + 1
          /\ j = IF q < n THEN q + 1 ELSE p + 2
    BY <2>3
  <2>6. i \in 2 .. n /\ j \in i + 1 .. n + 1 /\ (i < n => j <= n)
    BY <2>3, <2>5
  <2>7. \/ /\ route' = Reverse2(route, p, q)
           /\ scan' = [i |-> i, j |-> j, best |-> Tour(route', vehicles[v].depot),
                       improved |-> TRUE]
        \/ /\ route' = route
           /\ ~Helps(p, q)
           /\ scan' = [i |-> i, j |-> j, best |-> scan.best, improved |-> scan.improved]
    BY <1>3, <2>2, <2>3, <2>5, TryReversalDoes
  <2>8. CASE /\ route' = Reverse2(route, p, q)
             /\ scan' = [i |-> i, j |-> j, best |-> Tour(route', vehicles[v].depot),
                         improved |-> TRUE]
    <3>1. /\ Len(route') = n /\ DOMAIN route' = 1 .. n
          /\ IsInjective(route') /\ Range(route') = Range(route)
      <4>1. p \in DOMAIN route /\ q \in DOMAIN route /\ p <= q
        BY <2>2, <2>3
      <4>2. PICK r : r = Reverse2(route, p, q)
        OBVIOUS
      <4>3. /\ r \in Seq(Stop) /\ Len(r) = Len(route) /\ Range(r) = Range(route)
            /\ IsInjective(route) => IsInjective(r)
        BY <2>1, <4>1, <4>2, ReversalReorders
      <4>4. DOMAIN r = 1 .. n
        BY <2>2, <4>3
      <4> QED BY <2>2, <2>4, <2>8, <4>2, <4>3, <4>4
    <3>2. /\ scan'.i = i /\ scan'.j = j /\ scan'.best = Tour(route', vehicles'[v'].depot)
      BY <2>1, <2>8
    <3>3. scan'.improved
      BY <2>8, Zenon
    <3> QED BY <2>1, <2>4, <2>6, <3>1, <3>2, <3>3 DEF RouteInv
  <2>9. CASE /\ route' = route
             /\ ~Helps(p, q)
             /\ scan' = [i |-> i, j |-> j, best |-> scan.best, improved |-> scan.improved]
    <3>1. scan'.i = i /\ scan'.j = j /\ scan'.best = scan.best
      BY <2>9
    <3>2. scan'.improved = scan.improved
      BY <2>9, Zenon
    <3>3. \A a, b \in 1 .. n : 1 < a /\ a < b /\ (a < i \/ (a = i /\ b < j)) =>
            (a < p \/ (a = p /\ b < q)) \/ (a = p /\ b = q)
      BY <2>3, <2>5
    <3>4. \A a, b \in 1 .. n : Helps(a, b)' = Helps(a, b)
      BY <2>1, <2>9 DEF Helps
    <3>5. ~scan'.improved =>
            \A a, b \in 1 .. n : 1 < a /\ a < b /\ Tried(a, b)' => ~Helps(a, b)'
      <4> SUFFICES ASSUME ~scan.improved, NEW a \in 1 .. n, NEW b \in 1 .. n,
                          1 < a, a < b, Tried(a, b)'
                   PROVE  ~Helps(a, b)'
        BY <3>2
      <4>1. (a < p \/ (a = p /\ b < q)) \/ (a = p /\ b = q)
        BY <3>1, <3>3 DEF Tried
      <4>2. Tried(a, b) \/ (a = p /\ b = q)
        BY <2>3, <4>1 DEF Tried
      <4>3. ~Helps(a, b)
        BY <2>4, <2>9, <4>2
      <4> QED BY <3>4, <4>3
    <3> QED BY <2>1, <2>2, <2>4, <2>6, <2>9, <3>1, <3>5 DEF RouteInv
  <2> QED BY <2>7, <2>8, <2>9
<1>4. CASE EndPass
  <2>1. /\ Planning /\ pc = "improve" /\ route \in Seq(Stop) /\ route' = route
        /\ UNCHANGED <<vehicles, v, assignment, solver>>
        /\ scan \in ScanState
    BY <1>i, <1>4 DEF EndPass, Planning, Typed, input
  <2>2. PICK n \in Nat : n = Len(route) /\ DOMAIN route = 1 .. n
    BY <2>1
  <2>3. /\ IsInjective(route) /\ Range(route) = Range(assignment[v])
        /\ scan.i \in 2 .. n
        /\ ~scan.improved => \A a, b \in 1 .. n : 1 < a /\ a < b /\ Tried(a, b) => ~Helps(a, b)
    BY <1>i, <2>1, <2>2 DEF RouteInv
  <2>4. scan.i = n
    BY <1>4, <2>2, <2>3 DEF EndPass, Scanning
  <2>5. CASE scan.improved
    <3>1. pc' = "improve" /\ scan' = Pass(route)
      BY <1>4, <2>5 DEF EndPass
    <3>2. scan'.i = 2 /\ scan'.j = 3 /\ scan'.best = Tour(route, vehicles[v].depot)
      BY <3>1 DEF Pass
    <3>3. \A a, b \in 1 .. n : 1 < a /\ a < b /\ (a < 2 \/ (a = 2 /\ b < 3)) => FALSE
      OBVIOUS
    <3>4. \A a, b \in 1 .. n : ~(1 < a /\ a < b /\ Tried(a, b)')
      BY <3>2, <3>3 DEF Tried
    <3>5. n >= 2 /\ 2 \in 2 .. n /\ 3 \in 2 + 1 .. n + 1 /\ (2 < n => 3 <= n)
      BY <2>3
    <3> QED BY <2>1, <2>2, <2>3, <3>1, <3>2, <3>4, <3>5 DEF RouteInv
  <2>6. CASE ~scan.improved
    <3>1. pc' = "walk"
      BY <1>4, <2>6 DEF EndPass
    <3>2. \A a, b \in 1 .. n : 1 < a /\ a < b => Tried(a, b)
      BY <2>4 DEF Tried
    <3>3. \A a, b \in 1 .. n : 1 < a /\ a < b => ~Helps(a, b)
      BY <2>3, <2>6, <3>2
    <3>4. \A a, b \in 1 .. n : Helps(a, b)' = Helps(a, b)
      BY <2>1 DEF Helps
    <3> QED BY <2>1, <2>2, <2>3, <3>1, <3>3, <3>4 DEF RouteInv
  <2> QED BY <2>5, <2>6
<1>5. CASE Walk
  <2>1. UNCHANGED <<vehicles, v, assignment, solver, route>> /\ pc = "walk" /\ pc' = "walk"
    BY <1>5 DEF Walk, input
  <2>2. \A a, b : Helps(a, b)' = Helps(a, b)
    BY <2>1 DEF Helps
  <2> QED BY <1>i, <2>1, <2>2 DEF RouteInv, Improves
<1>6. CASE UNCHANGED vars
  <2>1. UNCHANGED <<vehicles, v, assignment, solver, route, pc, scan>>
    BY <1>6 DEF vars
  <2>2. \A a, b : Helps(a, b)' = Helps(a, b) /\ Tried(a, b)' = Tried(a, b)
    BY <2>1 DEF Helps, Tried
  <2> QED BY <1>i, <2>1, <2>2 DEF RouteInv, Improves
<1> QED BY <1>1, <1>2, <1>3, <1>4, <1>5, <1>6 DEF Next

-----------------------------------------------------------------------------
(* The plan.                                                               *)

\* The stops of the vehicles before the n-th.
SettledBy(n) == {order[k] : k \in 1 .. End(n)}

\* One sector more.
LEMMA SettledGrows ==
  ASSUME Typed, OrderInv, Planning
  PROVE  /\ SettledBy(0) = {}
         /\ SettledBy(Len(vehicles)) = Range(stops)
         /\ SettledBy(v) = SettledBy(v - 1) \cup Range(Sector(v))
         /\ SettledBy(v - 1) \cap Range(Sector(v)) = {}
         /\ SettledBy(v) \subseteq Range(stops)
<1>1. /\ stops \in Batches /\ vehicles \in Fleets /\ vehicles # <<>> /\ v \in DOMAIN vehicles
      /\ order \in Seq(Stop) /\ Len(order) = Len(stops) /\ Range(order) = Range(stops)
      /\ IsInjective(order)
  BY VehicleAtWork DEF Typed, OrderInv
<1>2. PICK n \in Nat : n = Len(order) /\ DOMAIN order = 1 .. n
  BY <1>1
<1>3. PICK a \in Nat, b \in Nat : a = End(v - 1) /\ b = End(v) /\ a <= b /\ b <= n
  BY <1>1, <1>2, SectorEnds
<1>4. End(0) = 0 /\ End(Len(vehicles)) = n
  BY <1>1, <1>2, SectorEnds
<1>5. Range(Sector(v)) = {order[m] : m \in a + 1 .. b}
  BY <1>1, <1>3, SectorStops
<1>6. SettledBy(0) = {} /\ SettledBy(Len(vehicles)) = Range(stops)
  <2>1. Range(order) = {order[k] : k \in 1 .. n}
    BY <1>2 DEF Range
  <2>2. SettledBy(Len(vehicles)) = {order[k] : k \in 1 .. n}
    BY <1>4 DEF SettledBy
  <2>3. SettledBy(0) = {}
    BY <1>4 DEF SettledBy
  <2> QED BY <1>1, <2>1, <2>2, <2>3
<1>7. SettledBy(v) = {order[m] : m \in 1 .. b} /\ SettledBy(v - 1) = {order[m] : m \in 1 .. a}
  BY <1>3 DEF SettledBy
<1>8. \A m \in 1 .. b : m \in 1 .. a \/ m \in a + 1 .. b
  BY <1>3
<1>9. \A m \in 1 .. a : m \in 1 .. b /\ m \in 1 .. n
  BY <1>3
<1>10. \A m \in a + 1 .. b : m \in 1 .. b /\ m \in 1 .. n /\ m \notin 1 .. a
  BY <1>3
<1>11. SettledBy(v) = SettledBy(v - 1) \cup Range(Sector(v))
  BY <1>5, <1>7, <1>8, <1>9, <1>10
<1>12. SettledBy(v - 1) \cap Range(Sector(v)) = {}
  <2> SUFFICES ASSUME NEW k \in 1 .. a, NEW l \in a + 1 .. b, order[k] = order[l]
               PROVE  FALSE
    BY <1>5, <1>7
  <2> QED BY <1>1, <1>2, <1>9, <1>10 DEF IsInjective
<1>13. SettledBy(v) \subseteq Range(stops)
  <2>1. \A m \in 1 .. b : m \in 1 .. n
    BY <1>3
  <2> QED BY <1>1, <1>2, <1>7, <2>1 DEF Range
<1> QED BY <1>6, <1>11, <1>12, <1>13

LEMMA SettledThen ==
  ASSUME UNCHANGED <<stops, vehicles, order>>
  PROVE  /\ Settled = IF pc = "done" THEN SettledBy(v) ELSE SettledBy(v - 1)
         /\ Settled' = IF pc' = "done" THEN SettledBy(v') ELSE SettledBy(v' - 1)
<1>1. \A k : End(k)' = End(k)
  BY SectorsStay
<1>2. Settled = IF pc = "done" THEN SettledBy(v) ELSE SettledBy(v - 1)
  BY DEF Settled, SettledBy
<1>3. PICK n : n = IF pc' = "done" THEN v' ELSE v' - 1
  OBVIOUS
<1>4. Settled' = {order[k] : k \in 1 .. End(n)}
  BY <1>1, <1>3 DEF Settled
<1> QED BY <1>2, <1>3, <1>4 DEF SettledBy

LEMMA PlanInit == Init => PlanInv
  BY DEF Init, PlanInv


LEMMA PlanNext == IInv /\ [Next]_vars => PlanInv'
<1> SUFFICES ASSUME IInv, [Next]_vars PROVE PlanInv'
  OBVIOUS
<1>i. Typed /\ OrderInv /\ SweepInv /\ RouteInv /\ PlanInv
  BY DEF IInv
<1>1. CASE Refuse \/ Accept \/ Drive
  <2>1. pc \in {"check", "sweep"} /\ pc' \in {"refused", "sweep"} /\ plan' = plan
    BY <1>1 DEF Refuse, Accept, Drive
  <2>2. plan = <<>>
    BY <1>i, <2>1 DEF PlanInv
  <2> QED BY <2>1, <2>2 DEF PlanInv
<1>2. CASE NextSector
  <2>1. /\ Planning /\ pc = "sweep" /\ plan' = plan /\ UNCHANGED <<stops, vehicles, order>>
        /\ pc' \in {"sweep", "route"} /\ (pc' = "route" => v' = 1)
    BY <1>2 DEF NextSector, Planning, input
  <2>2. plan = <<>>
    BY <1>i, <2>1 DEF PlanInv
  <2>3. SettledBy(0) = {} /\ 1 - 1 = 0
    BY <1>i, <2>1, SettledGrows
  <2>4. pc' = "route" => Settled' = {} /\ Visited' = {}
    BY <2>1, <2>3, SettledThen DEF Visited
  <2> QED BY <2>1, <2>2, <2>4 DEF PlanInv
<1>3. CASE StartRoute
  <2>1. /\ pc = "route" /\ plan' = plan /\ UNCHANGED <<stops, vehicles, order, v>>
        /\ walk' = Depart(vehicles[v].depot) /\ pc' \in {"improve", "walk"}
        /\ route' = assignment[v] /\ Planning
    BY <1>3 DEF StartRoute, input, Planning
  <2>2. walk'.next = 1
    BY <2>1 DEF Depart
  <2>3. Len(route') \in Nat
    BY <1>i, <2>1, VehicleAtWork DEF Typed
  <2>4. Settled' = Settled /\ Visited' = {} /\ Visited = {}
    <3>1. Visited' = {}
      BY <2>1, <2>2 DEF Visited
    <3> QED BY <2>1, <3>1, SettledThen DEF Visited
  <2>5. (Settled \cup Visited)' = Settled \cup Visited
    BY <2>4
  <2>6. walk'.next \in 1 .. Len(route') + 1 /\ walk' = Depart(vehicles'[v'].depot)
    BY <2>1, <2>2, <2>3
  <2> QED BY <1>i, <2>1, <2>5, <2>6 DEF PlanInv
<1>4. CASE TryReversal
  <2>1. /\ pc = "improve" /\ pc' = pc /\ UNCHANGED <<stops, vehicles, order, v, walk, plan>>
    BY <1>4 DEF TryReversal, input
  <2>2. Settled' = Settled /\ Visited' = Visited
    BY <2>1, SettledThen DEF Visited
  <2> QED BY <1>i, <2>1, <2>2 DEF PlanInv
<1>5. CASE EndPass
  <2>1. /\ pc = "improve" /\ pc' \in {"improve", "walk"}
        /\ UNCHANGED <<stops, vehicles, order, v, walk, plan, route>>
    BY <1>5 DEF EndPass, input
  <2>2. walk = Depart(vehicles[v].depot) /\ walk.next = 1
    BY <1>i, <2>1 DEF PlanInv, Depart
  <2>3. Len(route) \in Nat
    BY <1>i DEF Typed
  <2>4. Settled' = Settled /\ Visited' = {} /\ Visited = {}
    <3>1. Visited' = {}
      BY <2>1, <2>2 DEF Visited
    <3> QED BY <2>1, <3>1, SettledThen DEF Visited
  <2>5. (Settled \cup Visited)' = Settled \cup Visited
    BY <2>4
  <2>6. walk'.next \in 1 .. Len(route') + 1 /\ walk' = Depart(vehicles'[v'].depot)
    BY <2>1, <2>2, <2>3
  <2> QED BY <1>i, <2>1, <2>5, <2>6 DEF PlanInv
<1>6. CASE Walk
  <2>1. /\ pc = "walk" /\ pc' = "walk" /\ Planning
        /\ UNCHANGED <<stops, vehicles, order, v, route, assignment>>
    BY <1>6 DEF Walk, input, Planning
  <2>2. PICK r \in Nat : r = Len(route) /\ DOMAIN route = 1 .. r
    BY <1>i DEF Typed
  <2>a. PICK x \in 1 .. r : x = walk.next /\ route[x] \in Stop
    BY <1>6, <2>2, WalkDoes
  <2>b. PICK m \in Nat : m = Len(plan) /\ DOMAIN plan = 1 .. m /\ plan \in Seq(Planned)
    BY <1>i DEF Typed
  <2>c. PICK w \in WalkState, leg \in Nat :
          /\ walk' = [next |-> walk.next + 1, day |-> w.day,
                      minutes |-> w.minutes + leg + SERVICE_MINUTES,
                      clock |-> w.clock + leg, here |-> route[walk.next].place]
          /\ plan' = Append(plan, [seq |-> Len(plan) + 1, task |-> route[walk.next].task,
                                   vehicle |-> v, eta |-> w.clock + leg, leg |-> leg])
    BY <1>6, WalkDoes
  <2>d. PICK p : p = [seq |-> Len(plan) + 1, task |-> route[walk.next].task,
                      vehicle |-> v, eta |-> w.clock + leg, leg |-> leg]
    OBVIOUS
  <2>3. /\ p.seq = m + 1 /\ p.task = route[x].task
        /\ plan' = Append(plan, p) /\ walk'.next = x + 1
    BY <2>a, <2>b, <2>c, <2>d
  <2>4. /\ DOMAIN plan' = 1 .. m + 1 /\ plan'[m + 1] = p
        /\ \A k \in 1 .. m : plan'[k] = plan[k]
    BY <2>b, <2>3
  <2>5. \A k \in 1 .. m + 1 : k \in 1 .. m \/ k = m + 1
    OBVIOUS
  <2>6. /\ \A k \in 1 .. m : plan[k].seq = k
        /\ \A k, l \in 1 .. m : plan[k].task = plan[l].task => k = l
        /\ {plan[k].task : k \in 1 .. m} = {s.task : s \in Settled \cup Visited}
    BY <1>i, <2>1, <2>b DEF PlanInv
  <2>7. Visited = {route[k] : k \in 1 .. x - 1} /\ Visited' = {route[k] : k \in 1 .. x}
    BY <2>1, <2>a, <2>3 DEF Visited
  <2>8. Visited' = Visited \cup {route[x]}
    <3>1. \A k \in 1 .. x : k \in 1 .. x - 1 \/ k = x
      BY <2>2, <2>a
    <3>2. \A k \in 1 .. x - 1 : k \in 1 .. x
      BY <2>2, <2>a
    <3>3. x \in 1 .. x
      BY <2>2, <2>a
    <3> QED BY <2>7, <3>1, <3>2, <3>3
  <2>9. Settled' = Settled /\ Settled = SettledBy(v - 1)
    BY <2>1, SettledThen
  <2>10. /\ Range(route) = Range(Sector(v)) /\ IsInjective(route)
         /\ Range(Sector(v)) \subseteq Range(stops) /\ Settled \subseteq Range(stops)
         /\ Settled \cap Range(Sector(v)) = {}
    BY <1>i, <2>1, <2>9, SettledGrows DEF RouteInv, SweepInv, OrderInv
  <2>11. /\ route[x] \in Range(route) /\ route[x] \notin Visited /\ Visited \subseteq Range(route)
    <3>1. \A k \in 1 .. x - 1 : k \in 1 .. r /\ k # x
      BY <2>2, <2>a
    <3> QED BY <2>2, <2>a, <2>7, <2>10, <3>1 DEF IsInjective, Range
  <2>12. route[x].task \notin {s.task : s \in Settled \cup Visited}
    <3> SUFFICES ASSUME NEW s \in Settled \cup Visited, s.task = route[x].task
                 PROVE  FALSE
      OBVIOUS
    <3>1. s \in Range(stops) /\ route[x] \in Range(stops)
      BY <2>10, <2>11
    <3>2. s = route[x]
      BY <1>i, <3>1, BatchOfStops DEF Typed
    <3> QED BY <2>10, <2>11, <3>2
  <2>13. \A k \in 1 .. m : plan[k].task # p.task
    <3> SUFFICES ASSUME NEW k \in 1 .. m, plan[k].task = p.task PROVE FALSE
      OBVIOUS
    <3>1. p.task \in {plan[l].task : l \in 1 .. m}
      OBVIOUS
    <3> QED BY <2>3, <2>6, <2>12, <3>1
  <2>14. \A k, l \in 1 .. m + 1 : plan'[k].task = plan'[l].task => k = l
    BY <2>4, <2>5, <2>6, <2>13
  <2>15. \A k \in 1 .. m + 1 : plan'[k].seq = k
    BY <2>3, <2>4, <2>5, <2>6
  <2>16. {plan'[k].task : k \in 1 .. m + 1} = {s.task : s \in Settled \cup Visited} \cup {p.task}
    <3>1. {plan'[k].task : k \in 1 .. m + 1} = {plan[k].task : k \in 1 .. m} \cup {p.task}
      <4>1. m + 1 \in 1 .. m + 1 /\ \A k \in 1 .. m : k \in 1 .. m + 1
        OBVIOUS
      <4> QED BY <2>4, <2>5, <4>1
    <3> QED BY <2>6, <3>1
  <2>17. {s.task : s \in Settled' \cup Visited'}
            = {s.task : s \in Settled \cup Visited} \cup {p.task}
    BY <2>3, <2>8, <2>9
  <2>18. x + 1 \in 1 .. r + 1
    BY <2>2, <2>a
  <2> QED BY <2>1, <2>2, <2>a, <2>3, <2>4, <2>14, <2>15, <2>16, <2>17, <2>18 DEF PlanInv
<1>7. CASE NextVehicle
  <2>1. /\ pc = "walk" /\ Planning /\ UNCHANGED <<stops, vehicles, order, plan>>
        /\ walk.next > Len(route)
    BY <1>7 DEF NextVehicle, input, Planning
  <2>2. PICK r \in Nat : r = Len(route) /\ DOMAIN route = 1 .. r
    BY <1>i DEF Typed
  <2>3. walk.next = r + 1
    BY <1>i, <2>1, <2>2 DEF PlanInv
  <2>4. Visited = Range(route)
    BY <2>1, <2>2, <2>3 DEF Visited, Range
  <2>5. Visited = Range(Sector(v))
    BY <1>i, <2>1, <2>4 DEF RouteInv, SweepInv, OrderInv
  <2>6. Settled \cup Visited = SettledBy(v)
    BY <1>i, <2>1, <2>5, SettledGrows, SettledThen
  <2>7. \/ v = Len(vehicles) /\ v' = v /\ pc' = "done"
        \/ v' = v + 1 /\ pc' = "route"
    BY <1>7 DEF NextVehicle
  <2>8. Visited' = {}
    BY <2>7 DEF Visited
  <2>9. Settled' = SettledBy(v)
    <3>1. v \in Nat /\ (v + 1) - 1 = v
      BY <1>i DEF Typed
    <3>2. CASE v' = v /\ pc' = "done"
      BY <2>1, <3>2, SettledThen
    <3>3. CASE v' = v + 1 /\ pc' = "route"
      BY <2>1, <3>1, <3>3, SettledThen
    <3> QED BY <2>7, <3>2, <3>3
  <2>10. (Settled \cup Visited)' = Settled \cup Visited
    BY <2>6, <2>8, <2>9
  <2> QED BY <1>i, <2>1, <2>7, <2>10 DEF PlanInv
<1>8. CASE UNCHANGED vars
  <2>1. UNCHANGED <<stops, vehicles, order, v, pc, walk, route, plan>>
    BY <1>8 DEF vars
  <2>2. Settled' = Settled /\ Visited' = Visited
    BY <2>1, SectorsStay DEF Settled, Visited
  <2> QED BY <1>i, <2>1, <2>2 DEF PlanInv
<1> QED BY <1>1, <1>2, <1>3, <1>4, <1>5, <1>6, <1>7, <1>8 DEF Next

-----------------------------------------------------------------------------
(* The days.                                                               *)

Short(k) == vehicles[k].shift < 16 * 60

\* The minutes of a day's drives and services.
LEMMA DayIsFinite ==
  ASSUME Typed, NEW k, NEW day
  PROVE  /\ OnDay(k, day) \subseteq DOMAIN plan
         /\ IsFiniteSet(OnDay(k, day)) /\ Cardinality(OnDay(k, day)) \in Nat
         /\ Driven(OnDay(k, day)) \in Nat
<1>1. PICK m \in Nat : m = Len(plan) /\ DOMAIN plan = 1 .. m
  BY DEF Typed
<1>2. PICK S : S = OnDay(k, day)
  OBVIOUS
<1>3. S \in SUBSET (1 .. m)
  BY <1>1, <1>2 DEF OnDay
<1>4. IsFiniteSet(S) /\ Cardinality(S) \in Nat
  BY <1>3, UpTo, FS_Subset, FS_CardinalityType
<1>5. \A n \in S : plan[n].leg \in Nat
  <2>1. \A n \in 1 .. m : plan[n] \in Planned
    BY <1>1 DEF Typed
  <2> QED BY <1>3, <2>1 DEF Planned
<1>6. Driven(S) \in Nat
  <2>1. PICK F : F = [n \in DOMAIN plan |-> plan[n].leg]
    OBVIOUS
  <2>2. \A n \in S : F[n] \in Nat
    BY <1>1, <1>3, <1>5, <2>1
  <2>3. Driven(S) = SumFunctionOnSet(F, S)
    BY <2>1 DEF Driven
  <2> QED BY <1>4, <2>2, <2>3, SumIsNat
<1> QED BY <1>1, <1>2, <1>3, <1>4, <1>6

\* A visit more on its day.
LEMMA VisitCounts ==
  ASSUME Typed, NEW p \in Planned, plan' = Append(plan, p),
         NEW day \in Nat, (p.eta - p.leg) \div Day = day
  PROVE  /\ \A k, d : k # p.vehicle \/ d # day =>
              OnDay(k, d)' = OnDay(k, d) /\ Driven(OnDay(k, d))' = Driven(OnDay(k, d))
         /\ Cardinality(OnDay(p.vehicle, day))' = Cardinality(OnDay(p.vehicle, day)) + 1
         /\ Driven(OnDay(p.vehicle, day))' = Driven(OnDay(p.vehicle, day)) + p.leg
<1>1. PICK m \in Nat : m = Len(plan) /\ DOMAIN plan = 1 .. m
  BY DEF Typed
<1>2. plan \in Seq(Planned)
  BY DEF Typed
<1>3. /\ plan' \in Seq(Planned) /\ DOMAIN plan' = 1 .. m + 1 /\ plan'[m + 1] = p
      /\ \A n \in 1 .. m : plan'[n] = plan[n]
  BY <1>1, <1>2
<1>4. \A n : n \in 1 .. m + 1 <=> n \in 1 .. m \/ n = m + 1
  OBVIOUS
<1>5. \A k, d : OnDay(k, d) =
        {n \in 1 .. m : plan[n].vehicle = k /\ (plan[n].eta - plan[n].leg) \div Day = d}
  BY <1>1 DEF OnDay
<1>6. \A k, d : OnDay(k, d)' =
        {n \in 1 .. m + 1 : plan'[n].vehicle = k /\ (plan'[n].eta - plan'[n].leg) \div Day = d}
  BY <1>3 DEF OnDay
<1>7. \A k, d : k # p.vehicle \/ d # day => OnDay(k, d)' = OnDay(k, d)
  BY <1>3, <1>4, <1>5, <1>6
<1>8. OnDay(p.vehicle, day)' = OnDay(p.vehicle, day) \cup {m + 1}
  BY <1>3, <1>4, <1>5, <1>6
<1>9. PICK F, G : /\ F = [n \in 1 .. m |-> plan[n].leg]
                  /\ G = [n \in 1 .. m + 1 |-> plan'[n].leg]
  OBVIOUS
<1>10. \A S : Driven(S) = SumFunctionOnSet(F, S) /\ Driven(S)' = SumFunctionOnSet(G, S')
  BY <1>1, <1>3, <1>9 DEF Driven
<1>11. ASSUME NEW S \in SUBSET (1 .. m)
       PROVE  SumFunctionOnSet(G, S) = SumFunctionOnSet(F, S)
  <2>1. IsFiniteSet(S)
    BY UpTo, FS_Subset
  <2>2. \A n \in S : G[n] = F[n]
    BY <1>3, <1>4, <1>9
  <2> QED BY <2>1, <2>2, SumDependsOn
<1>12. \A k, d : OnDay(k, d) \in SUBSET (1 .. m)
  BY <1>5
<1>13. PICK S : S = OnDay(p.vehicle, day)
  OBVIOUS
<1>14. IsFiniteSet(S) /\ m + 1 \notin S /\ S \in SUBSET (1 .. m)
  BY <1>12, <1>13, DayIsFinite
<1>15. Cardinality(S \cup {m + 1}) = Cardinality(S) + 1 /\ IsFiniteSet(S \cup {m + 1})
  BY <1>14, FS_AddElement
<1>16. SumFunctionOnSet(G, S \cup {m + 1}) = SumFunctionOnSet(F, S) + p.leg
  <2>1. \A n \in S \cup {m + 1} : G[n] \in Nat
    <3>1. \A n \in 1 .. m + 1 : plan'[n] \in Planned
      BY <1>3
    <3>2. \A n \in 1 .. m + 1 : plan'[n].leg \in Nat
      BY <3>1 DEF Planned
    <3> QED BY <1>4, <1>9, <1>14, <3>2
  <2>2. m + 1 \in S \cup {m + 1} /\ (S \cup {m + 1}) \ {m + 1} = S
    BY <1>14
  <2>3. SumFunctionOnSet(G, S \cup {m + 1}) = G[m + 1] + SumFunctionOnSet(G, S)
    BY <1>15, <2>1, <2>2, SumTakesOut
  <2>4. G[m + 1] = p.leg /\ p.leg \in Nat
    BY <1>3, <1>4, <1>9 DEF Planned
  <2>5. SumFunctionOnSet(F, S) \in Nat /\ SumFunctionOnSet(G, S) = SumFunctionOnSet(F, S)
    BY <1>10, <1>11, <1>13, <1>14, DayIsFinite
  <2> QED BY <2>3, <2>4, <2>5
<1>17. \A k, d : k # p.vehicle \/ d # day => Driven(OnDay(k, d))' = Driven(OnDay(k, d))
  BY <1>7, <1>10, <1>11, <1>12
<1>18. Driven(OnDay(p.vehicle, day))' = SumFunctionOnSet(G, S \cup {m + 1})
  BY <1>8, <1>10, <1>13
<1> QED BY <1>7, <1>8, <1>10, <1>13, <1>15, <1>16, <1>17, <1>18

LEMMA ServiceAddsUp ==
  ASSUME NEW n \in Nat
  PROVE  Service(n) \in Nat /\ Service(n + 1) = Service(n) + SERVICE_MINUTES /\ Service(0) = 0
<1>1. SERVICE_MINUTES \in Nat
  BY InputAssumption
<1>2. (n + 1) * SERVICE_MINUTES = n * SERVICE_MINUTES + SERVICE_MINUTES
  BY <1>1
<1>3. n * SERVICE_MINUTES \in Nat
  BY <1>1
<1> QED BY <1>1, <1>2, <1>3 DEF Service

LEMMA NothingDriven ==
  Driven({}) = 0 /\ Cardinality({}) = 0
  BY SumOfNothing, FS_EmptySet DEF Driven

-----------------------------------------------------------------------------
\* Sixteen hours after eight it is still the same day.
LEMMA SameDay ==
  ASSUME NEW day \in Nat, NEW c \in Nat, c < 16 * 60
  PROVE  Shift(day) \in Nat /\ (Shift(day) + c) \div Day = day
<1>1. PICK x \in Nat : x = 480 + c /\ x < 1440
  OBVIOUS
<1>2. (day * 1440 + x) \div 1440 = day
  BY <1>1
<1>3. Day = 1440 /\ Shift(day) = day * 1440 + 480
  BY DEF Day, Shift
<1> QED BY <1>1, <1>2, <1>3

LEMMA DayInit == Init => DayInv
<1> SUFFICES ASSUME Init PROVE DayInv
  OBVIOUS
<1>1. plan = <<>> /\ pc = "check"
  BY DEF Init
<1>2. \A k, day : OnDay(k, day) = {}
  BY <1>1 DEF OnDay
<1>3. \A k, day : Fits(k, day)
  BY <1>2, NothingDriven DEF Fits
<1> QED BY <1>1, <1>3 DEF DayInv

\* A vehicle that has not set out has no day.
LEMMA NotOnTheRoad ==
  ASSUME \A n \in DOMAIN plan : plan[n].vehicle # v
  PROVE  \A day : OnDay(v, day) = {}
  BY DEF OnDay

\* The start of a walk.
LEMMA FreshWalk ==
  ASSUME walk = Depart(vehicles[v].depot), \A n \in DOMAIN plan : plan[n].vehicle # v
  PROVE  /\ Service(Cardinality(OnDay(v, walk.day))) + Driven(OnDay(v, walk.day)) = walk.minutes
         /\ walk.clock = Shift(walk.day) + Driven(OnDay(v, walk.day))
         /\ \A day \in Nat : day > walk.day => OnDay(v, day) = {}
<1>1. \A day : OnDay(v, day) = {}
  BY NotOnTheRoad
<1>2. Driven({}) = 0 /\ Service(Cardinality({})) = 0
  BY NothingDriven, ServiceAddsUp
<1>3. walk.minutes = 0 /\ walk.clock = Shift(0) /\ walk.day = 0
  BY DEF Depart
<1>4. Shift(0) \in Nat
  BY DEF Shift, Day
<1> QED BY <1>1, <1>2, <1>3, <1>4

LEMMA DayNext == IInv /\ [Next]_vars => DayInv'
<1> SUFFICES ASSUME IInv, [Next]_vars PROVE DayInv'
  OBVIOUS
<1>i. Typed /\ OrderInv /\ PlanInv /\ DayInv
  BY DEF IInv
<1>0. ASSUME plan' = plan, vehicles' = vehicles
      PROVE  /\ \A k, day : OnDay(k, day)' = OnDay(k, day)
             /\ \A S : Driven(S)' = Driven(S')
             /\ \A k \in DOMAIN vehicles', day \in Nat :
                    vehicles'[k].shift < 16 * 60 => Fits(k, day)'
  <2>1. \A k, day : OnDay(k, day)' = OnDay(k, day)
    BY <1>0 DEF OnDay
  <2>2. \A S : Driven(S)' = Driven(S')
    BY <1>0 DEF Driven
  <2>3. \A k, day : Fits(k, day)' = Fits(k, day)
    BY <1>0, <2>1 DEF Fits, Driven
  <2> QED BY <1>i, <1>0, <2>1, <2>2, <2>3 DEF DayInv
<1>1. CASE Refuse \/ Accept \/ Drive \/ NextSector
  <2>1. plan = <<>> /\ plan' = plan /\ vehicles' = vehicles /\ pc' # "walk"
    BY <1>i, <1>1 DEF Refuse, Accept, Drive, NextSector, PlanInv, input
  <2> QED BY <1>0, <2>1 DEF DayInv
<1>2. CASE StartRoute
  <2>1. /\ plan' = plan /\ vehicles' = vehicles /\ v' = v /\ walk' = Depart(vehicles[v].depot)
        /\ pc = "route" /\ v \in Nat
    BY <1>i, <1>2 DEF StartRoute, input, Typed
  <2>2. \A n \in DOMAIN plan : plan[n].vehicle < v /\ plan[n].vehicle <= v
    BY <1>i, <2>1 DEF DayInv
  <2>3. \A n \in DOMAIN plan : plan[n].vehicle # v
    <3> SUFFICES ASSUME NEW n \in DOMAIN plan, plan[n].vehicle = v PROVE FALSE
      OBVIOUS
    <3>1. v < v
      BY <2>2
    <3> QED BY <2>1, <3>1
  <2>4. (/\ walk = Depart(vehicles[v].depot)
         /\ \A n \in DOMAIN plan : plan[n].vehicle # v)'
    BY <2>1, <2>3
  <2>5. (/\ Service(Cardinality(OnDay(v, walk.day))) + Driven(OnDay(v, walk.day)) = walk.minutes
         /\ walk.clock = Shift(walk.day) + Driven(OnDay(v, walk.day))
         /\ \A day \in Nat : day > walk.day => OnDay(v, day) = {})'
    BY <2>4, FreshWalk, PTL
  <2> QED BY <1>0, <2>1, <2>2, <2>5 DEF DayInv
<1>3. CASE TryReversal
  <2>1. plan' = plan /\ vehicles' = vehicles /\ v' = v /\ pc = "improve" /\ pc' = pc
    BY <1>3 DEF TryReversal, input
  <2> QED BY <1>i, <1>0, <2>1 DEF DayInv
<1>4. CASE EndPass
  <2>1. /\ plan' = plan /\ vehicles' = vehicles /\ v' = v /\ walk' = walk
        /\ pc = "improve" /\ v \in Nat /\ pc' \in {"improve", "walk"}
    BY <1>i, <1>4 DEF EndPass, input, Typed
  <2>2. \A n \in DOMAIN plan : plan[n].vehicle < v /\ plan[n].vehicle <= v
    BY <1>i, <2>1 DEF DayInv
  <2>3. \A n \in DOMAIN plan : plan[n].vehicle # v
    <3> SUFFICES ASSUME NEW n \in DOMAIN plan, plan[n].vehicle = v PROVE FALSE
      OBVIOUS
    <3>1. v < v
      BY <2>2
    <3> QED BY <2>1, <3>1
  <2>4. (/\ walk = Depart(vehicles[v].depot)
         /\ \A n \in DOMAIN plan : plan[n].vehicle # v)'
    BY <1>i, <2>1, <2>3 DEF PlanInv
  <2>5. (/\ Service(Cardinality(OnDay(v, walk.day))) + Driven(OnDay(v, walk.day)) = walk.minutes
         /\ walk.clock = Shift(walk.day) + Driven(OnDay(v, walk.day))
         /\ \A day \in Nat : day > walk.day => OnDay(v, day) = {})'
    BY <2>4, FreshWalk, PTL
  <2> QED BY <1>0, <2>1, <2>2, <2>5 DEF DayInv
<1>6. CASE NextVehicle
  <2>1. /\ plan' = plan /\ vehicles' = vehicles /\ v \in Nat
        /\ (v' = v /\ pc' = "done") \/ (v' = v + 1 /\ pc' = "route")
    BY <1>i, <1>6 DEF NextVehicle, input, Typed
  <2>2. \A n \in DOMAIN plan : plan[n].vehicle \in Nat /\ plan[n].vehicle <= v
    <3>1. \A n \in DOMAIN plan : plan[n] \in Planned
      BY <1>i DEF Typed
    <3> QED BY <1>i, <3>1 DEF DayInv, Planned
  <2>3. \A n \in DOMAIN plan : plan[n].vehicle <= v + 1 /\ plan[n].vehicle < v + 1
    BY <2>1, <2>2
  <2> QED BY <1>0, <2>1, <2>2, <2>3 DEF DayInv
<1>7. CASE UNCHANGED vars
  <2>1. plan' = plan /\ vehicles' = vehicles /\ v' = v /\ pc' = pc /\ walk' = walk
    BY <1>7 DEF vars
  <2> QED BY <1>i, <1>0, <2>1 DEF DayInv, Driven
<1>5. CASE Walk
  <2>0. /\ pc = "walk" /\ pc' = "walk" /\ v' = v /\ vehicles' = vehicles /\ Planning
        /\ walk \in WalkState
    BY <1>i, <1>5 DEF Walk, input, Planning, Typed
  <2>1. PICK w \in WalkState, leg \in Nat :
          /\ \/ w = walk /\ walk.minutes + leg + SERVICE_MINUTES <= vehicles[v].shift
             \/ w = [next |-> walk.next, day |-> walk.day + 1, minutes |-> 0,
                     clock |-> Shift(walk.day + 1), here |-> vehicles[v].depot]
          /\ walk' = [next |-> walk.next + 1, day |-> w.day,
                      minutes |-> w.minutes + leg + SERVICE_MINUTES,
                      clock |-> w.clock + leg, here |-> route[walk.next].place]
          /\ plan' = Append(plan, [seq |-> Len(plan) + 1, task |-> route[walk.next].task,
                                   vehicle |-> v, eta |-> w.clock + leg, leg |-> leg])
    BY <1>5, WalkDoes
  <2>2. PICK p : p = [seq |-> Len(plan) + 1, task |-> route[walk.next].task,
                      vehicle |-> v, eta |-> w.clock + leg, leg |-> leg]
    OBVIOUS
  <2>3. PICK day \in Nat, minutes \in Nat, clock \in Nat :
          day = w.day /\ minutes = w.minutes /\ clock = w.clock
    BY <2>1 DEF WalkState
  <2>4. /\ walk'.day = day /\ walk'.minutes = minutes + leg + SERVICE_MINUTES
        /\ walk'.clock = clock + leg
    BY <2>1, <2>3
  <2>5. p \in Planned /\ p.vehicle = v /\ p.leg = leg /\ p.eta - p.leg = clock
    <3>1. Len(plan) + 1 \in Nat /\ v \in Nat /\ clock + leg \in Nat
      BY <1>i DEF Typed
    <3>2. route[walk.next].task \in Nat
      BY <1>5, WalkDoes DEF Stop
    <3> QED BY <2>2, <2>3, <3>1, <3>2 DEF Planned
  <2>6. PICK at \in Nat, me \in Nat : at = clock \div Day /\ me = v
    BY <1>i DEF Day, Typed
  <2>7. /\ \A k, d : k # me \/ d # at =>
             OnDay(k, d)' = OnDay(k, d) /\ Driven(OnDay(k, d))' = Driven(OnDay(k, d))
        /\ Cardinality(OnDay(me, at))' = Cardinality(OnDay(me, at)) + 1
        /\ Driven(OnDay(me, at))' = Driven(OnDay(me, at)) + leg
    <3>1. plan' = Append(plan, p) /\ (p.eta - p.leg) \div Day = at /\ p.vehicle = me
      BY <2>1, <2>2, <2>5, <2>6
    <3>2. /\ \A k, d : k # p.vehicle \/ d # at =>
               OnDay(k, d)' = OnDay(k, d) /\ Driven(OnDay(k, d))' = Driven(OnDay(k, d))
          /\ Cardinality(OnDay(p.vehicle, at))' = Cardinality(OnDay(p.vehicle, at)) + 1
          /\ Driven(OnDay(p.vehicle, at))' = Driven(OnDay(p.vehicle, at)) + p.leg
      BY <1>i, <2>5, <3>1, VisitCounts
    <3> QED BY <2>5, <3>1, <3>2
  <2>8. ASSUME vehicles[v].shift < 16 * 60
        PROVE  /\ at = day
               /\ Service(Cardinality(OnDay(me, day))) + Driven(OnDay(me, day)) = minutes
               /\ clock = Shift(day) + Driven(OnDay(me, day))
               /\ \A d \in Nat : d > day => OnDay(me, d) = {}
               /\ \/ Cardinality(OnDay(me, day)) = 0
                  \/ minutes + leg + SERVICE_MINUTES <= vehicles[v].shift
    <3>1. /\ Service(Cardinality(OnDay(me, walk.day))) + Driven(OnDay(me, walk.day)) = walk.minutes
          /\ walk.clock = Shift(walk.day) + Driven(OnDay(me, walk.day))
          /\ \A d \in Nat : d > walk.day => OnDay(me, d) = {}
      BY <1>i, <2>0, <2>6, <2>8 DEF DayInv
    <3>2. CASE w = walk /\ walk.minutes + leg + SERVICE_MINUTES <= vehicles[v].shift
      <4>1. /\ Service(Cardinality(OnDay(me, day))) + Driven(OnDay(me, day)) = minutes
            /\ clock = Shift(day) + Driven(OnDay(me, day))
            /\ \A d \in Nat : d > day => OnDay(me, d) = {}
        BY <2>3, <3>1, <3>2
      <4>2. PICK s \in Nat, c \in Nat : /\ s = Service(Cardinality(OnDay(me, day)))
                                        /\ c = Driven(OnDay(me, day))
        BY <1>i, DayIsFinite, ServiceAddsUp
      <4>3. minutes + leg + SERVICE_MINUTES <= vehicles[v].shift
        BY <2>3, <3>2
      <4>4. c < 16 * 60
        <5>1. vehicles[v].shift \in Nat /\ SERVICE_MINUTES \in Nat
          BY <1>i, <2>0, VehicleAtWork, InputAssumption
        <5> QED BY <2>8, <4>1, <4>2, <4>3, <5>1
      <4>5. at = day
        BY <2>6, <4>1, <4>2, <4>4, SameDay
      <4> QED BY <4>1, <4>3, <4>5
    <3>3. CASE w = [next |-> walk.next, day |-> walk.day + 1, minutes |-> 0,
                    clock |-> Shift(walk.day + 1), here |-> vehicles[v].depot]
      <4>1. day = walk.day + 1 /\ minutes = 0 /\ clock = Shift(day)
        BY <2>3, <3>3
      <4>2. walk.day \in Nat
        BY <2>0 DEF WalkState
      <4>3. \A d \in Nat : d >= day => OnDay(me, d) = {}
        <5>1. \A d \in Nat : d >= day => d > walk.day
          BY <4>1, <4>2
        <5> QED BY <3>1, <5>1
      <4>4. OnDay(me, day) = {} /\ \A d \in Nat : d > day => OnDay(me, d) = {}
        BY <4>3
      <4>5. Driven({}) = 0 /\ Cardinality({}) = 0 /\ Service(0) = 0
        BY NothingDriven, ServiceAddsUp
      <4>6. Shift(day) \in Nat /\ (Shift(day) + 0) \div Day = day
        BY SameDay
      <4>7. at = day
        BY <2>6, <4>1, <4>6
      <4>8. /\ Cardinality(OnDay(me, day)) = 0 /\ Driven(OnDay(me, day)) = 0
            /\ Service(Cardinality(OnDay(me, day))) = 0
        BY <4>4, <4>5
      <4> QED BY <4>1, <4>4, <4>6, <4>7, <4>8
    <3> QED BY <2>1, <3>2, <3>3
  <2>9. ASSUME vehicles[v].shift < 16 * 60
        PROVE  /\ Service(Cardinality(OnDay(me, day)'))
                    + Driven(OnDay(me, day))' = minutes + leg + SERVICE_MINUTES
               /\ clock + leg = Shift(day) + Driven(OnDay(me, day))'
               /\ \A d \in Nat : d > day => OnDay(me, d)' = {}
               /\ \/ Cardinality(OnDay(me, day)') = 1
                  \/ minutes + leg + SERVICE_MINUTES <= vehicles[v].shift
    <3>1. PICK n \in Nat, c \in Nat : n = Cardinality(OnDay(me, day)) /\ c = Driven(OnDay(me, day))
      BY <1>i, DayIsFinite
    <3>2. Cardinality(OnDay(me, day)') = n + 1 /\ Driven(OnDay(me, day))' = c + leg
      BY <2>7, <2>8, <2>9, <3>1
    <3>3. PICK s \in Nat : s = Service(n) /\ Service(n + 1) = s + SERVICE_MINUTES
      BY <3>1, ServiceAddsUp
    <3>4. s + c = minutes /\ clock = Shift(day) + c
      BY <2>8, <2>9, <3>1, <3>3
    <3>5. SERVICE_MINUTES \in Nat /\ Shift(day) \in Nat
      BY InputAssumption DEF Shift, Day
    <3>6. (s + SERVICE_MINUTES) + (c + leg) = minutes + leg + SERVICE_MINUTES
      BY <3>4, <3>5
    <3>7. clock + leg = Shift(day) + (c + leg)
      BY <3>4, <3>5
    <3>8. \A d \in Nat : d > day => OnDay(me, d)' = {}
      <4> SUFFICES ASSUME NEW d \in Nat, d > day PROVE OnDay(me, d)' = {}
        OBVIOUS
      <4>1. d # at /\ OnDay(me, d) = {}
        BY <2>8, <2>9
      <4> QED BY <2>7, <4>1
    <3>9. n = 0 \/ minutes + leg + SERVICE_MINUTES <= vehicles[v].shift
      BY <2>8, <2>9, <3>1
    <3> QED BY <3>2, <3>3, <3>6, <3>7, <3>8, <3>9
  <2>10. ASSUME NEW k \in DOMAIN vehicles, NEW d \in Nat, vehicles[k].shift < 16 * 60
         PROVE  Fits(k, d)'
    <3>1. CASE k = me /\ d = day
      <4>1. Fits(me, day)' <=>
              \/ Cardinality(OnDay(me, day)') <= 1
              \/ Service(Cardinality(OnDay(me, day)')) + Driven(OnDay(me, day))'
                   <= vehicles[me].shift
        BY <2>0 DEF Fits
      <4>2. Fits(me, day)'
        <5>1. vehicles[v].shift < 16 * 60
          BY <2>6, <2>10, <3>1
        <5>2. \/ Cardinality(OnDay(me, day)') = 1
              \/ Service(Cardinality(OnDay(me, day)')) + Driven(OnDay(me, day))'
                   <= vehicles[me].shift
          BY <2>6, <2>9, <5>1
        <5> QED BY <4>1, <5>2
      <4> QED BY <3>1, <4>2
    <3>2. CASE k # me \/ d # day
      <4>1. k # me \/ d # at
        BY <2>6, <2>8, <2>10, <3>2
      <4>2. OnDay(k, d)' = OnDay(k, d) /\ Driven(OnDay(k, d))' = Driven(OnDay(k, d))
        BY <2>7, <4>1
      <4>3. Fits(k, d)
        BY <1>i, <2>10 DEF DayInv
      <4> QED BY <2>0, <4>2, <4>3 DEF Fits
    <3> QED BY <3>1, <3>2
  <2>11. \A n \in DOMAIN plan' : plan'[n].vehicle <= v
    <3>1. PICK m \in Nat : m = Len(plan) /\ DOMAIN plan = 1 .. m /\ plan \in Seq(Planned)
      BY <1>i DEF Typed
    <3>2. /\ DOMAIN plan' = 1 .. m + 1 /\ plan'[m + 1] = p
          /\ \A n \in 1 .. m : plan'[n] = plan[n]
      BY <2>1, <2>2, <2>5, <3>1
    <3>3. v \in Nat /\ \A n \in 1 .. m : plan[n].vehicle <= v
      BY <1>i, <3>1 DEF DayInv, Typed
    <3> QED BY <2>5, <3>2, <3>3
  <2>12. vehicles[v].shift < 16 * 60 =>
           (/\ Service(Cardinality(OnDay(v, walk.day))) + Driven(OnDay(v, walk.day)) = walk.minutes
            /\ walk.clock = Shift(walk.day) + Driven(OnDay(v, walk.day))
            /\ \A d \in Nat : d > walk.day => OnDay(v, d) = {})'
    BY <2>0, <2>4, <2>6, <2>9
  <2> QED BY <2>0, <2>10, <2>11, <2>12 DEF DayInv
<1> QED BY <1>1, <1>2, <1>3, <1>4, <1>5, <1>6, <1>7 DEF Next

-----------------------------------------------------------------------------
(* The theorems.                                                           *)

\* The inductive invariant.
THEOREM Invariant == Spec => []IInv
<1>1. Init => IInv
  BY TypedInit, OrderInit, SweepInit, RouteInit, PlanInit, DayInit DEF IInv
<1>2. IInv /\ [Next]_vars => IInv'
  BY TypedNext, OrderNext, SweepNext, RouteNext, PlanNext, DayNext DEF IInv
<1> QED BY <1>1, <1>2, PTL DEF Spec

\* Every variable of the planner keeps its type and its loops their bounds,
\* whatever the week, the fleet and the distances.
THEOREM TypeCorrect == Spec => []TypeOK
<1>1. IInv => TypeOK
  <2> SUFFICES ASSUME IInv PROVE TypeOK
    OBVIOUS
  <2>1. stops \in Seq(Stop) /\ vehicles \in Seq(VehicleSpec)
    BY BatchOfStops, FleetOfVehicles DEF IInv, Typed
  <2>2. scan.best \in Nat /\ scan.improved \in BOOLEAN
    BY DEF IInv, Typed, ScanState
  <2> QED BY <2>1, <2>2 DEF IInv, Typed, RouteInv, TypeOK
<1> QED BY <1>1, Invariant, PTL

\* plan_routes returns every task of the week exactly once, in the order of
\* its numbers: sorting, sectors, nearest neighbour, 2-opt and the walk neither
\* lose a stop nor repeat one.
THEOREM PlansAreComplete == Spec => []EveryStopOnce
<1>1. IInv => EveryStopOnce
  <2> SUFFICES ASSUME IInv, pc = "done"
               PROVE  /\ Len(plan) = Len(stops)
                      /\ \A k \in DOMAIN plan : plan[k].seq = k
                      /\ {plan[k].task : k \in DOMAIN plan} = {stops[k].task : k \in DOMAIN stops}
    BY DEF EveryStopOnce
  <2> USE DEF IInv
  <2>1. Planning /\ v = Len(vehicles)
    BY DEF Planning, PlanInv
  <2>2. SettledBy(v) = Range(stops) /\ Visited = {}
    BY <2>1, SettledGrows DEF Visited
  <2>3. Settled = SettledBy(v)
    BY DEF Settled, SettledBy
  <2>4. {plan[k].task : k \in DOMAIN plan} = {s.task : s \in Range(stops)}
    BY <2>2, <2>3 DEF PlanInv
  <2>5. {s.task : s \in Range(stops)} = {stops[k].task : k \in DOMAIN stops}
    BY DEF Range
  <2>6. PICK m \in Nat, n \in Nat : /\ m = Len(plan) /\ DOMAIN plan = 1 .. m
                                    /\ n = Len(stops) /\ DOMAIN stops = 1 .. n
    BY BatchOfStops DEF Typed
  <2>7. PICK f, g : /\ f = [k \in 1 .. m |-> plan[k].task]
                    /\ g = [k \in 1 .. n |-> stops[k].task]
    OBVIOUS
  <2>8. f \in Seq(Nat) /\ Len(f) = m /\ IsInjective(f)
    <3>1. \A k \in 1 .. m : plan[k] \in Planned
      BY <2>6 DEF Typed
    <3>2. \A k \in 1 .. m : plan[k].task \in Nat
      BY <3>1 DEF Planned
    <3>3. \A k, l \in 1 .. m : plan[k].task = plan[l].task => k = l
      BY <2>6 DEF PlanInv
    <3>4. f \in [1 .. m -> Nat] /\ \A k, l \in 1 .. m : f[k] = f[l] => k = l
      BY <2>7, <3>2, <3>3
    <3> QED BY <3>4, ListOfDifferentNumbers
  <2>9. g \in Seq(Nat) /\ Len(g) = n /\ IsInjective(g)
    <3>1. \A k \in 1 .. n : stops[k] \in Stop
      BY <2>6, BatchOfStops DEF Typed
    <3>2. \A k \in 1 .. n : stops[k].task \in Nat
      BY <3>1 DEF Stop
    <3>3. \A k, l \in 1 .. n : stops[k].task = stops[l].task => k = l
      BY <2>6, InputAssumption DEF Typed
    <3>4. g \in [1 .. n -> Nat] /\ \A k, l \in 1 .. n : g[k] = g[l] => k = l
      BY <2>7, <3>2, <3>3
    <3> QED BY <3>4, ListOfDifferentNumbers
  <2>10. Range(f) = Range(g)
    <3>1. Range(f) = {plan[k].task : k \in 1 .. m}
      BY <2>7 DEF Range
    <3>2. Range(g) = {stops[k].task : k \in 1 .. n}
      BY <2>7 DEF Range
    <3> QED BY <2>4, <2>5, <2>6, <3>1, <3>2
  <2>11. m = n
    BY <2>8, <2>9, <2>10, SameLength
  <2> QED BY <2>4, <2>5, <2>6, <2>11 DEF PlanInv
<1> QED BY <1>1, Invariant, PTL

\* When two_opt returns, no reversal that its loops try shortens the route.
THEOREM NoReversalIsLeft == Spec => []NoTriedReversalHelps
<1>1. IInv => NoTriedReversalHelps
  <2> SUFFICES ASSUME IInv, pc = "walk", Improves,
                      NEW i \in DOMAIN route, NEW j \in DOMAIN route, 1 < i, i < j
               PROVE  Tour(Reverse2(route, i, j), vehicles[v].depot)
                        >= Tour(route, vehicles[v].depot)
    BY DEF NoTriedReversalHelps
  <2> USE DEF IInv
  <2>1. ~Helps(i, j)
    BY DEF RouteInv
  <2>2. Planning /\ route \in Seq(Stop)
    BY DEF Planning, Typed
  <2>3. i <= j
    BY <2>2
  <2>4. /\ Tour(Reverse2(route, i, j), vehicles[v].depot) \in Nat
        /\ Tour(route, vehicles[v].depot) \in Nat
    BY <2>2, <2>3, ReversalReorders, VehicleAtWork, TourIsNat
  <2> QED BY <2>1, <2>4 DEF Helps
<1> QED BY <1>1, Invariant, PTL

\* No vehicle drives and serves for longer on one day than its shift lasts,
\* unless that day has a single stop.
THEOREM ShiftsAreHeld == Spec => []ShiftHolds
<1>1. IInv => ShiftHolds
  BY DEF IInv, DayInv, Fits, ShiftHolds
<1> QED BY <1>1, Invariant, PTL
=============================================================================
