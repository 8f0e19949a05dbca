------------------------- MODULE RoadMovementProofs -------------------------
(***************************************************************************)
(* What RoadMovement keeps for any routes, speeds and times: no vehicle    *)
(* leaves its route or passes a stop, a restart continues where the last   *)
(* packet was, and packets move forward by what can be driven.             *)
(*                                                                         *)
(* Fit says that a state is one a vehicle of this assignment can be in.    *)
(* Ahead(s, u, n) says that u is at most n steps of the integration ahead  *)
(* of s, along the route and its tours.  Both are shown for one step, then *)
(* by induction for what advanceState does in n seconds, then for what is  *)
(* proposed.  RideInv adds what the session knows of its vehicle.          *)
(***************************************************************************)
EXTENDS RoadMovement, FiniteSetTheorems, WellFoundedInduction, TLAPS

-----------------------------------------------------------------------------
(* Induction                                                               *)

\* A set of natural numbers has a least element: the form of induction that can
\* be used here, the library's induction theorems having an operator as parameter.
LEMMA Least ==
    ASSUME NEW T, T \subseteq Nat, T # {}
    PROVE  \E x \in T : \A y \in T : x <= y
<1> DEFINE R == OpToRel(<, Nat)
<1>1. IsWellFoundedOn(R, Nat)
  BY NatLessThanWellFounded
<1>2. \A x, y \in Nat : <<y, x>> \in R <=> y < x
  BY DEF OpToRel
<1> HIDE DEF R
<1>3. PICK x \in T : \A y \in T : ~(<<y, x>> \in R)
  BY <1>1, WFMin
<1>4. ASSUME NEW y \in T PROVE x <= y
  <2>1. x \in Nat /\ y \in Nat
    OBVIOUS
  <2>2. ~(y < x)
    BY <1>2, <1>3, <2>1
  <2> QED
    BY <2>1, <2>2
<1> QED
  BY <1>4

\* What holds of zero, and of a number when it does of the one before, holds of
\* all of them.
LEMMA FromZero ==
    ASSUME NEW G, 0 \in G, \A n \in Nat : n > 0 /\ n - 1 \in G => n \in G
    PROVE  Nat \subseteq G
<1> SUFFICES ASSUME NEW b \in Nat, b \notin G PROVE FALSE
  OBVIOUS
<1> DEFINE T == Nat \ G
<1>1. PICK n \in T : \A m \in T : n <= m
  <2>1. T # {} /\ T \subseteq Nat
    OBVIOUS
  <2> HIDE DEF T
  <2> QED
    BY <2>1, Least
<1>2. n \in Nat /\ n \notin G
  OBVIOUS
<1>3. n > 0
  BY <1>2
<1>4. n - 1 \in Nat /\ ~(n <= n - 1)
  BY <1>2, <1>3
<1>5. n - 1 \in G
  BY <1>1, <1>4
<1> QED
  BY <1>2, <1>3, <1>5

-----------------------------------------------------------------------------
(* Stops                                                                   *)

Stops == Route.stops
Known == assignment \in [route: Routes, cursor: Starts, moving: BOOLEAN]

\* The route of a vehicle and its numbers.
LEMMA RouteIs ==
    ASSUME Known
    PROVE  /\ Route \in Routes /\ Route.length \in Nat /\ Route.length >= 1
           /\ Route.closed \in BOOLEAN /\ Stops \in Seq(Nat)
           /\ Len(Stops) \in Nat /\ DOMAIN Stops = 1 .. Len(Stops)
           /\ \A i \in 1 .. Len(Stops) : Stops[i] \in Nat /\ 1 <= Stops[i] /\ Stops[i] < Route.length
           /\ \A i \in 1 .. Len(Stops) : i > 1 => Stops[i - 1] < Stops[i]
           /\ assignment.cursor \in Nat /\ assignment.cursor <= Route.length
           /\ assignment.moving \in BOOLEAN
<1>1. Route \in Routes /\ assignment.cursor \in Starts /\ assignment.moving \in BOOLEAN
  BY DEF Known, Route
<1>2. /\ Route.length \in Nat \ {0} /\ Route.closed \in BOOLEAN /\ Stops \in Seq(Nat)
      /\ \A i \in DOMAIN Stops :
            /\ Stops[i] \in 1 .. Route.length - 1
            /\ i > 1 => Stops[i - 1] < Stops[i]
      /\ Starts \subseteq 0 .. Route.length
  BY <1>1, RouteAssumption DEF Stops
<1>3. Len(Stops) \in Nat /\ DOMAIN Stops = 1 .. Len(Stops)
  BY <1>2
<1>4. \A i \in 1 .. Len(Stops) : Stops[i] \in Nat /\ 1 <= Stops[i] /\ Stops[i] < Route.length
  BY <1>2, <1>3
<1>5. assignment.cursor \in Nat /\ assignment.cursor <= Route.length
  <2> DEFINE L == Route.length
             c == assignment.cursor
  <2>1. c \in 0 .. L /\ L \in Nat
    BY <1>1, <1>2
  <2> HIDE DEF L, c
  <2>2. c \in Nat /\ c <= L
    BY <2>1
  <2> QED
    BY <2>2 DEF L, c
<1>6. Route.length \in Nat /\ Route.length >= 1
  BY <1>2
<1>7. \A i \in 1 .. Len(Stops) : i > 1 => Stops[i - 1] < Stops[i]
  BY <1>2, <1>3
<1> QED
  BY <1>1, <1>2, <1>3, <1>4, <1>5, <1>6, <1>7

\* Stops are ordered along the route, not only each and the next.
LEMMA StopsOrdered ==
    ASSUME Known, NEW j \in 1 .. Len(Stops)
    PROVE  \A i \in 1 .. j : Stops[i] <= Stops[j]
<1> DEFINE G == {n \in Nat : n \in 1 .. Len(Stops) => \A i \in 1 .. n : Stops[i] <= Stops[n]}
<1>1. 0 \in G
  OBVIOUS
<1>2. ASSUME NEW n \in Nat, n > 0, n - 1 \in G PROVE n \in G
  <2> SUFFICES ASSUME n \in 1 .. Len(Stops), NEW i \in 1 .. n PROVE Stops[i] <= Stops[n]
    OBVIOUS
  <2>1. Stops[i] \in Nat /\ Stops[n] \in Nat
    BY RouteIs
  <2>2. CASE i = n
    BY <2>1, <2>2
  <2>3. CASE i # n
    <3>1. n - 1 \in 1 .. Len(Stops) /\ i \in 1 .. n - 1
      BY <2>3, RouteIs
    <3>2. Stops[i] <= Stops[n - 1]
      BY <1>2, <3>1
    <3>3. Stops[n - 1] \in Nat /\ Stops[n - 1] < Stops[n]
      BY <3>1, RouteIs
    <3> QED
      BY <2>1, <3>2, <3>3
  <2> QED
    BY <2>2, <2>3
<1>3. j \in Nat
  BY RouteIs
<1> HIDE DEF G
<1>4. j \in G
  BY <1>1, <1>2, <1>3, FromZero
<1> QED
  BY <1>4 DEF G

\* StopsUpTo counts a beginning of the stops.
LEMMA StopsAre ==
    ASSUME Known, NEW c \in Nat
    PROVE  /\ StopsUpTo(c) \in 0 .. Len(Stops)
           /\ \A i \in 1 .. Len(Stops) : Stops[i] <= c <=> i <= StopsUpTo(c)
<1> DEFINE T == {i \in 1 .. Len(Stops) : Stops[i] <= c}
           U == {n \in Nat : \A i \in T : i <= n}
<1>1. StopsUpTo(c) = Cardinality(T)
  BY RouteIs DEF StopsUpTo, Stops
<1>2. PICK k \in U : \A n \in U : k <= n
  <2>1. Len(Stops) \in U
    BY RouteIs
  <2>2. U \subseteq Nat
    OBVIOUS
  <2> HIDE DEF U
  <2> QED
    BY <2>1, <2>2, Least
<1>3. k \in Nat /\ \A i \in T : i <= k
  OBVIOUS
<1>4. k \in 0 .. Len(Stops)
  <2>1. Len(Stops) \in U /\ Len(Stops) \in Nat
    BY RouteIs
  <2> HIDE DEF U
  <2>2. k <= Len(Stops)
    BY <1>2, <2>1
  <2> QED
    BY <1>3, <2>1, <2>2
<1>5. k # 0 => k \in T
  <2> SUFFICES ASSUME k # 0, k \notin T PROVE FALSE
    OBVIOUS
  <2>1. \A i \in T : i \in Nat /\ i <= k /\ i # k
    BY <1>3
  <2>2. k - 1 \in Nat /\ ~(k <= k - 1)
    BY <1>3
  <2>3. \A i \in T : i <= k - 1
    BY <1>3, <2>1
  <2>4. k - 1 \in U
    BY <2>2, <2>3
  <2> QED
    BY <1>2, <2>2, <2>4
<1>6. T = 1 .. k
  <2>1. ASSUME NEW i \in 1 .. k PROVE i \in T
    <3>1. k \in 1 .. Len(Stops) /\ Stops[k] <= c
      BY <1>3, <1>5
    <3>2. Stops[i] <= Stops[k]
      BY <3>1, StopsOrdered
    <3>3. i \in 1 .. Len(Stops)
      BY <3>1, RouteIs
    <3>4. Stops[i] \in Nat /\ Stops[k] \in Nat
      BY <3>1, <3>3, RouteIs
    <3> QED
      BY <3>1, <3>2, <3>3, <3>4
  <2>2. T \subseteq 1 .. k
    BY <1>3
  <2> HIDE DEF T
  <2> QED
    BY <2>1, <2>2
<1>7. Cardinality(T) = k
  <2>1. Cardinality(1 .. k) = k
    BY <1>3, FS_Interval
  <2> HIDE DEF T
  <2> QED
    BY <1>6, <2>1
<1>8. \A i \in 1 .. Len(Stops) : Stops[i] <= c <=> i <= k
  <2>1. ASSUME NEW i \in 1 .. Len(Stops) PROVE Stops[i] <= c <=> i \in T
    OBVIOUS
  <2>2. ASSUME NEW i \in 1 .. Len(Stops) PROVE i \in T <=> i <= k
    <3> HIDE DEF T
    <3> QED
      BY <1>3, <1>6
  <2> QED
    BY <2>1, <2>2
<1> QED
  BY <1>1, <1>4, <1>7, <1>8

\* The stop that is behind and the one that is ahead say how many are behind.
LEMMA StopsBetween ==
    ASSUME Known, NEW c \in Nat, NEW n \in 0 .. Len(Stops),
           n > 0 => Stops[n] <= c, n < Len(Stops) => c < Stops[n + 1]
    PROVE  StopsUpTo(c) = n
<1> DEFINE m == StopsUpTo(c)
<1>1. m \in 0 .. Len(Stops) /\ \A i \in 1 .. Len(Stops) : Stops[i] <= c <=> i <= m
  BY StopsAre
<1> HIDE DEF m
<1>2. n \in Nat /\ Len(Stops) \in Nat
  BY RouteIs
<1>3. n <= m
  BY <1>1, <1>2
<1>4. m <= n
  <2> SUFFICES ASSUME n < m PROVE FALSE
    BY <1>1, <1>2
  <2>1. n + 1 \in 1 .. Len(Stops) /\ n + 1 <= m
    BY <1>1, <1>2
  <2>2. Stops[n + 1] <= c /\ c < Stops[n + 1] /\ Stops[n + 1] \in Nat
    BY <1>1, <1>2, <2>1, RouteIs
  <2> QED
    BY <2>2
<1> QED
  BY <1>1, <1>2, <1>3, <1>4 DEF m

-----------------------------------------------------------------------------
(* One step of the integration                                             *)

\* A state a vehicle of this assignment can be in.
Fit(s) ==
    /\ s \in State
    /\ s.cursor <= Route.length
    /\ s.stop = StopsUpTo(s.cursor)
    /\ s.dwell <= DwellTime
    /\ s.phase = "dwelling" => s.stop > 0 /\ s.cursor = Stops[s.stop]
    /\ s.phase # "moving" => s.speed = 0
    /\ Route.closed => s.phase # "terminal"
    /\ ~Route.closed => s.tours = 0
    /\ assignment.moving <=> s.phase # "parked"

\* The way a vehicle has made, and one state at most n steps ahead of another.
Along(s) == s.tours * Route.length + s.cursor
Reach(n) == 2 * TopSpeed * n
Ahead(s, u, n) ==
    /\ Along(s) <= Along(u) /\ Along(u) <= Along(s) + Reach(n)
    /\ n > 0 /\ u.speed > 0 => Along(s) < Along(u)
    /\ u.wall = s.wall

\* The constants, one by one.
LEMMA Numbers ==
    /\ TopSpeed \in Nat /\ TopSpeed >= 1 /\ Acceleration \in Nat /\ Acceleration >= 1
    /\ Braking \in Nat /\ Braking >= 1 /\ MaxStep \in Nat /\ MaxStep >= 1
    /\ DwellTime \in Nat /\ DwellTime >= 1 /\ MaxWall \in Nat /\ MaxWall >= 1
    /\ None \notin Nat /\ None \notin State
  BY SpeedAssumption, NoneAssumption

Speeds == 0 .. TopSpeed

\* The record of a state, the set of its speeds by name.
LEMMA StateIs ==
    /\ State = [cursor: Nat, tours: Nat, phase: Phases, speed: Speeds,
                wall: Nat, position: Nat, stop: Nat, dwell: Nat]
    /\ 0 \in Speeds /\ \A n \in Nat : n <= TopSpeed => n \in Speeds
    /\ {"moving", "dwelling", "parked", "terminal"} \subseteq Phases
  BY Numbers DEF State, Speeds, Phases

\* The fields of a state.
LEMMA StateFields ==
    ASSUME NEW s \in State
    PROVE  /\ s.cursor \in Nat /\ s.tours \in Nat /\ s.phase \in Phases
           /\ s.speed \in Nat /\ s.speed <= TopSpeed
           /\ s.wall \in Nat /\ s.position \in Nat /\ s.stop \in Nat /\ s.dwell \in Nat
  BY Numbers DEF State

\* A state of a vehicle, field by field.
LEMMA FitIs ==
    ASSUME Known, NEW s, Fit(s)
    PROVE  /\ s \in State /\ s.cursor \in Nat /\ s.tours \in Nat /\ s.phase \in Phases
           /\ s.speed \in Nat /\ s.speed <= TopSpeed /\ s.wall \in Nat
           /\ s.stop \in 0 .. Len(Stops) /\ s.stop \in Nat /\ s.dwell \in Nat
           /\ s.stop > 0 => Stops[s.stop] <= s.cursor
           /\ s.stop < Len(Stops) => s.cursor < Stops[s.stop + 1]
           /\ Along(s) \in Nat
<1>1. s \in State /\ s.stop = StopsUpTo(s.cursor)
  BY DEF Fit
<1>2. /\ s.cursor \in Nat /\ s.tours \in Nat /\ s.phase \in Phases
      /\ s.speed \in Nat /\ s.speed <= TopSpeed /\ s.wall \in Nat /\ s.stop \in Nat /\ s.dwell \in Nat
  BY <1>1, StateFields
<1>3. s.stop \in 0 .. Len(Stops) /\ \A i \in 1 .. Len(Stops) : Stops[i] <= s.cursor <=> i <= s.stop
  BY <1>1, <1>2, StopsAre
<1>4. s.stop > 0 => Stops[s.stop] <= s.cursor
  <2>1. s.stop > 0 => s.stop \in 1 .. Len(Stops)
    BY <1>3, RouteIs
  <2> QED
    BY <1>2, <1>3, <2>1
<1>5. s.stop < Len(Stops) => s.cursor < Stops[s.stop + 1]
  <2> SUFFICES ASSUME s.stop < Len(Stops) PROVE s.cursor < Stops[s.stop + 1]
    OBVIOUS
  <2>1. s.stop + 1 \in 1 .. Len(Stops) /\ ~(s.stop + 1 <= s.stop)
    <3>1. Len(Stops) \in Nat /\ s.stop \in Nat
      BY <1>2, RouteIs
    <3> QED
      BY <3>1
  <2>2. Stops[s.stop + 1] \in Nat /\ ~(Stops[s.stop + 1] <= s.cursor)
    BY <1>3, <2>1, RouteIs
  <2> QED
    BY <1>2, <2>2
<1>6. Along(s) \in Nat
  <2>1. s.tours * Route.length \in Nat
    BY <1>2, RouteIs
  <2> QED
    BY <1>2, <2>1 DEF Along
<1> QED
  BY <1>1, <1>2, <1>3, <1>4, <1>5, <1>6

\* A vehicle that aims at some speed does not stand still.
LEMMA SpeedAfterIs ==
    ASSUME NEW speed \in Nat, speed <= TopSpeed, NEW target \in 1 .. TopSpeed
    PROVE  /\ SpeedAfter(speed, target) \in Nat /\ SpeedAfter(speed, target) <= TopSpeed
           /\ speed + SpeedAfter(speed, target) >= 1
<1> DEFINE d == Clamp(target - speed, -Braking, Acceleration)
<1>1. target \in Nat /\ target >= 1 /\ target <= TopSpeed
  BY Numbers
<1>2. /\ d \in Int /\ speed + d <= TopSpeed
      /\ speed = 0 => d >= 1
  BY <1>1, Numbers DEF Clamp, Larger, Smaller
<1>3. SpeedAfter(speed, target) = IF 0 > speed + d THEN 0 ELSE speed + d
  BY DEF SpeedAfter, Larger
<1> HIDE DEF d
<1> QED
  BY <1>1, <1>2, <1>3, Numbers

\* Tours count their length.
LEMMA Tour ==
    ASSUME NEW a \in Nat, NEW b \in Nat
    PROVE  (a + 1) * b = a * b + b
  OBVIOUS

\* Travelling ends at a stop, at the end of the route, or on the way.
LEMMA TravelFit ==
    ASSUME Known, NEW s, Fit(s), s.phase = "moving", NEW speed \in Nat, speed <= TopSpeed,
           s.speed + speed >= 1, NEW u, u = Travel(s, speed)
    PROVE  Fit(u) /\ Ahead(s, u, 1)
<1> DEFINE way == s.speed + speed
           toEnd == Route.length - s.cursor
           L == Route.length
<1>1. /\ s \in State /\ s.cursor \in Nat /\ s.tours \in Nat
      /\ s.speed \in Nat /\ s.speed <= TopSpeed /\ s.wall \in Nat
      /\ s.stop \in 0 .. Len(Stops) /\ s.stop \in Nat /\ s.dwell \in Nat
      /\ s.stop > 0 => Stops[s.stop] <= s.cursor
      /\ s.stop < Len(Stops) => s.cursor < Stops[s.stop + 1]
      /\ Along(s) \in Nat
  BY FitIs
<1>2. /\ s.cursor <= L /\ s.dwell <= DwellTime
      /\ ~Route.closed => s.tours = 0
      /\ assignment.moving
  BY DEF Fit
<1>3. /\ L \in Nat /\ L >= 1 /\ Len(Stops) \in Nat
      /\ \A i \in 1 .. Len(Stops) : Stops[i] \in Nat /\ 1 <= Stops[i] /\ Stops[i] < L
      /\ \A i \in 1 .. Len(Stops) : i > 1 => Stops[i - 1] < Stops[i]
  BY RouteIs
<1>4. way \in Nat /\ way >= 1 /\ way <= Reach(1) /\ Reach(1) \in Nat
  BY <1>1, Numbers DEF Reach
<1>5. NextStop(s) # None => s.stop < Len(Stops) /\ NextStop(s) = Stops[s.stop + 1]
  BY DEF NextStop, Stops
<1>6. s.stop < Len(Stops) => NextStop(s) # None /\ NextStop(s) = Stops[s.stop + 1]
  <2> SUFFICES ASSUME s.stop < Len(Stops) PROVE NextStop(s) # None /\ NextStop(s) = Stops[s.stop + 1]
    OBVIOUS
  <2>1. s.stop + 1 \in 1 .. Len(Stops)
    BY <1>1, <1>3
  <2>2. Stops[s.stop + 1] \in Nat
    BY <1>3, <2>1
  <2> QED
    BY <2>2, Numbers DEF NextStop, Stops
<1>7. u = IF NextStop(s) # None /\ NextStop(s) - s.cursor <= way /\ NextStop(s) - s.cursor <= toEnd
          THEN AtStop(s)
          ELSE IF toEnd <= way THEN AtEnd(s)
          ELSE [s EXCEPT !.cursor = s.cursor + way, !.speed = speed]
  BY DEF Travel
<1>8. s.phase \in Phases /\ "dwelling" \in Phases /\ "terminal" \in Phases /\ "moving" \in Phases
  BY DEF Phases, Fit
<1>9. /\ s.cursor \in Nat /\ way \in Nat /\ L \in Nat /\ way >= 1 /\ way <= Reach(1)
      /\ Reach(1) \in Nat /\ toEnd \in Nat /\ s.cursor + toEnd = L
  <2>1. L \in Nat /\ s.cursor \in Nat /\ s.cursor <= L
    BY <1>1, <1>2, <1>3
  <2> HIDE DEF L
  <2>2. toEnd = L - s.cursor
    BY DEF L
  <2> HIDE DEF toEnd
  <2>3. toEnd \in Nat /\ s.cursor + toEnd = L
    BY <2>1, <2>2
  <2> QED
    BY <1>4, <2>1, <2>3
<1>10. s.stop \in Nat /\ Len(Stops) \in Nat /\ s.stop <= Len(Stops)
  BY <1>1, <1>3
<1>11. s.tours * L \in Nat
  <2>1. s.tours \in Nat /\ L \in Nat
    BY <1>1, <1>3
  <2> HIDE DEF L
  <2> QED
    BY <2>1
<1> HIDE DEF way, toEnd, L
<1>12. CASE NextStop(s) # None /\ NextStop(s) - s.cursor <= way /\ NextStop(s) - s.cursor <= toEnd
  <2> DEFINE k == s.stop + 1
             c == Stops[k]
  <2>1. k \in 1 .. Len(Stops) /\ k \in Nat /\ NextStop(s) = c
    <3>1. s.stop < Len(Stops) /\ NextStop(s) = c
      BY <1>5, <1>12
    <3> QED
      BY <1>10, <3>1
  <2>2. c \in Nat /\ 1 <= c /\ c < L /\ s.cursor < c /\ c <= s.cursor + way
    <3>1. c \in Nat /\ 1 <= c /\ c < L
      BY <1>3, <2>1
    <3>2. s.cursor < c
      BY <1>1, <1>5, <1>12, <2>1
    <3>3. c - s.cursor <= way
      BY <1>12, <2>1
    <3> HIDE DEF c, k
    <3> QED
      BY <1>9, <3>1, <3>2, <3>3
  <2>3. u = [s EXCEPT !.cursor = c, !.speed = 0, !.phase = "dwelling", !.dwell = DwellTime, !.stop = k]
    BY <1>7, <1>12, <2>1 DEF AtStop
  <2>4. StopsUpTo(c) = k
    <3>1. k < Len(Stops) => c < Stops[k + 1]
      <4> SUFFICES ASSUME k < Len(Stops) PROVE c < Stops[k + 1]
        OBVIOUS
      <4>1. k + 1 \in 1 .. Len(Stops) /\ k + 1 > 1 /\ (k + 1) - 1 = k
        BY <1>3, <2>1
      <4> QED
        BY <1>3, <4>1
    <3>2. k \in 0 .. Len(Stops)
      BY <2>1
    <3>3. c <= c
      BY <2>2
    <3> QED
      BY <2>2, <3>1, <3>2, <3>3, StopsBetween
  <2> HIDE DEF c, k
  <2>5. /\ u \in State /\ u.cursor = c /\ u.speed = 0 /\ u.phase = "dwelling" /\ u.dwell = DwellTime
        /\ u.stop = k /\ u.tours = s.tours /\ u.wall = s.wall
    <3>1. u \in State
      <4>1. \A x, y, z \in Nat :
                [s EXCEPT !.cursor = x, !.speed = 0, !.phase = "dwelling", !.dwell = y, !.stop = z]
                    \in State
        BY <1>1, <1>8, StateIs
      <4>2. DwellTime \in Nat
        BY Numbers
      <4>3. [s EXCEPT !.cursor = c, !.speed = 0, !.phase = "dwelling", !.dwell = DwellTime, !.stop = k]
                \in State
        BY <2>1, <2>2, <4>1, <4>2
      <4> QED
        BY <2>3, <4>3
    <3> QED
      BY <1>1, <2>3, <3>1, StateIs
  <2>6. Fit(u)
    <3>1. k > 0 /\ c = Stops[k]
      BY <2>1 DEF c
    <3>2. u.stop > 0 /\ u.cursor = Stops[u.stop]
      BY <2>5, <3>1
    <3>3. u.cursor <= L /\ u.stop = StopsUpTo(u.cursor) /\ u.dwell <= DwellTime
      BY <1>3, <2>2, <2>4, <2>5, Numbers
    <3> QED
      BY <1>2, <2>5, <3>2, <3>3 DEF Fit, L
  <2>7. Along(u) = s.tours * L + c /\ Along(s) = s.tours * L + s.cursor
    BY <2>5 DEF Along, L
  <2>8. s.tours * L \in Nat
    BY <1>11
  <2>9. Along(s) <= Along(u) /\ Along(u) <= Along(s) + Reach(1)
    <3> DEFINE t == s.tours * L
    <3> HIDE DEF t
    <3>1. t \in Nat /\ Along(u) = t + c /\ Along(s) = t + s.cursor
      BY <2>7, <2>8 DEF t
    <3>2. t + s.cursor <= t + c /\ t + c <= t + s.cursor + Reach(1)
      BY <1>9, <2>2, <3>1
    <3> QED
      BY <3>1, <3>2
  <2> QED
    BY <2>5, <2>6, <2>9 DEF Ahead
<1>13. CASE /\ ~(NextStop(s) # None /\ NextStop(s) - s.cursor <= way /\ NextStop(s) - s.cursor <= toEnd)
            /\ toEnd <= way
  <2>1. u = AtEnd(s)
    BY <1>7, <1>13
  <2>2. s.stop = Len(Stops)
    <3> SUFFICES ASSUME s.stop # Len(Stops) PROVE FALSE
      OBVIOUS
    <3>1. s.stop < Len(Stops) /\ s.stop + 1 \in 1 .. Len(Stops)
      BY <1>1, <1>3
    <3>2. NextStop(s) # None /\ NextStop(s) \in Nat /\ NextStop(s) < L
      BY <1>3, <1>6, <3>1
    <3>3. NextStop(s) - s.cursor <= toEnd /\ NextStop(s) - s.cursor <= way
      <4> DEFINE x == NextStop(s)
      <4>1. x \in Nat /\ x < L /\ toEnd <= way
        BY <1>13, <3>2
      <4> HIDE DEF x
      <4>2. x - s.cursor <= toEnd /\ x - s.cursor <= way
        BY <1>9, <4>1
      <4> QED
        BY <4>2 DEF x
    <3> QED
      BY <1>13, <3>2, <3>3
  <2>3. toEnd \in Nat /\ s.cursor + toEnd = L /\ toEnd <= Reach(1)
    <3>1. toEnd <= way
      BY <1>13
    <3> QED
      BY <1>9, <3>1
  <2>4. CASE Route.closed
    <3>1. u = [s EXCEPT !.cursor = 0, !.speed = 0, !.tours = s.tours + 1, !.stop = 0]
      BY <2>1, <2>4 DEF AtEnd
    <3>2. /\ u \in State /\ u.cursor = 0 /\ u.speed = 0 /\ u.tours = s.tours + 1 /\ u.stop = 0
          /\ u.phase = "moving" /\ u.dwell = s.dwell /\ u.wall = s.wall
      <4> DEFINE t == s.tours + 1
      <4>1. t \in Nat /\ u = [s EXCEPT !.cursor = 0, !.speed = 0, !.tours = t, !.stop = 0]
        BY <1>1, <3>1
      <4> HIDE DEF t
      <4>2. u \in State
        <5>1. \A x, y \in Nat : [s EXCEPT !.cursor = x, !.speed = 0, !.tours = t, !.stop = y] \in State
          BY <1>1, <4>1, StateIs
        <5>2. [s EXCEPT !.cursor = 0, !.speed = 0, !.tours = t, !.stop = 0] \in State
          BY <5>1
        <5> QED
          BY <4>1, <5>2
      <4>3. /\ u.cursor = 0 /\ u.speed = 0 /\ u.tours = t /\ u.stop = 0
            /\ u.phase = s.phase /\ u.dwell = s.dwell /\ u.wall = s.wall
        BY <1>1, <4>1, StateIs
      <4> QED
        BY <4>2, <4>3 DEF t
    <3>3. StopsUpTo(0) = 0
      <4>1. 0 < Len(Stops) => 0 < Stops[0 + 1]
        BY <1>3
      <4>2. 0 \in 0 .. Len(Stops)
        BY <1>3
      <4> QED
        BY <4>1, <4>2, StopsBetween
    <3>4. Fit(u)
      BY <1>2, <1>3, <2>4, <3>2, <3>3 DEF Fit, L
    <3>5. Along(u) = (s.tours + 1) * L + 0 /\ Along(s) = s.tours * L + s.cursor
      BY <3>2 DEF Along, L
    <3>6. (s.tours + 1) * L = s.tours * L + L /\ s.tours * L \in Nat
      BY <1>1, <1>9, <1>11, Tour
    <3>7. Along(s) <= Along(u) /\ Along(u) <= Along(s) + Reach(1)
      <4> DEFINE t == s.tours * L
      <4>1. t \in Nat /\ Along(u) = t + L + 0 /\ Along(s) = t + s.cursor
        BY <3>5, <3>6
      <4> HIDE DEF t
      <4>2. t + s.cursor <= t + L + 0 /\ t + L + 0 <= t + s.cursor + Reach(1)
        BY <1>9, <2>3, <4>1
      <4> QED
        BY <4>1, <4>2
    <3> QED
      BY <3>2, <3>4, <3>7 DEF Ahead
  <2>5. CASE ~Route.closed
    <3>1. u = [s EXCEPT !.cursor = L, !.speed = 0, !.phase = "terminal"]
      BY <2>1, <2>5 DEF AtEnd, L
    <3>2. /\ u \in State /\ u.cursor = L /\ u.speed = 0 /\ u.tours = s.tours /\ u.stop = s.stop
          /\ u.phase = "terminal" /\ u.dwell = s.dwell /\ u.wall = s.wall
      <4>1. u \in State
        BY <1>1, <1>3, <3>1, StateIs
      <4> QED
        BY <1>1, <3>1, <4>1, StateIs
    <3>3. StopsUpTo(L) = s.stop
      <4>1. s.stop > 0 => Stops[s.stop] <= L
        BY <1>1, <1>2, <1>3
      <4>2. ~(s.stop < Len(Stops))
        BY <1>3, <2>2
      <4> QED
        BY <1>1, <1>3, <4>1, <4>2, StopsBetween
    <3>4. Fit(u)
      BY <1>2, <1>3, <2>5, <3>2, <3>3 DEF Fit, L
    <3>5. Along(u) = s.tours * L + L /\ Along(s) = s.tours * L + s.cursor /\ s.tours * L \in Nat
      BY <1>11, <3>2 DEF Along, L
    <3>6. Along(s) <= Along(u) /\ Along(u) <= Along(s) + Reach(1)
      <4> DEFINE t == s.tours * L
      <4>1. t \in Nat /\ Along(u) = t + L /\ Along(s) = t + s.cursor
        BY <3>5
      <4> HIDE DEF t
      <4>2. t + s.cursor <= t + L /\ t + L <= t + s.cursor + Reach(1)
        BY <1>9, <2>3, <4>1
      <4> QED
        BY <4>1, <4>2
    <3> QED
      BY <3>2, <3>4, <3>6 DEF Ahead
  <2> QED
    BY <2>4, <2>5, RouteIs
<1>14. CASE /\ ~(NextStop(s) # None /\ NextStop(s) - s.cursor <= way /\ NextStop(s) - s.cursor <= toEnd)
            /\ ~(toEnd <= way)
  <2> DEFINE c == s.cursor + way
  <2>1. u = [s EXCEPT !.cursor = c, !.speed = speed]
    BY <1>7, <1>14
  <2>2. c \in Nat /\ c < L /\ s.cursor < c
    <3>1. ~(toEnd <= way)
      BY <1>14
    <3> QED
      BY <1>9, <3>1
  <2>3. StopsUpTo(c) = s.stop
    <3>1. s.stop > 0 => Stops[s.stop] <= c
      BY <1>1, <1>3, <2>2
    <3>2. s.stop < Len(Stops) => c < Stops[s.stop + 1]
      <4> SUFFICES ASSUME s.stop < Len(Stops) PROVE c < Stops[s.stop + 1]
        OBVIOUS
      <4> DEFINE x == Stops[s.stop + 1]
      <4>1. s.stop + 1 \in 1 .. Len(Stops)
        BY <1>1, <1>3
      <4>2. NextStop(s) # None /\ NextStop(s) = x /\ x \in Nat /\ x < L
        BY <1>3, <1>6, <4>1
      <4> HIDE DEF x
      <4>3. ~(x - s.cursor <= way) \/ ~(x - s.cursor <= toEnd)
        BY <1>14, <4>2
      <4>4. ~(toEnd <= way)
        BY <1>14
      <4>5. c < x
        BY <1>9, <4>2, <4>3, <4>4
      <4> QED
        BY <4>5 DEF x
    <3> QED
      BY <1>1, <2>2, <3>1, <3>2, StopsBetween
  <2>4. c <= s.cursor + Reach(1)
    BY <1>1, <1>4
  <2> HIDE DEF c
  <2>5. /\ u \in State /\ u.cursor = c /\ u.speed = speed /\ u.tours = s.tours /\ u.stop = s.stop
        /\ u.phase = "moving" /\ u.dwell = s.dwell /\ u.wall = s.wall
    <3>1. u \in State
      <4>1. \A x, y \in Nat : y <= TopSpeed => [s EXCEPT !.cursor = x, !.speed = y] \in State
        BY <1>1, StateIs
      <4>2. [s EXCEPT !.cursor = c, !.speed = speed] \in State
        BY <2>2, <4>1
      <4> QED
        BY <2>1, <4>2
    <3> QED
      BY <1>1, <2>1, <3>1, StateIs
  <2>6. Fit(u)
    BY <1>2, <1>3, <2>2, <2>3, <2>5 DEF Fit, L
  <2>7. Along(u) = s.tours * L + c /\ Along(s) = s.tours * L + s.cursor /\ s.tours * L \in Nat
    BY <1>1, <1>3, <2>5 DEF Along, L
  <2>8. Along(s) < Along(u) /\ Along(s) <= Along(u) /\ Along(u) <= Along(s) + Reach(1)
    <3> DEFINE t == s.tours * L
               x == s.cursor
               r == Reach(1)
    <3>1. /\ t \in Nat /\ x \in Nat /\ r \in Nat /\ Along(u) = t + c /\ Along(s) = t + x
          /\ c \in Nat /\ x < c /\ c <= x + r
      BY <1>1, <1>4, <2>2, <2>4, <2>7
    <3> HIDE DEF t, x, r
    <3>2. Along(s) < Along(u) /\ Along(s) <= Along(u) /\ Along(u) <= Along(s) + r
      BY <3>1
    <3> QED
      BY <3>2 DEF r
  <2> QED
    BY <2>5, <2>6, <2>8 DEF Ahead
<1> QED
  BY <1>12, <1>13, <1>14

\* Any step keeps a vehicle fit, and takes it ahead.
LEMMA StepFit ==
    ASSUME Known, NEW s, Fit(s), NEW u \in Step(s)
    PROVE  Fit(u) /\ Ahead(s, u, 1)
<1>1. /\ s \in State /\ s.phase \in Phases /\ s.speed \in Nat /\ s.speed <= TopSpeed
      /\ s.dwell \in Nat /\ s.wall \in Nat /\ Along(s) \in Nat
  BY FitIs
<1>2. CASE s.phase = "moving"
  <2>1. PICK target \in 1 .. TopSpeed : u = Travel(s, SpeedAfter(s.speed, target))
    BY <1>2 DEF Step
  <2> DEFINE speed == SpeedAfter(s.speed, target)
  <2>2. speed \in Nat /\ speed <= TopSpeed /\ s.speed + speed >= 1
    BY <1>1, SpeedAfterIs
  <2>3. u = Travel(s, speed)
    BY <2>1
  <2> HIDE DEF speed
  <2> QED
    BY <1>2, <2>2, <2>3, TravelFit
<1>3. CASE s.phase = "dwelling"
  <2> DEFINE d == Larger(0, s.dwell - 1)
             p == IF s.dwell <= 1 THEN "moving" ELSE "dwelling"
  <2>1. u = [s EXCEPT !.dwell = d, !.speed = 0, !.phase = p]
    BY <1>3 DEF Step, Dwell
  <2>2. d \in Nat /\ d <= s.dwell
    BY <1>1 DEF Larger
  <2>3. p \in {"moving", "dwelling"} /\ p \in Phases
    BY DEF Phases
  <2> HIDE DEF d, p
  <2>4. /\ u \in State /\ u.dwell = d /\ u.speed = 0 /\ u.phase = p
        /\ u.cursor = s.cursor /\ u.tours = s.tours /\ u.stop = s.stop /\ u.wall = s.wall
    <3>1. u \in State
      BY <1>1, <2>1, <2>2, <2>3, StateIs
    <3> QED
      BY <1>1, <2>1, <3>1, StateIs
  <2>5. Fit(u)
    BY <1>1, <1>3, <2>2, <2>3, <2>4, Numbers DEF Fit
  <2>6. Along(u) = Along(s)
    BY <2>4 DEF Along
  <2>7. Ahead(s, u, 1)
    BY <1>1, <2>4, <2>6, Numbers DEF Ahead, Reach
  <2> QED
    BY <2>5, <2>7
<1>4. CASE s.phase \notin {"moving", "dwelling"}
  <2>1. u = s
    BY <1>4 DEF Step
  <2>2. s.speed = 0
    BY <1>4 DEF Fit
  <2> QED
    BY <1>1, <2>1, <2>2, Numbers DEF Ahead, Reach
<1> QED
  BY <1>2, <1>3, <1>4

-----------------------------------------------------------------------------
(* The states advanceState can reach                                       *)

\* What advanceState reaches in n steps, and the function that says so for all
\* numbers of steps, as in Advanced.
IsAfter(f, s, n) == f[n] = IF n = 0 THEN {s} ELSE UNION {Step(u) : u \in f[n - 1]}
Times == 0 .. MaxStep + 1
After(s) ==
    CHOOSE f : f = [n \in Times |-> IF n = 0 THEN {s} ELSE UNION {Step(u) : u \in f[n - 1]}]

\* The function can be written down for up to m steps.
LEMMA AfterUpTo ==
    ASSUME NEW s, NEW m \in Nat
    PROVE  \E f : f = [n \in Times |-> f[n]] /\ \A n \in Times : n <= m => IsAfter(f, s, n)
<1> DEFINE G == {k \in Nat : \E f : /\ f = [n \in Times |-> f[n]]
                                    /\ \A n \in Times : n <= k => IsAfter(f, s, n)}
<1>1. 0 \in G
  <2> DEFINE f == [n \in Times |-> {s}]
  <2>1. f = [n \in Times |-> f[n]]
    OBVIOUS
  <2>2. \A n \in Times : n <= 0 => n = 0
    BY Numbers DEF Times
  <2>3. \A n \in Times : n <= 0 => IsAfter(f, s, n)
    BY <2>2 DEF IsAfter
  <2> HIDE DEF f
  <2> QED
    BY <2>1, <2>3
<1>2. ASSUME NEW k \in Nat, k > 0, k - 1 \in G PROVE k \in G
  <2>1. PICK g : g = [n \in Times |-> g[n]] /\ \A n \in Times : n <= k - 1 => IsAfter(g, s, n)
    BY <1>2
  <2> DEFINE f == [n \in Times |-> IF n = 0 THEN {s} ELSE UNION {Step(u) : u \in g[n - 1]}]
  <2>2. f = [n \in Times |-> f[n]]
    OBVIOUS
  <2>3. ASSUME NEW n \in Times, n <= k - 1 PROVE f[n] = g[n]
    BY <2>1, <2>3 DEF IsAfter
  <2>4. ASSUME NEW n \in Times, n <= k PROVE IsAfter(f, s, n)
    <3>1. n \in Nat
      BY Numbers DEF Times
    <3>2. CASE n = 0
      BY <3>2 DEF IsAfter
    <3>3. CASE n # 0
      <4>1. n - 1 \in Times /\ n - 1 <= k - 1
        BY <2>4, <3>1, <3>3, Numbers DEF Times
      <4>2. f[n - 1] = g[n - 1]
        BY <2>3, <4>1
      <4>3. f[n] = UNION {Step(u) : u \in g[n - 1]}
        BY <3>3
      <4> HIDE DEF f
      <4> QED
        BY <3>3, <4>2, <4>3 DEF IsAfter
    <3> QED
      BY <3>2, <3>3
  <2> HIDE DEF f
  <2> QED
    BY <2>2, <2>4
<1> HIDE DEF G
<1>3. m \in G
  BY <1>1, <1>2, FromZero
<1> QED
  BY <1>3 DEF G

\* Advanced is that function.
LEMMA AdvancedIs ==
    ASSUME NEW s
    PROVE  /\ \A n \in Times : IsAfter(After(s), s, n)
           /\ \A n : Advanced(s, n) = After(s)[n]
<1>1. PICK f : f = [n \in Times |-> f[n]] /\ \A n \in Times : n <= MaxStep + 1 => IsAfter(f, s, n)
  <2>1. MaxStep + 1 \in Nat
    BY Numbers
  <2> QED
    BY <2>1, AfterUpTo
<1>2. \A n \in Times : IsAfter(f, s, n)
  BY <1>1, Numbers DEF Times
<1>3. f = [n \in Times |-> IF n = 0 THEN {s} ELSE UNION {Step(u) : u \in f[n - 1]}]
  BY <1>1, <1>2 DEF IsAfter
<1>4. After(s) = [n \in Times |-> IF n = 0 THEN {s} ELSE UNION {Step(u) : u \in After(s)[n - 1]}]
  BY <1>3 DEF After
<1> DEFINE a == After(s)
<1>5. a = [n \in Times |-> IF n = 0 THEN {s} ELSE UNION {Step(u) : u \in a[n - 1]}]
  BY <1>4
<1>6. \A n : Advanced(s, n) = a[n]
  BY DEF Advanced, After, Times
<1> HIDE DEF a
<1>7. \A n \in Times : IsAfter(a, s, n)
  BY <1>5 DEF IsAfter
<1> QED
  BY <1>6, <1>7 DEF a

\* One step more.
LEMMA AheadOfAhead ==
    ASSUME Known, NEW s, NEW u, NEW w, NEW n \in Nat, n > 0, Fit(s), Fit(u), Fit(w),
           Ahead(s, u, n - 1), Ahead(u, w, 1)
    PROVE  Ahead(s, w, n)
<1>1. Along(s) \in Nat /\ Along(u) \in Nat /\ Along(w) \in Nat
  BY FitIs
<1>2. Reach(n) = Reach(n - 1) + Reach(1) /\ Reach(n - 1) \in Nat /\ Reach(1) \in Nat
  <2> DEFINE t == 2 * TopSpeed
  <2>1. t \in Nat
    BY Numbers
  <2>2. Reach(n) = t * n /\ Reach(n - 1) = t * (n - 1) /\ Reach(1) = t * 1
    BY DEF Reach
  <2> HIDE DEF t
  <2>3. t * n = t * (n - 1) + t /\ t * (n - 1) \in Nat
    BY <2>1
  <2> QED
    BY <2>1, <2>2, <2>3
<1>3. Along(s) <= Along(u) /\ Along(u) <= Along(s) + Reach(n - 1) /\ u.wall = s.wall
  BY DEF Ahead
<1>4. /\ Along(u) <= Along(w) /\ Along(w) <= Along(u) + Reach(1) /\ w.wall = u.wall
      /\ w.speed > 0 => Along(u) < Along(w)
  BY DEF Ahead
<1>5. Along(s) <= Along(w) /\ Along(w) <= Along(s) + Reach(n)
  BY <1>1, <1>2, <1>3, <1>4
<1>6. w.speed > 0 => Along(s) < Along(w)
  BY <1>1, <1>3, <1>4
<1> QED
  BY <1>3, <1>4, <1>5, <1>6 DEF Ahead

\* advanceState keeps a vehicle fit, and takes it ahead by at most what it can
\* drive in the time.
LEMMA AdvancedFit ==
    ASSUME Known, NEW s, Fit(s), NEW n \in Nat, n <= MaxStep, NEW u \in Advanced(s, n)
    PROVE  Fit(u) /\ Ahead(s, u, n) /\ (n = 0 => u = s)
<1> DEFINE a == After(s)
           G == {k \in Nat : k \in Times => \A w \in a[k] : Fit(w) /\ Ahead(s, w, k) /\ (k = 0 => w = s)}
<1>1. (\A k \in Times : IsAfter(a, s, k)) /\ u \in a[n]
  BY AdvancedIs
<1> HIDE DEF a
<1>2. Along(s) \in Nat
  BY FitIs
<1>3. 0 \in G
  <2>1. 0 \in Times => a[0] = {s}
    BY <1>1 DEF IsAfter
  <2>2. Ahead(s, s, 0)
    BY <1>2, Numbers DEF Ahead, Reach
  <2> QED
    BY <2>1, <2>2
<1>4. ASSUME NEW k \in Nat, k > 0, k - 1 \in G PROVE k \in G
  <2> SUFFICES ASSUME k \in Times, NEW w \in a[k] PROVE Fit(w) /\ Ahead(s, w, k) /\ (k = 0 => w = s)
    OBVIOUS
  <2>1. a[k] = UNION {Step(v) : v \in a[k - 1]}
    <3>1. IsAfter(a, s, k) /\ k # 0
      BY <1>1, <1>4
    <3> QED
      BY <3>1 DEF IsAfter
  <2>2. PICK v \in a[k - 1] : w \in Step(v)
    BY <2>1
  <2>3. k - 1 \in Times
    BY <1>4, Numbers DEF Times
  <2>4. Fit(v) /\ Ahead(s, v, k - 1)
    BY <1>4, <2>2, <2>3
  <2>5. Fit(w) /\ Ahead(v, w, 1)
    BY <2>2, <2>4, StepFit
  <2>6. Ahead(s, w, k)
    BY <1>4, <2>4, <2>5, AheadOfAhead
  <2> QED
    BY <1>4, <2>5, <2>6
<1> HIDE DEF G
<1>5. n \in G
  BY <1>3, <1>4, FromZero
<1>6. n \in Times
  BY Numbers DEF Times
<1> QED
  BY <1>1, <1>5, <1>6 DEF G

-----------------------------------------------------------------------------
(* What is proposed                                                        *)

Sinces == Nat \cup {None}
Pendings == State \cup {None}

\* The record of a vehicle, the sets of its values by name.
LEMMA VehicleIs ==
    /\ Vehicle = [state: State, available: BOOLEAN, since: Sinces, pending: Pendings]
    /\ None \in Sinces /\ None \in Pendings /\ Nat \subseteq Sinces /\ State \subseteq Pendings
  BY DEF Vehicle, Sinces, Pendings

\* A vehicle that has been stopped where it is.
Slowed(s) == [s EXCEPT !.speed = 0]

LEMMA SlowedFit ==
    ASSUME Known, NEW s, Fit(s), NEW u, u = Slowed(s)
    PROVE  /\ Fit(u) /\ u.speed = 0 /\ u.cursor = s.cursor /\ u.tours = s.tours /\ u.wall = s.wall
<1>1. s \in State
  BY FitIs
<1>2. u \in State
  BY <1>1, StateIs DEF Slowed
<1>3. /\ u.speed = 0 /\ u.cursor = s.cursor /\ u.tours = s.tours /\ u.wall = s.wall
      /\ u.phase = s.phase /\ u.stop = s.stop /\ u.dwell = s.dwell
  BY <1>1, StateIs DEF Slowed
<1>4. Fit(u)
  BY <1>2, <1>3 DEF Fit
<1> QED
  BY <1>3, <1>4

\* A state of which a vehicle in s may send a packet, n steps later.
Onward(s, p, n) ==
    /\ Along(s) <= Along(p) /\ Along(p) <= Along(s) + Reach(n)
    /\ p.speed > 0 => Along(s) < Along(p)
    /\ s.wall < p.wall

\* A vehicle that may propose a point, and moves only if time has passed.
Ready(v) ==
    /\ v \in Vehicle /\ Fit(v.state) /\ v.pending = None /\ v.available
    /\ Elapsed(v) > 0 \/ v.state.speed = 0

\* A vehicle is moved by no more than the longest time.
LEMMA ElapsedIs ==
    ASSUME NEW v \in Vehicle
    PROVE  /\ Elapsed(v) \in Nat /\ Elapsed(v) <= MaxStep
           /\ v.since \in Nat => Elapsed(v) <= v.since
           /\ v.available /\ v.since \in Nat /\ v.since > 0 => Elapsed(v) > 0
<1>1. v.since \in Nat \/ v.since = None
  BY DEF Vehicle
<1>2. v.since \in Nat => v.since # None
  BY Numbers
<1>3. CASE v.available /\ v.since # None
  <2>1. Elapsed(v) = Clamp(v.since, 0, MaxStep) /\ v.since \in Nat
    BY <1>1, <1>3 DEF Elapsed
  <2> QED
    BY <2>1, Numbers DEF Clamp, Larger, Smaller
<1>4. CASE ~(v.available /\ v.since # None)
  <2>1. Elapsed(v) = 0
    BY <1>4 DEF Elapsed
  <2> QED
    BY <1>2, <1>4, <2>1, Numbers
<1> QED
  BY <1>3, <1>4

\* What proposePoint proposes.
LEMMA ProposalIs ==
    ASSUME Known, NEW v, Ready(v), NEW now \in 1 .. MaxWall, NEW p \in Proposals(v, now)
    PROVE  Fit(p) /\ Onward(v.state, p, Elapsed(v)) /\ OnRoute(p)
<1> DEFINE s == v.state
           n == Elapsed(v)
           w == SafeWall(s, now)
<1>1. v \in Vehicle /\ Fit(s) /\ v.pending = None /\ v.available /\ (n > 0 \/ s.speed = 0)
  BY DEF Ready
<1>2. n \in Nat /\ n <= MaxStep
  BY <1>1, ElapsedIs
<1>3. PICK u \in Advanced(s, n) : p = Stamped(v, u, now)
  BY <1>1 DEF Proposals
<1>4. p = [u EXCEPT !.wall = w, !.position = u.cursor]
  BY <1>1, <1>3 DEF Stamped
<1>5. s.wall \in Nat /\ Along(s) \in Nat
  BY <1>1, FitIs
<1>6. w \in Nat /\ s.wall < w
  <2>1. now \in Nat /\ now >= 1
    BY Numbers
  <2> QED
    BY <1>5, <2>1 DEF SafeWall, Larger
<1> HIDE DEF s, n, w
<1>7. Fit(u) /\ Ahead(s, u, n) /\ (n = 0 => u = s)
  BY <1>1, <1>2, <1>3, AdvancedFit
<1>8. u.cursor \in Nat
  BY <1>7, FitIs
<1>9. Fit(p) /\ p.wall = w /\ p.cursor = u.cursor /\ p.tours = u.tours /\ p.speed = u.speed
  <2> DEFINE q == u.cursor
  <2>1. u \in State
    BY <1>7, FitIs
  <2>2. q \in Nat /\ p = [u EXCEPT !.wall = w, !.position = q]
    BY <1>4, <1>8
  <2> HIDE DEF q
  <2>3. p \in State
    BY <1>6, <2>1, <2>2, StateIs
  <2>4. /\ p.wall = w /\ p.cursor = u.cursor /\ p.tours = u.tours /\ p.speed = u.speed
        /\ p.phase = u.phase /\ p.stop = u.stop /\ p.dwell = u.dwell
    BY <2>1, <2>2, StateIs
  <2>5. Fit(p)
    BY <1>7, <2>3, <2>4 DEF Fit
  <2> QED
    BY <2>4, <2>5
<1>10. Along(p) = Along(u)
  BY <1>9 DEF Along
<1>11. p.speed > 0 => Along(s) < Along(p)
  <2>1. CASE n > 0
    BY <1>7, <1>9, <1>10, <2>1 DEF Ahead
  <2>2. CASE ~(n > 0)
    <3>1. n = 0
      BY <1>2, <2>2
    <3>2. p.speed = 0
      BY <1>1, <1>7, <1>9, <2>2, <3>1
    <3> QED
      BY <3>2
  <2> QED
    BY <2>1, <2>2
<1>12. Along(s) <= Along(p) /\ Along(p) <= Along(s) + Reach(n)
  BY <1>7, <1>10 DEF Ahead
<1>13. OnRoute(p)
  <2>1. p.cursor \in Nat /\ p.cursor <= Route.length /\ Route.length \in Nat
    BY <1>8, <1>9, RouteIs DEF Fit
  <2> QED
    BY <2>1 DEF OnRoute
<1> QED
  BY <1>6, <1>9, <1>11, <1>12, <1>13 DEF Onward, s, n

-----------------------------------------------------------------------------
(* What becomes of a vehicle                                               *)

\* The connection of a vehicle is lost.
LEMMA UnavailableIs ==
    ASSUME NEW v \in Vehicle, NEW k, k = Unavailable(v)
    PROVE  /\ k \in Vehicle /\ k.state = Slowed(v.state)
           /\ ~k.available /\ k.since = None /\ k.pending = None
<1> DEFINE u == Slowed(v.state)
<1>1. v.state \in State
  BY VehicleIs
<1>2. u \in State
  BY <1>1, StateIs DEF Slowed
<1>3. k = [v EXCEPT !.available = FALSE, !.since = None, !.pending = None, !.state = u]
  BY VehicleIs DEF Unavailable, Slowed
<1> HIDE DEF u
<1>4. k \in Vehicle
  BY <1>2, <1>3, VehicleIs
<1>5. k.state = u /\ k.available = FALSE /\ k.since = None /\ k.pending = None
  BY <1>3, VehicleIs
<1> QED
  BY <1>4, <1>5 DEF u

\* A packet of a vehicle has been taken.
LEMMA CommitIs ==
    ASSUME NEW v \in Vehicle, NEW s \in State, NEW k, k = Commit(v, s)
    PROVE  /\ k \in Vehicle /\ k.state = s /\ k.available = v.available
           /\ k.since = 0 /\ k.pending = None
<1>1. k \in Vehicle
  <2>1. \A n \in Sinces : [v EXCEPT !.state = s, !.since = n, !.pending = None] \in Vehicle
    BY VehicleIs
  <2>2. 0 \in Sinces
    BY DEF Sinces
  <2>3. [v EXCEPT !.state = s, !.since = 0, !.pending = None] \in Vehicle
    BY <2>1, <2>2
  <2> QED
    BY <2>3 DEF Commit
<1> QED
  BY <1>1, VehicleIs DEF Commit

\* A vehicle is connected.
LEMMA AvailableIs ==
    ASSUME NEW v \in Vehicle, NEW k, k = Available(v)
    PROVE  k \in Vehicle /\ k.state = v.state /\ k.available /\ k.since = 0 /\ k.pending = None
<1>1. k \in Vehicle
  <2>1. \A n \in Sinces : [v EXCEPT !.available = TRUE, !.since = n, !.pending = None] \in Vehicle
    BY VehicleIs
  <2>2. 0 \in Sinces
    BY DEF Sinces
  <2>3. [v EXCEPT !.available = TRUE, !.since = 0, !.pending = None] \in Vehicle
    BY <2>1, <2>2
  <2> QED
    BY <2>3 DEF Available
<1>2. k.state = v.state /\ k.available = TRUE /\ k.since = 0 /\ k.pending = None
  BY VehicleIs DEF Available
<1> QED
  BY <1>1, <1>2

\* A vehicle waits for its proposal to be taken.
LEMMA PendingIs ==
    ASSUME NEW v \in Vehicle, NEW s \in State, NEW k, k = [v EXCEPT !.pending = s]
    PROVE  k \in Vehicle /\ k.state = v.state /\ k.available = v.available /\ k.since = v.since
<1>1. s \in Pendings
  BY VehicleIs
<1>2. k \in Vehicle
  BY <1>1, VehicleIs
<1> QED
  BY <1>2, VehicleIs

\* A vehicle that has not moved yet stands where it was assigned.
LEMMA AssignedFit ==
    ASSUME Known
    PROVE  Fit(Assigned)
<1> DEFINE c == assignment.cursor
           p == IF assignment.moving THEN "moving" ELSE "parked"
           n == StopsUpTo(c)
<1>1. c \in Nat /\ c <= Route.length /\ assignment.moving \in BOOLEAN
  BY RouteIs
<1>2. n \in Nat
  <2>1. n \in 0 .. Len(Stops) /\ Len(Stops) \in Nat
    BY <1>1, StopsAre, RouteIs
  <2> HIDE DEF n
  <2> QED
    BY <2>1
<1>3. p \in Phases /\ p # "dwelling" /\ p # "terminal" /\ (assignment.moving <=> p # "parked")
  BY <1>1 DEF Phases
<1>4. n = StopsUpTo(c)
  OBVIOUS
<1>5. Assigned = [cursor |-> c, tours |-> 0, phase |-> p, speed |-> 0, wall |-> 0, position |-> c,
                  stop |-> n, dwell |-> 0]
  BY DEF Assigned
<1> DEFINE a == Assigned
<1> HIDE DEF a, c, p, n
<1>6. a = [cursor |-> c, tours |-> 0, phase |-> p, speed |-> 0, wall |-> 0, position |-> c,
           stop |-> n, dwell |-> 0]
  BY <1>5 DEF a
<1>7. a \in State
  <2>1. 0 \in Speeds /\ 0 \in Nat
    BY StateIs
  <2> QED
    BY <1>1, <1>2, <1>3, <1>6, <2>1, StateIs
<1>8. Fit(a)
  BY <1>1, <1>3, <1>4, <1>6, <1>7, Numbers DEF Fit
<1> QED
  BY <1>8 DEF a

\* A checkpoint the program wrote is one that the constructor takes.
LEMMA FitCompatible ==
    ASSUME Known, NEW s, Fit(s)
    PROVE  Compatible(s)
<1>1. /\ s \in State /\ s.cursor \in Nat /\ s.tours \in Nat /\ s.phase \in Phases
      /\ s.speed \in Nat /\ s.speed <= TopSpeed
      /\ s.stop \in 0 .. Len(Stops) /\ s.stop \in Nat /\ s.dwell \in Nat
      /\ s.stop < Len(Stops) => s.cursor < Stops[s.stop + 1]
  BY FitIs
<1>2. /\ s.cursor <= Route.length /\ s.dwell <= DwellTime
      /\ Route.closed => s.phase # "terminal"
      /\ ~Route.closed => s.tours = 0
      /\ assignment.moving <=> s.phase # "parked"
  BY DEF Fit
<1>3. NextStop(s) # None => NextStop(s) >= s.cursor
  <2> SUFFICES ASSUME NextStop(s) # None PROVE NextStop(s) >= s.cursor
    OBVIOUS
  <2>1. s.stop < Len(Stops) /\ NextStop(s) = Stops[s.stop + 1]
    BY DEF NextStop, Stops
  <2>2. Stops[s.stop + 1] \in Nat
    BY <1>1, <2>1, RouteIs
  <2> QED
    BY <1>1, <2>1, <2>2
<1>4. s.cursor \in 0 .. Route.length /\ s.speed \in 0 .. TopSpeed /\ s.dwell \in 0 .. DwellTime
  BY <1>1, <1>2, RouteIs, Numbers
<1> QED
  BY <1>1, <1>2, <1>3, <1>4 DEF Compatible, Stops

\* The vehicle of a run that starts, from a checkpoint or from its assignment.
LEMMA NewVehicleIs ==
    ASSUME Known, NEW c, c # None => Fit(c), NEW k, k = NewVehicle(c)
    PROVE  /\ k \in Vehicle /\ Fit(k.state) /\ k.state.speed = 0
           /\ k.available /\ k.since = None /\ k.pending = None
<1> DEFINE s == IF c = None THEN Assigned ELSE c
           u == Slowed(s)
<1>1. Fit(s)
  BY AssignedFit
<1> HIDE DEF s
<1>2. Fit(u) /\ u.speed = 0
  BY <1>1, SlowedFit
<1>3. u \in State
  BY <1>2, FitIs
<1>4. k = [state |-> u, available |-> TRUE, since |-> None, pending |-> None]
  BY DEF NewVehicle, Slowed, s
<1> HIDE DEF u
<1>5. k \in Vehicle
  BY <1>3, <1>4, VehicleIs
<1> QED
  BY <1>2, <1>4, <1>5

-----------------------------------------------------------------------------
(* The session                                                             *)

\* What the session knows of its vehicle: only a vehicle that is online moves,
\* its clock has not run longer than the connection, and a proposal is pending
\* only in a farm that is being stopped.
CarInv ==
    /\ Known
    /\ vehicle \in Vehicle /\ Fit(vehicle.state)
    /\ disk \in State \cup {None} /\ (disk # None => Fit(disk))
SessionInv ==
    /\ process = "up" => vehicle.pending = None
    /\ online => /\ process \in {"up", "stopping"} /\ vehicle.available
                 /\ vehicle.since \in Nat /\ vehicle.since <= ridden
    /\ process \in {"up", "stopping"} /\ ~online => vehicle.state.speed = 0
RideInv ==
    /\ process \in {"up", "stopping", "stopped", "crashed"} /\ online \in BOOLEAN
    /\ fault = "none" /\ wire \in Packets /\ ridden \in Nat
    /\ CarInv /\ SessionInv /\ RestartResumes

\* A vehicle fits the same assignment after a step.
LEMMA CarStays ==
    ASSUME Known, assignment' = assignment, NEW v \in Vehicle, vehicle' = v, Fit(v.state),
           NEW d \in State \cup {None}, disk' = d, d # None => Fit(d)
    PROVE  CarInv'
<1>1. Known'
  BY DEF Known
<1>2. Fit(vehicle.state)'
  BY DEF Fit, Stops, Route, StopsUpTo
<1>3. (disk # None => Fit(disk))'
  BY DEF Fit, Stops, Route, StopsUpTo
<1> QED
  BY <1>1, <1>2, <1>3 DEF CarInv

\* What comes of sending a location: it is taken, or the connection is lost, or
\* the farm is being stopped and nothing changes but what is pending.
LEMMA SendIs ==
    ASSUME Known, NEW v, Ready(v), SendLocation(v)
    PROVE  /\ fault' = fault
           /\ \/ \E p : /\ Fit(p) /\ Onward(v.state, p, Elapsed(v))
                        /\ vehicle' = Commit(v, p) /\ wire' = Packet(p) /\ ridden' = 0
                        /\ online' = TRUE
              \/ /\ process = "up" /\ online' = FALSE /\ wire' = wire /\ ridden' = ridden
                 /\ \E k \in Vehicle : k.state = v.state /\ vehicle' = Unavailable(k)
              \/ /\ process # "up" /\ online' = TRUE /\ wire' = wire /\ ridden' = ridden
                 /\ vehicle' \in Vehicle /\ vehicle'.state = v.state
                 /\ vehicle'.available = v.available /\ vehicle'.since = v.since
<1>1. v \in Vehicle
  BY DEF Ready
<1>2. ASSUME NEW k \in Vehicle, k.state = v.state, k.available = v.available, k.since = v.since,
             WriteFails(k)
      PROVE  /\ fault' = fault /\ wire' = wire /\ ridden' = ridden
             /\ \/ /\ process = "up" /\ online' = FALSE
                   /\ \E i \in Vehicle : i.state = v.state /\ vehicle' = Unavailable(i)
                \/ /\ process # "up" /\ online' = TRUE
                   /\ vehicle' \in Vehicle /\ vehicle'.state = v.state
                   /\ vehicle'.available = v.available /\ vehicle'.since = v.since
  <2>1. fault' = fault /\ wire' = wire /\ ridden' = ridden
    BY <1>2 DEF WriteFails
  <2>2. CASE process = "up"
    BY <1>2, <2>1, <2>2 DEF WriteFails
  <2>3. CASE process # "up"
    <3>1. vehicle' = k /\ online' = TRUE
      BY <1>2, <2>3 DEF WriteFails
    <3> QED
      BY <1>2, <2>1, <2>3, <3>1
  <2> QED
    BY <2>2, <2>3
<1>3. CASE WriteFails(v)
  BY <1>1, <1>2, <1>3
<1>4. ASSUME NEW now \in 1 .. MaxWall, NEW p \in Proposals(v, now),
             \/ OnRoute(p) /\ Queued(v, p)
             \/ OnRoute(p) /\ WriteFails([v EXCEPT !.pending = p])
             \/ ~OnRoute(p) /\ fault' = "stranded" /\ UNCHANGED <<vehicle, online, wire, ridden>>
      PROVE  /\ fault' = fault
             /\ \/ /\ Fit(p) /\ Onward(v.state, p, Elapsed(v))
                   /\ vehicle' = Commit(v, p) /\ wire' = Packet(p) /\ ridden' = 0
                   /\ online' = TRUE
                \/ /\ process = "up" /\ online' = FALSE /\ wire' = wire /\ ridden' = ridden
                   /\ \E k \in Vehicle : k.state = v.state /\ vehicle' = Unavailable(k)
                \/ /\ process # "up" /\ online' = TRUE /\ wire' = wire /\ ridden' = ridden
                   /\ vehicle' \in Vehicle /\ vehicle'.state = v.state
                   /\ vehicle'.available = v.available /\ vehicle'.since = v.since
  <2>1. Fit(p) /\ Onward(v.state, p, Elapsed(v)) /\ OnRoute(p)
    BY ProposalIs
  <2>2. p \in State
    BY <2>1, FitIs
  <2>3. CASE Queued(v, p)
    BY <2>1, <2>3 DEF Queued
  <2>4. CASE WriteFails([v EXCEPT !.pending = p])
    <3> DEFINE k == [v EXCEPT !.pending = p]
    <3>1. k \in Vehicle /\ k.state = v.state /\ k.available = v.available /\ k.since = v.since
      BY <1>1, <2>2, PendingIs
    <3>2. WriteFails(k)
      BY <2>4
    <3> HIDE DEF k
    <3> QED
      BY <1>2, <3>1, <3>2
  <2> QED
    BY <1>4, <2>1, <2>3, <2>4
<1>5. CASE \E now \in 1 .. MaxWall : \E p \in Proposals(v, now) :
              /\ p.wall <= MaxWall
              /\ \/ OnRoute(p) /\ Queued(v, p)
                 \/ OnRoute(p) /\ WriteFails([v EXCEPT !.pending = p])
                 \/ ~OnRoute(p) /\ fault' = "stranded" /\ UNCHANGED <<vehicle, online, wire, ridden>>
  <2>1. PICK now \in 1 .. MaxWall :
              \E p \in Proposals(v, now) :
                  \/ OnRoute(p) /\ Queued(v, p)
                  \/ OnRoute(p) /\ WriteFails([v EXCEPT !.pending = p])
                  \/ ~OnRoute(p) /\ fault' = "stranded" /\ UNCHANGED <<vehicle, online, wire, ridden>>
    BY <1>5
  <2>2. PICK p \in Proposals(v, now) :
              \/ OnRoute(p) /\ Queued(v, p)
              \/ OnRoute(p) /\ WriteFails([v EXCEPT !.pending = p])
              \/ ~OnRoute(p) /\ fault' = "stranded" /\ UNCHANGED <<vehicle, online, wire, ridden>>
    BY <2>1
  <2> QED
    BY <1>4, <2>2
<1> QED
  BY <1>3, <1>5 DEF SendLocation

\* What a packet says.
LEMMA PacketIs ==
    ASSUME NEW s \in State
    PROVE  Packet(s) \in Packets /\ Holds(s, Packet(s))
<1>1. s.cursor \in Nat /\ s.tours \in Nat /\ s.wall \in Nat /\ s.speed \in 0 .. TopSpeed
  BY DEF State
<1> QED
  BY <1>1 DEF Packet, Packets, Holds

\* After a location was sent, or not.
LEMMA SendStep ==
    ASSUME RideInv, NEW v, Ready(v), v.state = vehicle.state, process \in {"up", "stopping"},
           SendLocation(v), UNCHANGED <<assignment, process, disk>>,
           process # "up" => v.since = 0
    PROVE  RideInv'
<1>1. /\ Known /\ vehicle \in Vehicle /\ Fit(vehicle.state) /\ disk \in State \cup {None}
      /\ (disk # None => Fit(disk)) /\ fault = "none" /\ wire \in Packets /\ ridden \in Nat
      /\ Holds(vehicle.state, wire)
  BY DEF RideInv, CarInv, RestartResumes
<1>2. v \in Vehicle /\ v.available = TRUE /\ Fit(v.state)
  BY <1>1, VehicleIs DEF Ready
<1>3. fault' = fault /\ process' = process /\ assignment' = assignment /\ disk' = disk
  BY <1>1, SendIs
<1>4. ASSUME NEW p, Fit(p), vehicle' = Commit(v, p), wire' = Packet(p), ridden' = 0, online' = TRUE
      PROVE  RideInv'
  <2> DEFINE k == Commit(v, p)
  <2>1. p \in State
    BY <1>1, <1>4, FitIs
  <2>2. k \in Vehicle /\ k.state = p /\ k.available /\ k.since = 0 /\ k.pending = None
    BY <1>2, <2>1, CommitIs
  <2>3. vehicle' = k
    BY <1>4
  <2> HIDE DEF k
  <2>4. CarInv'
    BY <1>1, <1>3, <1>4, <2>2, <2>3, CarStays
  <2>5. SessionInv'
    BY <1>3, <1>4, <2>2, <2>3 DEF SessionInv
  <2>6. RestartResumes' /\ wire' \in Packets
    BY <1>3, <1>4, <2>1, <2>2, <2>3, PacketIs DEF RestartResumes
  <2> QED
    BY <1>1, <1>3, <1>4, <2>4, <2>5, <2>6 DEF RideInv
<1>5. ASSUME process = "up", online' = FALSE, wire' = wire, ridden' = ridden,
             NEW i \in Vehicle, i.state = v.state, vehicle' = Unavailable(i)
      PROVE  RideInv'
  <2> DEFINE k == Unavailable(i)
             u == Slowed(i.state)
  <2>1. k \in Vehicle /\ k.state = u /\ k.pending = None
    BY UnavailableIs
  <2>2. Fit(u) /\ u.speed = 0 /\ u.cursor = v.state.cursor /\ u.tours = v.state.tours
        /\ u.wall = v.state.wall
    BY <1>1, <1>2, <1>5, SlowedFit
  <2>3. vehicle' = k
    BY <1>5
  <2> HIDE DEF k, u
  <2>4. CarInv'
    BY <1>1, <1>3, <2>1, <2>2, <2>3, CarStays
  <2>5. SessionInv'
    BY <1>3, <1>5, <2>1, <2>2, <2>3 DEF SessionInv
  <2>6. RestartResumes'
    BY <1>1, <1>3, <1>5, <2>1, <2>2, <2>3 DEF RestartResumes, Holds
  <2> QED
    BY <1>1, <1>3, <1>5, <2>4, <2>5, <2>6 DEF RideInv
<1>6. ASSUME process # "up", online' = TRUE, wire' = wire, ridden' = ridden,
             vehicle' \in Vehicle, vehicle'.state = v.state,
             vehicle'.available = v.available, vehicle'.since = v.since
      PROVE  RideInv'
  <2> DEFINE k == vehicle'
  <2>1. /\ k \in Vehicle /\ k.state = v.state /\ k.available = v.available /\ k.since = v.since
        /\ vehicle' = k
    BY <1>6
  <2> HIDE DEF k
  <2>2. CarInv'
    BY <1>1, <1>2, <1>3, <2>1, CarStays
  <2>3. SessionInv'
    BY <1>1, <1>2, <1>3, <1>6, <2>1 DEF SessionInv
  <2>4. RestartResumes'
    BY <1>1, <1>3, <1>6, <2>1 DEF RestartResumes
  <2> QED
    BY <1>1, <1>3, <1>6, <2>2, <2>3, <2>4 DEF RideInv
<1> QED
  BY <1>1, <1>4, <1>5, <1>6, SendIs

\* The vehicle of a login is ready, and so is one whose location is due.
LEMMA ReadyIs ==
    ASSUME RideInv
    PROVE  /\ process \in {"up", "stopping"} /\ ~online =>
                 Ready(Available(vehicle)) /\ Available(vehicle).state = vehicle.state
                 /\ Available(vehicle).since = 0
           /\ process = "up" /\ online /\ vehicle.since > 0 => Ready(vehicle)
<1>1. vehicle \in Vehicle /\ Fit(vehicle.state)
  BY DEF RideInv, CarInv
<1>2. ASSUME process \in {"up", "stopping"}, ~online
      PROVE  Ready(Available(vehicle)) /\ Available(vehicle).state = vehicle.state
             /\ Available(vehicle).since = 0
  <2>1. vehicle.state.speed = 0
    BY <1>2 DEF RideInv, SessionInv
  <2> QED
    BY <1>1, <2>1, AvailableIs DEF Ready
<1>3. ASSUME process = "up", online, vehicle.since > 0
      PROVE  Ready(vehicle)
  <2>1. vehicle.pending = None /\ vehicle.available /\ vehicle.since \in Nat
    BY <1>3 DEF RideInv, SessionInv
  <2> QED
    BY <1>1, <1>3, <2>1, ElapsedIs DEF Ready
<1> QED
  BY <1>2, <1>3

-----------------------------------------------------------------------------
(* The inductive invariant                                                 *)

\* The program starts with a vehicle where it was assigned and no checkpoint.
LEMMA RideInit ==
    ASSUME Init
    PROVE  RideInv
<1>1. Known
  BY DEF Init, Known
<1>2. /\ process = "stopped" /\ online = FALSE /\ disk = None /\ fault = "none" /\ ridden = 0
      /\ vehicle = NewVehicle(None) /\ wire = Packet(Assigned)
  BY DEF Init
<1>3. /\ vehicle \in Vehicle /\ Fit(vehicle.state) /\ vehicle.pending = None
  BY <1>1, <1>2, NewVehicleIs
<1>4. wire \in Packets
  <2>1. Assigned \in State
    BY <1>1, AssignedFit, FitIs
  <2> QED
    BY <1>2, <2>1, PacketIs
<1>5. CarInv
  BY <1>1, <1>2, <1>3 DEF CarInv
<1>6. SessionInv
  BY <1>2, <1>3 DEF SessionInv
<1>7. RestartResumes
  BY <1>2 DEF RestartResumes
<1> QED
  BY <1>2, <1>4, <1>5, <1>6, <1>7 DEF RideInv

\* A login, with a location or without.
LEMMA PromoteStep ==
    ASSUME RideInv, Promote
    PROVE  RideInv'
<1> DEFINE v == Available(vehicle)
<1>1. /\ process \in {"up", "stopping"} /\ ~online
      /\ assignment' = assignment /\ process' = process /\ disk' = disk
  BY DEF Promote, Sending
<1>2. vehicle \in Vehicle /\ Known /\ Fit(vehicle.state) /\ disk \in State \cup {None}
      /\ (disk # None => Fit(disk))
  BY DEF RideInv, CarInv
<1>3. Ready(v) /\ v.state = vehicle.state /\ v.since = 0
  BY <1>1, ReadyIs
<1>4. v \in Vehicle /\ v.available /\ v.pending = None
  BY <1>2, AvailableIs
<1>5. \/ SendLocation(v)
      \/ vehicle' = v /\ online' = TRUE /\ ridden' = 0 /\ UNCHANGED <<wire, fault>>
  BY DEF Promote
<1> HIDE DEF v
<1>6. CASE SendLocation(v)
  BY <1>1, <1>3, <1>6, SendStep
<1>7. CASE vehicle' = v /\ online' = TRUE /\ ridden' = 0 /\ UNCHANGED <<wire, fault>>
  <2>1. CarInv'
    BY <1>1, <1>2, <1>3, <1>4, <1>7, CarStays
  <2>2. SessionInv'
    BY <1>1, <1>3, <1>4, <1>7 DEF SessionInv
  <2>3. RestartResumes'
    BY <1>1, <1>3, <1>7 DEF RideInv, RestartResumes
  <2> QED
    BY <1>1, <1>7, <2>1, <2>2, <2>3 DEF RideInv
<1> QED
  BY <1>5, <1>6, <1>7

\* A location that is due.
LEMMA SendDueStep ==
    ASSUME RideInv, SendDue
    PROVE  RideInv'
<1>1. /\ process = "up" /\ online /\ vehicle.since > 0 /\ SendLocation(vehicle)
      /\ UNCHANGED <<assignment, process, disk>>
  BY DEF SendDue, Running
<1>2. Ready(vehicle)
  BY <1>1, ReadyIs
<1> QED
  BY <1>1, <1>2, SendStep

\* A connection that is lost stops the vehicle where it is.
LEMMA DisconnectStep ==
    ASSUME RideInv, Disconnect
    PROVE  RideInv'
<1> DEFINE k == Unavailable(vehicle)
           u == Slowed(vehicle.state)
<1>1. /\ process = "up" /\ online' = FALSE /\ vehicle' = k
      /\ assignment' = assignment /\ process' = process /\ disk' = disk
      /\ fault' = fault /\ wire' = wire /\ ridden' = ridden
  BY DEF Disconnect, Running
<1>2. vehicle \in Vehicle /\ Known /\ Fit(vehicle.state) /\ disk \in State \cup {None}
      /\ (disk # None => Fit(disk)) /\ Holds(vehicle.state, wire)
  BY <1>1 DEF RideInv, CarInv, RestartResumes
<1>3. k \in Vehicle /\ k.state = u /\ k.pending = None
  BY <1>2, UnavailableIs
<1>4. Fit(u) /\ u.speed = 0 /\ u.cursor = vehicle.state.cursor /\ u.tours = vehicle.state.tours
      /\ u.wall = vehicle.state.wall
  BY <1>2, SlowedFit
<1> HIDE DEF k, u
<1>5. CarInv'
  BY <1>1, <1>2, <1>3, <1>4, CarStays
<1>6. SessionInv'
  BY <1>1, <1>3, <1>4 DEF SessionInv
<1>7. RestartResumes'
  BY <1>1, <1>2, <1>3, <1>4 DEF RestartResumes, Holds
<1> QED
  BY <1>1, <1>5, <1>6, <1>7 DEF RideInv

\* A second: both clocks advance alike up to the bound.
LEMMA TickStep ==
    ASSUME RideInv, Tick
    PROVE  RideInv'
<1> DEFINE t == IF vehicle.since = None THEN None ELSE Smaller(vehicle.since + 1, MaxStep + 1)
           k == [vehicle EXCEPT !.since = t]
<1>1. /\ process = "up" /\ vehicle' = k
      /\ ridden' = (IF online THEN Smaller(ridden + 1, MaxStep + 1) ELSE ridden)
      /\ assignment' = assignment /\ process' = process /\ disk' = disk
      /\ fault' = fault /\ wire' = wire /\ online' = online
  BY DEF Tick, Running
<1>2. vehicle \in Vehicle /\ Known /\ Fit(vehicle.state) /\ disk \in State \cup {None}
      /\ (disk # None => Fit(disk)) /\ Holds(vehicle.state, wire) /\ ridden \in Nat
      /\ online \in BOOLEAN
  BY <1>1 DEF RideInv, CarInv, RestartResumes
<1>3. vehicle.since \in Nat \/ vehicle.since = None
  BY <1>2 DEF Vehicle
<1>4. /\ t \in Sinces
      /\ vehicle.since \in Nat => t = Smaller(vehicle.since + 1, MaxStep + 1) /\ t \in Nat
  BY <1>3, Numbers DEF Sinces, Smaller
<1>5. ridden' \in Nat
      /\ (online /\ vehicle.since \in Nat /\ vehicle.since <= ridden => t <= ridden')
  BY <1>1, <1>2, <1>4, Numbers DEF Smaller
<1> HIDE DEF t
<1>6. k \in Vehicle /\ k.state = vehicle.state /\ k.pending = vehicle.pending
      /\ k.available = vehicle.available /\ k.since = t
  BY <1>2, <1>4, VehicleIs
<1> HIDE DEF k
<1>7. CarInv'
  BY <1>1, <1>2, <1>6, CarStays
<1>8. SessionInv'
  BY <1>1, <1>4, <1>5, <1>6 DEF RideInv, SessionInv
<1>9. RestartResumes'
  BY <1>1, <1>2, <1>6 DEF RestartResumes
<1> QED
  BY <1>1, <1>2, <1>5, <1>7, <1>8, <1>9 DEF RideInv

\* A start: the checkpoint is never refused, and the run goes on from it.
LEMMA StartStep ==
    ASSUME RideInv, Start
    PROVE  RideInv'
<1> DEFINE k == NewVehicle(disk)
<1>1. Known /\ disk \in State \cup {None} /\ (disk # None => Fit(disk)) /\ fault = "none"
  BY DEF RideInv, CarInv
<1>2. disk # None => Compatible(disk)
  BY <1>1, FitCompatible
<1>3. /\ process' = "up" /\ vehicle' = k /\ disk' = k.state /\ wire' = Packet(k.state)
      /\ ridden' = 0 /\ fault' = fault /\ online' = FALSE /\ assignment' = assignment
  BY <1>2 DEF Start, Checkpoint
<1>4. k \in Vehicle /\ Fit(k.state) /\ k.state.speed = 0 /\ k.pending = None
  BY <1>1, NewVehicleIs
<1> HIDE DEF k
<1>5. k.state \in State /\ Packet(k.state) \in Packets /\ Holds(k.state, Packet(k.state))
  BY <1>1, <1>4, FitIs, PacketIs
<1>6. CarInv'
  <2> DEFINE d == k.state
  <2>1. d \in State \cup {None} /\ disk' = d /\ Fit(d)
    BY <1>3, <1>4, <1>5
  <2> HIDE DEF d
  <2> QED
    BY <1>1, <1>3, <1>4, <2>1, CarStays
<1>7. SessionInv'
  BY <1>3, <1>4 DEF SessionInv
<1>8. RestartResumes'
  BY <1>3, <1>5 DEF RestartResumes
<1> QED
  BY <1>1, <1>3, <1>5, <1>6, <1>7, <1>8 DEF RideInv

\* A stop, and the end of the session: what is saved is where the vehicle is.
LEMMA DisposeStep ==
    ASSUME RideInv, Dispose
    PROVE  RideInv'
<1> DEFINE k == Unavailable(vehicle)
           u == Slowed(vehicle.state)
<1>1. /\ process = "stopping" /\ process' = "stopped" /\ online' = FALSE /\ vehicle' = k
      /\ disk' = k.state /\ assignment' = assignment
      /\ fault' = fault /\ wire' = wire /\ ridden' = ridden
  BY DEF Dispose, Checkpoint
<1>2. vehicle \in Vehicle /\ Known /\ Fit(vehicle.state) /\ Holds(vehicle.state, wire)
  BY <1>1 DEF RideInv, CarInv, RestartResumes
<1>3. k \in Vehicle /\ k.state = u /\ k.pending = None
  BY <1>2, UnavailableIs
<1>4. Fit(u) /\ u.cursor = vehicle.state.cursor /\ u.tours = vehicle.state.tours
      /\ u.wall = vehicle.state.wall
  BY <1>2, SlowedFit
<1> HIDE DEF k, u
<1>5. u \in State
  BY <1>2, <1>4, FitIs
<1>6. CarInv'
  BY <1>1, <1>2, <1>3, <1>4, <1>5, CarStays
<1>7. SessionInv'
  BY <1>1 DEF SessionInv
<1>8. RestartResumes'
  BY <1>1, <1>2, <1>3, <1>4 DEF RestartResumes, Holds
<1> QED
  BY <1>1, <1>6, <1>7, <1>8 DEF RideInv

\* What leaves the vehicle alone: a save, the request to stop, a crash.
LEMMA IdleStep ==
    ASSUME RideInv, Save \/ Stop \/ Crash \/ UNCHANGED vars
    PROVE  RideInv'
<1>1. Known /\ vehicle \in Vehicle /\ Fit(vehicle.state) /\ disk \in State \cup {None}
      /\ (disk # None => Fit(disk)) /\ fault = "none"
  BY DEF RideInv, CarInv
<1>2. vehicle.state \in State
  BY <1>1, FitIs
<1>3. CASE Save
  <2>1. /\ process = "up" /\ disk' = vehicle.state
        /\ UNCHANGED <<assignment, process, vehicle, online, fault, wire, ridden>>
    BY <1>3 DEF Save, Running, Checkpoint
  <2>2. CarInv'
    <3> DEFINE d == vehicle.state
    <3>1. d \in State \cup {None} /\ disk' = d /\ Fit(d)
      BY <1>1, <1>2, <2>1
    <3> HIDE DEF d
    <3> QED
      BY <1>1, <2>1, <3>1, CarStays
  <2> QED
    BY <2>1, <2>2 DEF RideInv, SessionInv, RestartResumes
<1>4. CASE Stop
  <2>1. /\ process = "up" /\ process' = "stopping"
        /\ UNCHANGED <<assignment, vehicle, online, disk, fault, wire, ridden>>
    BY <1>4 DEF Stop, Running
  <2>2. CarInv'
    BY <1>1, <2>1, CarStays
  <2> QED
    BY <2>1, <2>2 DEF RideInv, SessionInv, RestartResumes
<1>5. CASE Crash
  <2>1. /\ process' = "crashed" /\ online' = FALSE
        /\ UNCHANGED <<assignment, vehicle, disk, fault, wire, ridden>>
    BY <1>5 DEF Crash
  <2>2. CarInv'
    BY <1>1, <2>1, CarStays
  <2> QED
    BY <2>1, <2>2 DEF RideInv, SessionInv, RestartResumes
<1>6. CASE UNCHANGED vars
  <2>1. UNCHANGED <<assignment, process, vehicle, online, disk, fault, wire, ridden>>
    BY <1>6 DEF vars
  <2>2. CarInv'
    BY <1>1, <2>1, CarStays
  <2> QED
    BY <2>1, <2>2 DEF RideInv, SessionInv, RestartResumes
<1> QED
  BY <1>3, <1>4, <1>5, <1>6

\* The invariant is inductive.
LEMMA RideStep ==
    ASSUME RideInv, [Next]_vars
    PROVE  RideInv'
<1>1. CASE Promote
  BY <1>1, PromoteStep
<1>2. CASE SendDue
  BY <1>2, SendDueStep
<1>3. CASE Disconnect
  BY <1>3, DisconnectStep
<1>4. CASE Tick
  BY <1>4, TickStep
<1>5. CASE Start
  BY <1>5, StartStep
<1>6. CASE Dispose
  BY <1>6, DisposeStep
<1>7. CASE Save \/ Stop \/ Crash \/ UNCHANGED vars
  BY <1>7, IdleStep
<1> QED
  BY <1>1, <1>2, <1>3, <1>4, <1>5, <1>6, <1>7 DEF Next

-----------------------------------------------------------------------------
(* What follows                                                            *)

\* The invariant says everything OnCourse does.
LEMMA RideCourse ==
    ASSUME RideInv
    PROVE  OnCourse
<1>1. /\ Known /\ vehicle \in Vehicle /\ Fit(vehicle.state)
      /\ disk \in State \cup {None} /\ (disk # None => Fit(disk))
  BY DEF RideInv, CarInv
<1>2. TypeOK
  BY <1>1 DEF RideInv, Known, TypeOK, Faults
<1>3. ASSUME NEW s, Fit(s) PROVE StopsInOrder(s)
  BY <1>3 DEF Fit, Stops, StopsInOrder
<1> QED
  BY <1>1, <1>2, <1>3 DEF RideInv, OnCourse

\* No vehicle leaves its route or passes a stop, no proposal throws and no
\* restart is refused, whatever the speeds, the losses and the crashes.
THEOREM VehiclesStayOnCourse == Spec => []OnCourse
  BY RideInit, RideStep, RideCourse, PTL DEF Spec

\* What is committed, and what an orderly stop saves, is the last packet the
\* network was given.
THEOREM RestartsResume == Spec => []RestartResumes
<1>1. RideInv => RestartResumes
  BY DEF RideInv
<1> QED
  BY <1>1, RideInit, RideStep, PTL DEF Spec

\* Products over a difference.
LEMMA Spread ==
    ASSUME NEW a \in Nat, NEW b \in Nat, NEW c \in Nat
    PROVE  /\ (a - b) * c = a * c - b * c /\ a * c \in Nat /\ b * c \in Nat
           /\ c <= b => a * c <= a * b
  OBVIOUS

\* The way to a state a vehicle may send a packet of is what lies between.
LEMMA WayIs ==
    ASSUME Known, NEW s, Fit(s), NEW p, Fit(p), NEW w \in Packets, Holds(s, w),
           NEW n \in Nat, NEW m \in Nat, n <= m, Onward(s, p, n)
    PROVE  /\ Way(w, Packet(p)) \in 0 .. 2 * TopSpeed * m
           /\ Packet(p).speed > 0 => Way(w, Packet(p)) > 0
           /\ Packet(p).wall > w.wall
<1> DEFINE L == Route.length
           q == Packet(p)
           x == Along(s)
           y == Along(p)
           d == Way(w, q)
<1>1. /\ s.cursor \in Nat /\ s.tours \in Nat /\ s.wall \in Nat
      /\ p.cursor \in Nat /\ p.tours \in Nat /\ p.wall \in Nat
      /\ x \in Nat /\ y \in Nat
  BY FitIs
<1>2. q.cursor = p.cursor /\ q.tours = p.tours /\ q.wall = p.wall /\ q.speed = p.speed
  BY DEF Packet
<1>3. w.cursor = s.cursor /\ w.tours = s.tours /\ w.wall = s.wall
  BY DEF Holds
<1>4. L \in Nat
  BY RouteIs
<1>5. /\ x <= y /\ y <= x + Reach(n) /\ (p.speed > 0 => x < y) /\ s.wall < p.wall
  BY DEF Onward
<1>6. d = (p.tours - s.tours) * L + p.cursor - s.cursor
  BY <1>2, <1>3 DEF Way
<1>7. x = s.tours * L + s.cursor /\ y = p.tours * L + p.cursor
  BY DEF Along
<1>8. Reach(n) \in Nat /\ Reach(n) <= 2 * TopSpeed * m /\ 2 * TopSpeed * m \in Nat
  <2> DEFINE t == 2 * TopSpeed
  <2>1. t \in Nat /\ Reach(n) = t * n
    BY Numbers DEF Reach
  <2> HIDE DEF t
  <2>2. t * n \in Nat /\ t * m \in Nat /\ t * n <= t * m
    BY <2>1, Spread
  <2>3. t * m = 2 * TopSpeed * m
    BY DEF t
  <2> QED
    BY <2>1, <2>2, <2>3
<1> HIDE DEF L, q, x, y, d
<1>9. d = y - x
  <2> DEFINE a == p.tours * L
             b == s.tours * L
  <2>1. (p.tours - s.tours) * L = a - b /\ a \in Nat /\ b \in Nat
    BY <1>1, <1>4, Spread
  <2>2. d = (a - b) + p.cursor - s.cursor /\ x = b + s.cursor /\ y = a + p.cursor
    BY <1>6, <1>7, <2>1
  <2> HIDE DEF a, b
  <2> QED
    BY <1>1, <2>1, <2>2
<1>10. d \in 0 .. 2 * TopSpeed * m
  <2> DEFINE t == 2 * TopSpeed * m
             r == Reach(n)
  <2>1. r \in Nat /\ r <= t /\ t \in Nat /\ y <= x + r
    BY <1>5, <1>8
  <2> HIDE DEF t, r
  <2>2. d \in 0 .. t
    BY <1>1, <1>5, <1>9, <2>1
  <2> QED
    BY <2>2 DEF t
<1>11. (q.speed > 0 => d > 0) /\ q.wall > w.wall
  BY <1>1, <1>2, <1>3, <1>5, <1>9
<1> QED
  BY <1>10, <1>11 DEF d, q

\* A packet that is sent reports what its vehicle did since the last one.
LEMMA SentAsReported ==
    ASSUME RideInv, NEW v, Ready(v), v.state = vehicle.state, process \in {"up", "stopping"},
           Elapsed(v) <= ridden, SendLocation(v), wire' # wire
    PROVE  /\ Way(wire, wire') \in 0 .. 2 * TopSpeed * Smaller(ridden, MaxStep)
           /\ wire'.speed > 0 => Way(wire, wire') > 0
           /\ wire'.wall > wire.wall
<1> DEFINE n == Elapsed(v)
           m == Smaller(ridden, MaxStep)
<1>1. /\ Known /\ Fit(vehicle.state) /\ wire \in Packets /\ ridden \in Nat
      /\ Holds(vehicle.state, wire)
  BY DEF RideInv, CarInv, RestartResumes
<1>2. PICK p : Fit(p) /\ Onward(vehicle.state, p, n) /\ wire' = Packet(p)
  BY <1>1, SendIs
<1>3. n \in Nat /\ m \in Nat /\ n <= m
  BY <1>1, ElapsedIs, Numbers DEF Ready, Smaller
<1> HIDE DEF n, m
<1>4. /\ Way(wire, Packet(p)) \in 0 .. 2 * TopSpeed * m
      /\ Packet(p).speed > 0 => Way(wire, Packet(p)) > 0
      /\ Packet(p).wall > wire.wall
  BY <1>1, <1>2, <1>3, WayIs
<1> QED
  BY <1>2, <1>4 DEF m

\* From one packet to the next the vehicle moves forward, by no more than it can
\* drive in the time it was online, and its clock goes forward.
THEOREM PacketsAreHonest == Spec => MovesAsReported
<1> DEFINE A == wire' # wire /\ process \in {"up", "stopping"} =>
                  /\ Way(wire, wire') \in 0 .. 2 * TopSpeed * Smaller(ridden, MaxStep)
                  /\ wire'.speed > 0 => Way(wire, wire') > 0
                  /\ wire'.wall > wire.wall
<1>1. ASSUME RideInv, [Next]_vars PROVE [A]_vars
  <2> SUFFICES ASSUME wire' # wire, process \in {"up", "stopping"} PROVE A
    OBVIOUS
  <2>1. vehicle \in Vehicle /\ ridden \in Nat
    BY <1>1 DEF RideInv, CarInv
  <2>2. Promote \/ SendDue
    BY <1>1 DEF Next, vars, Disconnect, Tick, Start, Save, Stop, Dispose, Crash
  <2>3. CASE Promote
    <3> DEFINE v == Available(vehicle)
    <3>1. ~online /\ SendLocation(v)
      BY <2>3 DEF Promote
    <3>2. Ready(v) /\ v.state = vehicle.state /\ v.since = 0
      BY <1>1, <3>1, ReadyIs
    <3> HIDE DEF v
    <3>3. Elapsed(v) <= ridden
      <4>1. v.since \in Nat /\ v \in Vehicle
        BY <3>2 DEF Ready
      <4>2. Elapsed(v) \in Nat /\ Elapsed(v) <= 0
        BY <3>2, <4>1, ElapsedIs
      <4> QED
        BY <2>1, <4>2
    <3> QED
      BY <1>1, <3>1, <3>2, <3>3, SentAsReported
  <2>4. CASE SendDue
    <3>1. process = "up" /\ online /\ vehicle.since > 0 /\ SendLocation(vehicle)
      BY <2>4 DEF SendDue, Running
    <3>2. Ready(vehicle)
      BY <1>1, <3>1, ReadyIs
    <3>3. vehicle.since \in Nat /\ vehicle.since <= ridden
      BY <1>1, <3>1 DEF RideInv, SessionInv
    <3>4. Elapsed(vehicle) <= ridden
      <4>1. Elapsed(vehicle) \in Nat /\ Elapsed(vehicle) <= vehicle.since
        BY <2>1, <3>3, ElapsedIs
      <4> QED
        BY <2>1, <3>3, <4>1
    <3> QED
      BY <1>1, <3>1, <3>2, <3>4, SentAsReported
  <2> QED
    BY <2>2, <2>3, <2>4
<1> QED
  BY <1>1, RideInit, RideStep, PTL DEF Spec, MovesAsReported
=============================================================================
