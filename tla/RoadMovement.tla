---------------------------- MODULE RoadMovement ----------------------------
(***************************************************************************)
(* A vehicle on a verified road: simulator/road-movement.js, with the      *)
(* calls its session makes when it sends a location (device-session.js)    *)
(* and the worker's checkpoints, stops and restarts.                       *)
(*                                                                         *)
(* A session proposes a point, hands it to the socket, and commits it only *)
(* when the socket has taken it.  What is committed is what a checkpoint   *)
(* saves and what the next run of the program resumes from.                *)
(*                                                                         *)
(* Distances count half metres and times the seconds of the integration    *)
(* step, so that a step from speed u to speed v covers u + v.  The speed a *)
(* vehicle aims at depends on bends, family and seed; it is any speed here *)
(* but zero, as targetSpeedKph never aims below 8 km/h.                    *)
(*                                                                         *)
(* An operator whose name ends in _Fault is the operator after it with a   *)
(* fault seeded in it; no other definition uses it.                        *)
(***************************************************************************)
EXTENDS Integers, Sequences, FiniteSets

CONSTANTS
    Routes,       \* verified routes: records of length, stops and closed
    Starts,       \* cursors the allocator may assign
    TopSpeed,     \* targetSpeedKph never exceeds it
    Acceleration,
    Braking,
    MaxStep,      \* longest time a vehicle is moved at once
    DwellTime,    \* time spent at a stop
    None,         \* no value
    MaxWall       \* bound of the wall clock, and so of the packets sent

ASSUME RouteAssumption ==
    \A r \in Routes :
        /\ r.length \in Nat \ {0} /\ r.closed \in BOOLEAN /\ r.stops \in Seq(Nat)
        /\ \A i \in DOMAIN r.stops :
            /\ r.stops[i] \in 1 .. r.length - 1
            /\ i > 1 => r.stops[i - 1] < r.stops[i]
        /\ Starts \subseteq 0 .. r.length

ASSUME SpeedAssumption ==
    /\ TopSpeed \in Nat \ {0} /\ Acceleration \in Nat \ {0} /\ Braking \in Nat \ {0}
    /\ MaxStep \in Nat \ {0} /\ DwellTime \in Nat \ {0} /\ MaxWall \in Nat \ {0}

VARIABLES
    assignment, \* the route, the starting cursor and whether the vehicle moves
    process,    \* of the simulation: up, stopping, stopped in an orderly way, or crashed
    vehicle,    \* the RoadMovementModel
    online,     \* the session is ONLINE
    disk,       \* the checkpoint a restart finds
    fault,      \* an exception the code does not expect
    wire,       \* ghost: the packet the vehicle continues from
    ridden      \* ghost: time online since that packet or the login

vars == <<assignment, process, vehicle, online, disk, fault, wire, ridden>>

Larger(a, b) == IF a > b THEN a ELSE b
Smaller(a, b) == IF a < b THEN a ELSE b
Clamp(x, low, high) == Larger(low, Smaller(high, x))

Route == assignment.route
Phases == {"moving", "dwelling", "parked", "terminal"}
Faults == {"none", "stranded", "refused"}

\* this.state of the model, which is also what a checkpoint holds.
State == [cursor: Nat, tours: Nat, phase: Phases, speed: 0 .. TopSpeed,
          wall: Nat, position: Nat, stop: Nat, dwell: Nat]

ASSUME NoneAssumption == None \notin Nat \cup State

\* validatedStops has checked that the stops of a route increase.
StopsUpTo(cursor) == Cardinality({i \in DOMAIN Route.stops : Route.stops[i] <= cursor})
NextStop(s) ==
    IF s.stop < Len(Route.stops) THEN Route.stops[s.stop + 1] ELSE None

-----------------------------------------------------------------------------
(* advanceState: one integration step                                      *)

SpeedAfter(speed, target) ==
    Larger(0, speed + Clamp(target - speed, -Braking, Acceleration))

\* At a stop: it dwells, and the next stop is the one after.
AtStop(s) ==
    [s EXCEPT !.cursor = NextStop(s), !.speed = 0, !.phase = "dwelling",
              !.dwell = DwellTime, !.stop = @ + 1]

AtEnd_Fault(s) == \* the stops of the next tour are not reset
    IF Route.closed
    THEN [s EXCEPT !.cursor = 0, !.speed = 0, !.tours = @ + 1]
    ELSE [s EXCEPT !.cursor = Route.length, !.speed = 0, !.phase = "terminal"]

AtEnd(s) ==
    IF Route.closed
    THEN [s EXCEPT !.cursor = 0, !.speed = 0, !.tours = @ + 1, !.stop = 0]
    ELSE [s EXCEPT !.cursor = Route.length, !.speed = 0, !.phase = "terminal"]

Travel_Fault(s, speed) == \* the end of the route is passed at full speed
    LET way == s.speed + speed
    IN  IF NextStop(s) # None /\ NextStop(s) - s.cursor <= way THEN AtStop(s)
        ELSE [s EXCEPT !.cursor = @ + way, !.speed = speed]

\* The first of what lies ahead ends the step: a stop, the end of the route, or
\* the way the vehicle makes in it.
Travel(s, speed) ==
    LET way == s.speed + speed
        toEnd == Route.length - s.cursor
    IN  IF NextStop(s) # None /\ NextStop(s) - s.cursor <= way
                              /\ NextStop(s) - s.cursor <= toEnd
        THEN AtStop(s)
        ELSE IF toEnd <= way THEN AtEnd(s)
        ELSE [s EXCEPT !.cursor = @ + way, !.speed = speed]

Dwell(s) ==
    [s EXCEPT !.dwell = Larger(0, @ - 1), !.speed = 0,
              !.phase = IF s.dwell <= 1 THEN "moving" ELSE "dwelling"]

Step(s) ==
    CASE s.phase = "dwelling" -> {Dwell(s)}
      [] s.phase = "moving"   -> {Travel(s, SpeedAfter(s.speed, target)) :
                                      target \in 1 .. TopSpeed}
      [] OTHER                -> {s}

\* The states advanceState can reach in the given time.
Advanced(s, elapsed) ==
    LET after[n \in 0 .. MaxStep + 1] ==
            IF n = 0 THEN {s} ELSE UNION {Step(u) : u \in after[n - 1]}
    IN  after[elapsed]

-----------------------------------------------------------------------------
(* RoadMovementModel                                                       *)

Vehicle == [state: State, available: BOOLEAN, since: Nat \cup {None},
            pending: State \cup {None}]

\* A vehicle of a fresh assignment.
Assigned ==
    [cursor |-> assignment.cursor, tours |-> 0,
     phase |-> IF assignment.moving THEN "moving" ELSE "parked", speed |-> 0,
     wall |-> 0, position |-> assignment.cursor,
     stop |-> StopsUpTo(assignment.cursor), dwell |-> 0]

\* validateCheckpoint.
Compatible(c) ==
    /\ c.cursor \in 0 .. Route.length
    /\ c.speed \in 0 .. TopSpeed
    /\ c.phase \in Phases
    /\ c.stop \in 0 .. Len(Route.stops)
    /\ c.dwell \in 0 .. DwellTime
    /\ NextStop(c) # None => NextStop(c) >= c.cursor
    /\ Route.closed => c.phase # "terminal"
    /\ ~Route.closed => c.tours = 0
    /\ assignment.moving <=> c.phase # "parked"

\* The constructor: the clock of its motion starts with the connection.
NewVehicle(checkpoint) ==
    [state |-> [(IF checkpoint = None THEN Assigned ELSE checkpoint) EXCEPT !.speed = 0],
     available |-> TRUE, since |-> None, pending |-> None]

\* The time the vehicle may be moved by, capped: after a long silence it
\* continues from where it was.
Elapsed_Fault(v) == IF v.available /\ v.since # None THEN v.since ELSE 0 \* uncapped

Elapsed(v) ==
    IF v.available /\ v.since # None THEN Clamp(v.since, 0, MaxStep) ELSE 0

\* The time a device reports never repeats, also when the clock is set back.
SafeWall(s, now) == Larger(now, s.wall + (IF s.wall > 0 THEN 1 ELSE 0))

Stamped(v, s, now) ==
    LET held == IF v.available THEN s ELSE [s EXCEPT !.speed = 0]
    IN  [held EXCEPT !.wall = SafeWall(v.state, now), !.position = s.cursor]

\* proposePoint: a proposal that is still pending is made again.
Proposals(v, now) ==
    IF v.pending # None THEN {v.pending}
    ELSE {Stamped(v, s, now) :
              s \in IF v.available THEN Advanced(v.state, Elapsed(v)) ELSE {v.state}}

\* pointAtDistance refuses a cursor that is not on the route.
OnRoute(s) == s.cursor \in 0 .. Route.length

\* commitQueuedPoint of the token of the proposal.
Commit(v, s) == [v EXCEPT !.state = s, !.since = 0, !.pending = None]

Available(v) == [v EXCEPT !.available = TRUE, !.since = 0, !.pending = None]

Unavailable(v) ==
    [v EXCEPT !.available = FALSE, !.since = None, !.pending = None, !.state.speed = 0]

-----------------------------------------------------------------------------
(* The session                                                             *)

Packet(s) == [cursor |-> s.cursor, tours |-> s.tours, wall |-> s.wall, speed |-> s.speed]
Packets == [cursor: Nat, tours: Nat, wall: Nat, speed: 0 .. TopSpeed]

Init ==
    /\ assignment \in [route: Routes, cursor: Starts, moving: BOOLEAN]
    /\ process = "stopped"
    /\ vehicle = NewVehicle(None)
    /\ online = FALSE
    /\ disk = None
    /\ fault = "none"
    /\ wire = Packet(Assigned)
    /\ ridden = 0

Running == process = "up" /\ fault = "none"
Sending == process \in {"up", "stopping"} /\ fault = "none"

\* The socket has taken the location, at once or into its queue.
Queued(v, s) ==
    /\ vehicle' = Commit(v, s)
    /\ wire' = Packet(s)
    /\ ridden' = 0
    /\ online' = TRUE
    /\ UNCHANGED fault

\* The write throws, or finds no socket: beginReconnect, which does nothing in
\* a farm that is being stopped.
WriteFails(v) ==
    /\ IF process = "up"
       THEN vehicle' = Unavailable(v) /\ online' = FALSE
       ELSE vehicle' = v /\ online' = TRUE
    /\ UNCHANGED <<wire, ridden, fault>>

\* sendOnlinePackets with the location due; the heartbeat before it may be what
\* fails.  proposePoint throws for a point off the route, and the pump, which
\* has taken the device's entry, swallows it.
SendLocation_Fault(v) == \* commits before the socket has taken the packet
    \E now \in 1 .. MaxWall : \E s \in Proposals(v, now) :
        /\ s.wall <= MaxWall
        /\ Queued(v, s) \/ WriteFails(Commit(v, s))

SendLocation(v) ==
    \/ WriteFails(v)
    \/ \E now \in 1 .. MaxWall : \E s \in Proposals(v, now) :
        /\ s.wall <= MaxWall
        /\ \/ OnRoute(s) /\ Queued(v, s)
           \/ OnRoute(s) /\ WriteFails([v EXCEPT !.pending = s])
           \/ ~OnRoute(s) /\ fault' = "stranded" /\ UNCHANGED <<vehicle, online, wire, ridden>>

\* The login is acknowledged: the location is due at once, unless the socket
\* still holds the login back.
Promote ==
    /\ Sending /\ ~online
    /\ LET v == Available(vehicle)
       IN  \/ SendLocation(v)
           \/ /\ vehicle' = v /\ online' = TRUE /\ ridden' = 0
              /\ UNCHANGED <<wire, fault>>
    /\ UNCHANGED <<assignment, process, disk>>

\* The timer of the next location, or the end of backpressure.
SendDue ==
    /\ Running /\ online /\ vehicle.since > 0
    /\ SendLocation(vehicle)
    /\ UNCHANGED <<assignment, process, disk>>

\* The connection is lost: beginReconnect.
Disconnect ==
    /\ Running /\ online
    /\ vehicle' = Unavailable(vehicle)
    /\ online' = FALSE
    /\ UNCHANGED <<assignment, process, disk, fault, wire, ridden>>

\* A second passes.  Beyond MaxStep the clocks only say that it was longer.
Tick ==
    /\ Running
    /\ vehicle' = [vehicle EXCEPT !.since = IF @ = None THEN None ELSE Smaller(@ + 1, MaxStep + 1)]
    /\ ridden' = IF online THEN Smaller(ridden + 1, MaxStep + 1) ELSE ridden
    /\ UNCHANGED <<assignment, process, online, disk, fault, wire>>

-----------------------------------------------------------------------------
(* The worker                                                              *)

\* checkpoint(): what was committed, never what is only proposed.
Checkpoint(v) == v.state

\* The worker starts the farm; the constructor refuses a checkpoint that does
\* not fit.  The positions are saved before anything is sent.
Start ==
    /\ process \in {"stopped", "crashed"} /\ fault = "none"
    /\ IF disk # None /\ ~Compatible(disk)
       THEN fault' = "refused" /\ UNCHANGED <<process, vehicle, disk, wire, ridden>>
       ELSE /\ process' = "up"
            /\ vehicle' = NewVehicle(disk)
            /\ disk' = Checkpoint(NewVehicle(disk))
            /\ wire' = Packet(Checkpoint(NewVehicle(disk)))
            /\ ridden' = 0
            /\ UNCHANGED fault
    /\ online' = FALSE
    /\ UNCHANGED assignment

\* The checkpoint timer.
Save ==
    /\ Running
    /\ disk' = Checkpoint(vehicle)
    /\ UNCHANGED <<assignment, process, vehicle, online, fault, wire, ridden>>

\* An orderly stop clears the pump; answers that arrive before the session's
\* chunk is disposed are still handled.
Stop ==
    /\ Running
    /\ process' = "stopping"
    /\ UNCHANGED <<assignment, vehicle, online, disk, fault, wire, ridden>>

\* The session is disposed and, when all are, the positions are saved.
Dispose ==
    /\ process = "stopping" /\ fault = "none"
    /\ process' = "stopped"
    /\ vehicle' = Unavailable(vehicle)
    /\ disk' = Checkpoint(Unavailable(vehicle))
    /\ online' = FALSE
    /\ UNCHANGED <<assignment, fault, wire, ridden>>

\* The process ends, or its last save fails.
Crash ==
    /\ Sending
    /\ process' = "crashed"
    /\ online' = FALSE
    /\ UNCHANGED <<assignment, vehicle, disk, fault, wire, ridden>>

Next ==
    \/ Promote \/ SendDue \/ Disconnect \/ Tick
    \/ Start \/ Save \/ Stop \/ Dispose \/ Crash

Spec == Init /\ [][Next]_vars

-----------------------------------------------------------------------------
(* Properties                                                              *)

TypeOK ==
    /\ assignment \in [route: Routes, cursor: Starts, moving: BOOLEAN]
    /\ process \in {"up", "stopping", "stopped", "crashed"}
    /\ vehicle \in Vehicle
    /\ online \in BOOLEAN
    /\ disk \in State \cup {None}
    /\ fault \in Faults
    /\ wire \in Packets
    /\ ridden \in Nat

\* A stop is behind the vehicle exactly when it has dwelt there.
StopsInOrder(s) ==
    /\ s.stop = StopsUpTo(s.cursor)
    /\ s.phase = "dwelling" => s.stop > 0 /\ s.cursor = Route.stops[s.stop]

\* No time, speed, clock or restart takes a vehicle off its route or past a
\* stop, so that a proposal never throws (the pump would swallow the exception
\* and the device fall silent, device-farm.js:280) and no restart is refused
\* because of a checkpoint the program wrote itself.
OnCourse ==
    /\ TypeOK
    /\ fault = "none"
    /\ StopsInOrder(vehicle.state)
    /\ disk # None => StopsInOrder(disk)

Holds(s, p) == s.cursor = p.cursor /\ s.tours = p.tours /\ s.wall = p.wall

\* The committed position is that of the last packet the network was given,
\* whatever became of the writes in between; so is the checkpoint of an orderly
\* stop, and the next run continues exactly there.
RestartResumes ==
    /\ process \in {"up", "stopping"} => Holds(vehicle.state, wire)
    /\ process = "stopped" /\ disk # None => Holds(disk, wire)

\* The way along the route from one packet to a later one.
Way(from, to) == (to.tours - from.tours) * Route.length + to.cursor - from.cursor

\* From one packet to the next, over any loss of the connection and any
\* restart, the vehicle moves forward by no more than it can drive in the time
\* it was online, claims to be moving only if it has moved, and its own clock
\* goes forward although the computer's may not.
MovesAsReported ==
    [][wire' # wire /\ process \in {"up", "stopping"} =>
         /\ Way(wire, wire') \in 0 .. 2 * TopSpeed * Smaller(ridden, MaxStep)
         /\ wire'.speed > 0 => Way(wire, wire') > 0
         /\ wire'.wall > wire.wall]_vars
=============================================================================
