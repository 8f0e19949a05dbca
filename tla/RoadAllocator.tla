---------------------------- MODULE RoadAllocator ----------------------------
(***************************************************************************)
(* The placement of a fleet on verified roads: allocateRoadFleet           *)
(* (simulator/road-allocator.js), called at every start with the positions *)
(* of the last checkpoint (simulator/device-farm.js) and, before a start,  *)
(* by the coverage check in a mode that only counts how many stationary    *)
(* devices fit (road/route-capacity.js).                                   *)
(*                                                                         *)
(* A call is synchronous; its loops are steps here, so that a run may name *)
(* the state between them.  A stationary position is a place; two places   *)
(* are near when less than 50 m apart at one of the two GPS precisions.    *)
(* The counters the code keeps (occupancy, movingAssigned, parkedAssigned, *)
(* usedSlots, the reserved positions) are what the assignments make them.  *)
(*                                                                         *)
(* An operator whose name ends in _Fault is the operator after it with a   *)
(* fault seeded in it; no other definition uses it.                        *)
(***************************************************************************)
EXTENDS Integers, FiniteSets, Sequences

CONSTANTS
    Packs,       \* records of weight, routes, anchors and near
    Seeds,       \* 1 or -1: the order a seed gives to what is otherwise equal
    MaxVehicles, \* vehicles of a fleet
    Fleets,      \* the fleets the settings may ask for
    OldVehicles, \* vehicles of a checkpoint an older version saved
    None         \* no assignment

VARIABLES
    pack,       \* the selected road packs
    seed,
    saved,      \* the checkpoint: what each vehicle was assigned, and where it is
    fleet,      \* of this call: number of vehicles, of moving ones, continuous motion
    mode,       \* start, or preflight of the coverage check
    pc,
    restored,   \* restoredAssignments of this call
    retried,    \* parkedRetryDone
    next,       \* index of the loop over the vehicles
    colliding,  \* collidingParked, still to be relocated
    moved,      \* ghost: the vehicles collidingParked held
    assignment, \* assignments
    ordinal,    \* nextSlotOrdinal of each route
    failure,    \* why the call threw
    launched,   \* ghost: the fleet of the last start that succeeded
    promised    \* ghost: most stationary devices the coverage check let pass

vars == <<pack, seed, saved, fleet, mode, pc, restored, retried, next, colliding,
          moved, assignment, ordinal, failure, launched, promised>>

Vehicles == 1 .. MaxVehicles
Regions == DOMAIN pack.weight
Routes == DOMAIN pack.routes
Anchors == DOMAIN pack.anchors
RegionOf(r) == pack.routes[r].region
AnchorRegion(a) == RegionOf(pack.anchors[a].route)
Near(p, q) == p = q \/ {p, q} \in pack.near

ASSUME PackAssumption ==
    \A p \in Packs :
        /\ p.weight \in Seq(Nat \ {0})
        /\ p.routes \in Seq([region : DOMAIN p.weight, slots : Nat, closed : BOOLEAN])
        /\ p.anchors \in Seq([route : DOMAIN p.routes, places : Seq(Nat)])

ASSUME SeedAssumption == Seeds \subseteq {1, -1}

ASSUME FleetAssumption ==
    /\ MaxVehicles \in Nat \ {0} /\ OldVehicles \in 1 .. MaxVehicles
    /\ \A f \in Fleets : /\ f \in [vehicles : Vehicles, moving : Nat, continuous : BOOLEAN]
                         /\ f.moving <= f.vehicles

\* None is neither a fleet nor an assignment.
ASSUME NoneAssumption ==
    None \notin [vehicles : Nat, moving : Nat, continuous : BOOLEAN]
            \cup [moving : BOOLEAN, route : Nat, slot : Nat]
            \cup [moving : BOOLEAN, anchor : Nat, place : Nat, exact : BOOLEAN]

\* Under continuous motion an open route carries no moving vehicle.
Capacity(r) ==
    IF fleet.continuous /\ ~pack.routes[r].closed THEN 0 ELSE pack.routes[r].slots

-----------------------------------------------------------------------------
(* Assignments, and the counters they determine                            *)

Mover(r, slot) == [moving |-> TRUE, route |-> r, slot |-> slot]
\* A checkpoint of an older version may give a position the place no longer has.
Parked(a, place, exact) ==
    [moving |-> FALSE, anchor |-> a, place |-> place, exact |-> exact]

PlacesOf(a) == {pack.anchors[a].places[i] : i \in DOMAIN pack.anchors[a].places}
Movers == UNION {{Mover(r, s) : s \in 0 .. pack.routes[r].slots - 1} : r \in Routes}
ParkedOnes == UNION {{Parked(a, p, x) : p \in PlacesOf(a), x \in BOOLEAN} : a \in Anchors}

MoversOn(r) ==
    {v \in Vehicles : assignment[v] # None /\ assignment[v].moving /\ assignment[v].route = r}
ParkedAt(a) ==
    {v \in Vehicles : assignment[v] # None /\ ~assignment[v].moving /\ assignment[v].anchor = a}
Occupancy(r) == Cardinality(MoversOn(r))
UsedSlots(r) == {assignment[v].slot : v \in MoversOn(r)}
MovingAssigned(g) == Cardinality(UNION {MoversOn(r) : r \in {r \in Routes : RegionOf(r) = g}})
ParkedAssigned(g) == Cardinality(UNION {ParkedAt(a) : a \in {a \in Anchors : AnchorRegion(a) = g}})
Reserved == UNION {{assignment[v].place : v \in ParkedAt(a)} : a \in Anchors}

\* The capacity of the routes in a set is the number of its slots.
SlotsIn(rs) == Cardinality(UNION {{r} \X (1 .. Capacity(r)) : r \in rs})
RegionCapacity(g) == SlotsIn({r \in Routes : RegionOf(r) = g})
WeightTotal == Cardinality(UNION {{g} \X (1 .. pack.weight[g]) : g \in Regions})

Fits(place) == \A p \in Reserved : ~Near(p, place)
FreePlaces(a) == {i \in DOMAIN pack.anchors[a].places : Fits(pack.anchors[a].places[i])}
\* Candidates are tried outwards from the anchor; one that did not fit never will.
TakeParkedPosition(a) ==
    pack.anchors[a].places[CHOOSE i \in FreePlaces(a) : \A j \in FreePlaces(a) : i <= j]

\* The minimum of a heap that compares share / weight, then the order.
Least(share, weight, order) ==
    CHOOSE x \in DOMAIN share : \A y \in DOMAIN share \ {x} :
        LET a == share[x] * weight[y]
            b == share[y] * weight[x]
        IN  a < b \/ (a = b /\ order * x < order * y)

Coprime(a, b) == \A d \in 2 .. b : a % d # 0 \/ b % d # 0
CoprimeStride_Fault(capacity) == capacity \div 2 + 1 \* not checked to be coprime
CoprimeStride(capacity) ==
    IF capacity <= 1 THEN 1
    ELSE CHOOSE s \in capacity \div 2 + 1 .. capacity + 1 :
            /\ Coprime(s, capacity)
            /\ \A t \in capacity \div 2 + 1 .. s - 1 : ~Coprime(t, capacity)

\* slotStart is a hash of the seed and the route.
SlotAt(r, n) == ((IF seed = 1 THEN 0 ELSE 1) + CoprimeStride(Capacity(r)) * n) % Capacity(r)
Attempts(r) ==
    {n \in ordinal[r] .. ordinal[r] + Capacity(r) - 1 : SlotAt(r, n) \notin UsedSlots(r)}
FirstAttempt(r) == CHOOSE n \in Attempts(r) : \A k \in Attempts(r) : n <= k

-----------------------------------------------------------------------------
(* The initial states and the calls                                        *)

Stationary(n) == [vehicles |-> n, moving |-> 0, continuous |-> FALSE]
Nobody == [v \in Vehicles |-> None]

\* Nothing, or what an older version saved: a moving vehicle at most, and
\* stationary ones that may be too close to each other.
Checkpoints ==
    {Nobody} \cup
    {[v \in Vehicles |-> IF v = 1 THEN first
                        ELSE IF v <= OldVehicles THEN others[v] ELSE None] :
        first \in Movers \cup ParkedOnes, others \in [2 .. OldVehicles -> ParkedOnes]}

Init ==
    /\ pack \in Packs /\ seed \in Seeds
    /\ saved \in Checkpoints
    /\ fleet = Stationary(1)
    /\ mode = "start" /\ pc = "idle"
    /\ restored = Nobody /\ retried = FALSE /\ next = 1 /\ colliding = {} /\ moved = {}
    /\ assignment = Nobody /\ ordinal = [r \in Routes |-> 0]
    /\ failure = "none" /\ launched = None /\ promised = 0

Call(f, m, source, again) ==
    /\ fleet' = f /\ mode' = m /\ restored' = source /\ retried' = again
    /\ pc' = "restore" /\ next' = 1 /\ colliding' = {} /\ moved' = {}
    /\ assignment' = Nobody /\ ordinal' = [r \in Routes |-> 0]
    /\ UNCHANGED <<pack, seed, saved, failure, launched, promised>>

\* evaluateCoverage asks for the stationary devices alone, with nothing restored.
Preflight(n) ==
    /\ pc = "idle"
    /\ Call(Stationary(n), "preflight", Nobody, FALSE)

Start(f) == pc = "idle" /\ Call(f, "start", saved, FALSE)

Throw(why) ==
    /\ pc' = "failed" /\ failure' = why
    /\ UNCHANGED <<pack, seed, saved, fleet, mode, restored, retried, next, colliding,
                   moved, assignment, ordinal, launched, promised>>

GoTo(phase, first) ==
    /\ pc' = phase /\ next' = first
    /\ UNCHANGED <<pack, seed, saved, fleet, mode, restored, retried, colliding,
                   moved, assignment, ordinal, failure, launched, promised>>

Assign(v, a) ==
    /\ assignment' = [assignment EXCEPT ![v] = a]
    /\ UNCHANGED <<pack, seed, saved, fleet, mode, pc, restored, retried,
                   failure, launched, promised>>

RoleChanged(v) == restored[v].moving # (v <= fleet.moving)
Collides_Fault(v) == ~restored[v].exact \* the places already reserved are not looked at
Collides(v) == ~restored[v].exact \/ ~Fits(restored[v].place)

Restore ==
    /\ pc = "restore" /\ next <= fleet.vehicles /\ restored[next] # None
    /\ IF RoleChanged(next) THEN Throw("role")
       ELSE IF restored[next].moving /\ Capacity(restored[next].route) = 0 THEN Throw("continuous")
       ELSE IF ~restored[next].moving /\ Collides(next)
       THEN /\ colliding' = colliding \cup {next} /\ moved' = moved \cup {next}
            /\ next' = next + 1
            /\ UNCHANGED <<pack, seed, saved, fleet, mode, pc, restored, retried, assignment,
                           ordinal, failure, launched, promised>>
       ELSE /\ Assign(next, restored[next]) /\ next' = next + 1
            /\ UNCHANGED <<colliding, moved, ordinal>>

NothingSaved ==
    /\ pc = "restore" /\ next <= fleet.vehicles /\ restored[next] = None
    /\ GoTo("restore", next + 1)

AllRestored == pc = "restore" /\ next > fleet.vehicles /\ GoTo("relocate", next)

\* A checkpoint that is too close to another moves along its own anchor, or
\* is placed like a new vehicle.
Relocate ==
    /\ pc = "relocate" /\ colliding # {}
    /\ LET v == CHOOSE x \in colliding : \A y \in colliding : x <= y
           a == restored[v].anchor
       IN  /\ colliding' = colliding \ {v}
           /\ IF FreePlaces(a) = {} THEN UNCHANGED assignment
              ELSE assignment' =
                       [assignment EXCEPT ![v] = Parked(a, TakeParkedPosition(a), TRUE)]
    /\ UNCHANGED <<pack, seed, saved, fleet, mode, pc, restored, retried, next, moved,
                   ordinal, failure, launched, promised>>

AllRelocated == pc = "relocate" /\ colliding = {} /\ GoTo("check", next)

-----------------------------------------------------------------------------
(* The checks before placement                                             *)

MissingMoving == Cardinality({v \in 1 .. fleet.moving : assignment[v] = None})
AvailableCapacity == SlotsIn(Routes) - Cardinality(UNION {MoversOn(r) : r \in Routes})
TooSmall(g) ==
    LET target == (fleet.moving * pack.weight[g]) \div WeightTotal
    IN  RegionCapacity(g) = 0 \/ RegionCapacity(g) < target
Anchored(g) == \E a \in Anchors : AnchorRegion(a) = g

Check ==
    /\ pc = "check"
    /\ IF MissingMoving > AvailableCapacity THEN Throw("capacity")
       ELSE IF fleet.moving > 0 /\ \E g \in Regions : TooSmall(g) THEN Throw("region")
       ELSE IF fleet.vehicles > fleet.moving /\ \E g \in Regions : ~Anchored(g)
       THEN Throw("anchors")
       ELSE IF \E r \in Routes : Occupancy(r) > Capacity(r) THEN Throw("exceeds")
       ELSE GoTo("moving", 1)

-----------------------------------------------------------------------------
(* The placement of moving, then of stationary vehicles                    *)

Twice(n) == 2 * n + 1 \* (n + 0.5) in halves

RoomIn(g) == {r \in Routes : RegionOf(r) = g /\ Occupancy(r) < Capacity(r)}
MovingRegions == {g \in Regions : MovingAssigned(g) < RegionCapacity(g)}
NextMovingRegion ==
    Least([g \in MovingRegions |-> Twice(MovingAssigned(g))], pack.weight, 1)
NextRoute(g) ==
    Least([r \in RoomIn(g) |-> Twice(Occupancy(r))], [r \in Routes |-> Capacity(r)], seed)

PlaceMoving ==
    /\ pc = "moving" /\ next <= fleet.moving /\ assignment[next] = None
    /\ IF MovingRegions = {} \/ RoomIn(NextMovingRegion) = {} THEN Throw("exhausted")
       ELSE LET r == NextRoute(NextMovingRegion)
            IN  IF Attempts(r) = {} THEN Throw("exhausted")
                ELSE /\ Assign(next, Mover(r, SlotAt(r, FirstAttempt(r))))
                     /\ ordinal' = [ordinal EXCEPT ![r] = FirstAttempt(r) + 1]
                     /\ next' = next + 1
                     /\ UNCHANGED <<colliding, moved>>

MovingThere ==
    /\ pc = "moving" /\ next <= fleet.moving /\ assignment[next] # None
    /\ GoTo("moving", next + 1)

AllMoving == pc = "moving" /\ next > fleet.moving /\ GoTo("parked", next)

\* An anchor without a free place leaves its heap without any other effect, and
\* a region without anchors leaves its own: the choice is among the others.
OpenAnchors(g) == {a \in Anchors : AnchorRegion(a) = g /\ FreePlaces(a) # {}}
ParkedRegions == {g \in Regions : OpenAnchors(g) # {}}
NextParkedRegion ==
    Least([g \in ParkedRegions |-> Twice(ParkedAssigned(g))], pack.weight, 1)
NextAnchor(g) ==
    Least([a \in OpenAnchors(g) |-> Cardinality(ParkedAt(a))], [a \in Anchors |-> 1], seed)

Unplaced == pc = "parked" /\ next <= fleet.vehicles /\ assignment[next] = None

PlaceParked ==
    /\ Unplaced /\ ParkedRegions # {}
    /\ LET a == NextAnchor(NextParkedRegion)
       IN  Assign(next, Parked(a, TakeParkedPosition(a), TRUE))
    /\ next' = next + 1
    /\ UNCHANGED <<colliding, moved, ordinal>>

ParkedThere ==
    /\ pc = "parked" /\ next <= fleet.vehicles /\ assignment[next] # None
    /\ GoTo("parked", next + 1)

RestoredParkedUsed_Fault == moved # {} \* only those too close are thought to be in the way
RestoredParkedUsed == \E v \in fleet.moving + 1 .. fleet.vehicles : restored[v] # None

MovingRestored == [v \in Vehicles |-> IF v <= fleet.moving THEN restored[v] ELSE None]

\* One fresh arrangement of the stationary vehicles; the moving ones keep theirs.
Retry ==
    /\ Unplaced /\ ParkedRegions = {} /\ RestoredParkedUsed /\ ~retried
    /\ Call(fleet, mode, MovingRestored, TRUE)

GiveUp ==
    /\ Unplaced /\ ParkedRegions = {} /\ ~(RestoredParkedUsed /\ ~retried)
    /\ Throw("parked")

Placed == pc = "parked" /\ next > fleet.vehicles /\ GoTo("placed", next)

-----------------------------------------------------------------------------
(* After the call                                                          *)

Return ==
    /\ pc' = "idle" /\ fleet' = Stationary(1) /\ mode' = "start" /\ failure' = "none"
    /\ restored' = Nobody /\ retried' = FALSE /\ next' = 1 /\ colliding' = {} /\ moved' = {}
    /\ assignment' = Nobody /\ ordinal' = [r \in Routes |-> 0]
    /\ UNCHANGED <<pack, seed>>

\* The coverage check passes for this number of stationary devices.
Report ==
    /\ pc = "placed" /\ mode = "preflight"
    /\ promised' = IF fleet.vehicles > promised THEN fleet.vehicles ELSE promised
    /\ Return /\ UNCHANGED <<saved, launched>>

\* The worker saves the new fleet before any vehicle moves.
Launch ==
    /\ pc = "placed" /\ mode = "start"
    /\ saved' = assignment /\ launched' = fleet
    /\ Return /\ UNCHANGED promised

Refuse == pc = "failed" /\ Return /\ UNCHANGED <<saved, launched, promised>>

\* Between two starts the moving vehicles are anywhere on their routes.
Drive(v) ==
    /\ pc = "idle" /\ saved[v] # None /\ saved[v].moving
    /\ \E slot \in 0 .. pack.routes[saved[v].route].slots - 1 :
        saved' = [saved EXCEPT ![v].slot = slot]
    /\ UNCHANGED <<pack, seed, fleet, mode, pc, restored, retried, next, colliding,
                   moved, assignment, ordinal, failure, launched, promised>>

Next ==
    \/ \E n \in Vehicles : Preflight(n)
    \/ \E f \in Fleets : Start(f)
    \/ Restore \/ NothingSaved \/ AllRestored \/ Relocate \/ AllRelocated \/ Check
    \/ PlaceMoving \/ MovingThere \/ AllMoving
    \/ PlaceParked \/ ParkedThere \/ Retry \/ GiveUp \/ Placed
    \/ Report \/ Launch \/ Refuse
    \/ \E v \in Vehicles : Drive(v)

Spec == Init /\ [][Next]_vars

-----------------------------------------------------------------------------
(* Properties                                                              *)

TypeOK ==
    /\ pack \in Packs /\ seed \in Seeds
    /\ saved \in [Vehicles -> Movers \cup ParkedOnes \cup {None}]
    /\ restored \in [Vehicles -> Movers \cup ParkedOnes \cup {None}]
    /\ assignment \in [Vehicles -> Movers \cup ParkedOnes \cup {None}]
    /\ fleet \in Fleets \cup {Stationary(n) : n \in Vehicles} /\ mode \in {"start", "preflight"} /\ retried \in BOOLEAN
    /\ pc \in {"idle", "restore", "relocate", "check", "moving", "parked", "placed", "failed"}
    /\ next \in 1 .. MaxVehicles + 1 /\ colliding \subseteq moved /\ moved \subseteq Vehicles
    /\ ordinal \in [Routes -> Nat] /\ promised \in 0 .. MaxVehicles
    /\ launched \in Fleets \cup {None}

ExactlyTheFleet ==
    \A v \in Vehicles :
        IF v > fleet.vehicles THEN assignment[v] = None
        ELSE assignment[v] # None /\ assignment[v].moving = (v <= fleet.moving)

StandApart ==
    \A a, b \in Anchors : \A v \in ParkedAt(a), w \in ParkedAt(b) :
        v # w => ~Near(assignment[v].place, assignment[w].place)

WithinCapacity == \A r \in Routes : Occupancy(r) <= Capacity(r)

\* A vehicle placed anew has a stretch of its route to itself.
NewcomersSpaced ==
    \A r \in Routes : \A v, w \in MoversOn(r) :
        v # w /\ saved[v] = None => assignment[v].slot # assignment[w].slot

KeepsPlace ==
    \A v \in 1 .. fleet.vehicles :
        saved[v] # None /\ (saved[v].moving \/ (v \notin moved /\ ~retried))
            => assignment[v] = saved[v]

\* A fleet that is placed is placed whole: every vehicle in its role, stationary
\* ones at least 50 m apart, routes within capacity, new moving vehicles on a
\* stretch of their own, and every vehicle that was not too close to another
\* where its checkpoint left it, the moving ones even after the stationary ones
\* were rearranged.  The errors the code raises when its own counters contradict
\* each other (lines 229, 245, 247 and 597) never happen.
PlacementSound ==
    /\ TypeOK
    /\ failure \notin {"exhausted", "exceeds"}
    /\ pc = "placed" /\ mode = "start" =>
        ExactlyTheFleet /\ StandApart /\ WithinCapacity /\ NewcomersSpaced /\ KeepsPlace

\* A start is never refused for a fleet that started before, wherever it has
\* driven since; and never for want of stationary positions when the coverage
\* check counted enough of them, whatever the checkpoint holds: the check ignores
\* the checkpoint, so this rests on the second arrangement ("so a coverage pass
\* cannot precede a failure", route-capacity.js:39).
StartKeepsPromise ==
    pc = "failed" /\ mode = "start" =>
        /\ fleet # launched
        /\ failure \in {"parked", "anchors"} => fleet.vehicles - fleet.moving > promised
=============================================================================
