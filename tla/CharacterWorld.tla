--------------------------- MODULE CharacterWorld ---------------------------
(* The collision queries of a character (CharacterController.cpp) in one      *)
(* column of the world: every collider lies over the same rectangle of the    *)
(* ground, and the character, which does not walk, stands inside it or, once  *)
(* pushed out, beside it, where it still touches the rectangle's edge.        *)
(*                                                                            *)
(* Heights are whole millimetres, speeds millimetres per tick, parts of a     *)
(* sweep thousandths; the tolerances of the code, a tenth of a millimetre and *)
(* less, are exact comparisons here. A collider is a record [kind, low, high, *)
(* override, velocity], override being stepOverrideHeight; its number stands  *)
(* for its name, floor_main being the first of all names. Ramps are flat, and *)
(* colliders that do not block, which every loop skips, are left out.         *)
EXTENDS Integers, FiniteSetsExt

CONSTANTS
    SnapDownDistance,
    MaxStepHeight,
    MaxSweepIterations

ASSUME WorldConstants ==
    /\ SnapDownDistance \in Nat /\ MaxStepHeight \in Nat
    /\ MaxSweepIterations \in 1..8

FloorMain == 0
NoGround == -1

\* A surface a sweep never meets, and the whole of a sweep.
Whole == 1000

SurfaceKind == {"Floor", "Wall", "Ramp", "Cover", "WallRun", "Slide", "Ledge"}
Collider ==
    [kind : SurfaceKind, low : Int, high : Nat, override : Nat, velocity : Int]

isGroundSurface(collider) ==
    collider.kind \in {"Floor", "Ramp", "Cover", "Slide", "Ledge"}

isBlockingSideSurface(collider) ==
    collider.kind \in {"Wall", "Cover", "WallRun", "Ledge"}

\* A character that looks for ground may snap onto it from above, step onto it
\* from below, or only keep it under its feet, within a millimetre.
Query(height, snap, step) ==
    [height |-> height, enableGroundSnap |-> snap, enableStepUp |-> step]

-----------------------------------------------------------------------------
(***************************************************************************)
(* Ground                                                                  *)
(***************************************************************************)
rampRise(collider) ==
    IF collider.kind \in {"Ramp", "Slide"} THEN collider.high - collider.low + 40 ELSE 0

MaxStepUp(query, collider) ==
    IF query.enableStepUp
    THEN Max({MaxStepHeight, collider.override, rampRise(collider)})
    ELSE 1

MaxSnapDown(query, collider) ==
    IF query.enableGroundSnap THEN SnapDownDistance + rampRise(collider) ELSE 1

canSnapToSurface(query, y, collider) ==
    collider.high - y \in - MaxSnapDown(query, collider) .. MaxStepUp(query, collider)

floorColliderForBounds ==
    [kind |-> "Floor", low |-> -100, high |-> 0, override |-> 0, velocity |-> 0]

Surface(world, id) == IF id = FloorMain THEN floorColliderForBounds ELSE world[id]

Reachable(world, query, y) ==
    {id \in DOMAIN world : /\ isGroundSurface(world[id])
                           /\ canSnapToSurface(query, y, world[id])}

\* resolveGroundSurfaces: the highest surface within reach, of two at one height
\* the one whose name comes first, and the floor only where there is no other.
Ground(world, query, y) ==
    LET found == Reachable(world, query, y) IN
    IF found # {}
    THEN CHOOSE id \in found : \A other \in found :
            \/ world[id].high > world[other].high
            \/ world[id].high = world[other].high /\ id <= other
    ELSE IF canSnapToSurface(query, y, floorColliderForBounds) THEN FloorMain
    ELSE NoGround

\* recordGround: the feet are put on the ground that was found.
Placed(world, at, id) ==
    IF id = NoGround THEN [at EXCEPT !.ground = NoGround]
    ELSE [at EXCEPT !.ground = id, !.y = Surface(world, id).high]

resolveGroundSurfaces(world, query, at) ==
    Placed(world, at, Ground(world, query, at.y))

-----------------------------------------------------------------------------
(***************************************************************************)
(* Sides                                                                   *)
(***************************************************************************)
verticalRangesOverlap(y, height, collider) ==
    y + height > collider.low /\ y < collider.high

\* One push brings the character to the edge of the common rectangle, however
\* many colliders it was in; there it is no deeper than its radius in any.
resolveSidePenetrations(world, query, at) ==
    [at EXCEPT !.beside =
        \/ @
        \/ \E id \in DOMAIN world :
              /\ isBlockingSideSurface(world[id])
              /\ verticalRangesOverlap(at.y, query.height, world[id])]

\* Ground, sides and, because a push may change what is below, ground again.
resolveCharacter(world, query, at) ==
    resolveGroundSurfaces(world, query,
        resolveSidePenetrations(world, query,
            resolveGroundSurfaces(world, query, [at EXCEPT !.y = Max({@, 0})])))

-----------------------------------------------------------------------------
(***************************************************************************)
(* Sweeps                                                                  *)
(*                                                                         *)
(* A sweep is [at, remaining, time, planes, normals]: where the character  *)
(* is, the way and the part of the tick it has left, what clips its way    *)
(* (a sequence of [normal, velocity], one for a normal, which is 1 for a   *)
(* ground and -1 for a ceiling) and the normals it ran into. Nothing moves *)
(* sideways, so that no side is hit and nothing is stepped onto.           *)
(***************************************************************************)
Part(whole, part) == (whole * part) \div Whole

RelativeWay(sweep, collider) ==
    sweep.remaining - Part(collider.velocity, sweep.time)

Hit(part, normal, id, velocity) ==
    [part |-> part, normal |-> normal, id |-> id, velocity |-> velocity]

\* Variant for GroundHits: only what the feet are on or below.
GroundHitsTouching(world, sweep) ==
    {Hit(0, 1, id, world[id].velocity)
     : id \in {i \in DOMAIN world : /\ isGroundSurface(world[i])
                                    /\ RelativeWay(sweep, world[i]) < 0
                                    /\ sweep.at.y <= world[i].high}}

\* Every surface above the feet counts as crossed at once by who goes down, and
\* one that is not reached as crossed at the very end.
GroundHits(world, sweep) ==
    {LET clearance == sweep.at.y - world[id].high
         way == RelativeWay(sweep, world[id])
     IN Hit(IF clearance <= 0 THEN 0 ELSE Min({Whole, (clearance * Whole) \div (- way)}),
            1, id, world[id].velocity)
     : id \in {i \in DOMAIN world : /\ isGroundSurface(world[i])
                                    /\ RelativeWay(sweep, world[i]) < 0}}

CeilingHits(world, query, sweep) ==
    {Hit(((world[id].low - sweep.at.y - query.height) * Whole)
            \div RelativeWay(sweep, world[id]), -1, id, world[id].velocity)
     : id \in {i \in DOMAIN world :
                 LET room == world[i].low - sweep.at.y - query.height IN
                 0 <= room /\ room <= RelativeWay(sweep, world[i])
                           /\ RelativeWay(sweep, world[i]) > 0}}

FloorHits(sweep) ==
    IF sweep.at.y > 0 /\ sweep.at.y <= - sweep.remaining
    THEN {Hit((sweep.at.y * Whole) \div (- sweep.remaining), 1, FloorMain, 0)}
    ELSE {}

\* The hits at the earliest moment. Those at the end of the way are none.
findEarliestSweepHits(world, query, sweep) ==
    LET hits == GroundHits(world, sweep) \union CeilingHits(world, query, sweep)
                    \union FloorHits(sweep)
    IN {hit \in hits : hit.part < Whole /\ \A other \in hits : hit.part <= other.part}

\* Up to 3 mm, or a twentieth of the way, are left between a character and a hit.
Safety(sweep) == Min({50, (3 * Whole) \div Max({sweep.remaining, - sweep.remaining})})

NewPlanes(planes, hits) ==
    {[normal |-> hit.normal, velocity |-> hit.velocity] :
        hit \in {h \in hits :
            /\ h.normal \notin {plane.normal : plane \in planes}
            /\ \A other \in hits : other.normal = h.normal => h.id <= other.id}}

\* The way is clipped by the one plane it was stopped at: what leads into it is
\* lost and the way of the plane is added. Between two planes nothing is left.
Clipped(sweep) ==
    LET plane == CHOOSE p \in sweep.planes : TRUE
        carried == Part(plane.velocity, sweep.time)
    IN IF Cardinality(sweep.planes) = 2 THEN [sweep EXCEPT !.remaining = 0]
       ELSE IF (sweep.remaining - carried) * plane.normal < 0
            THEN [sweep EXCEPT !.remaining = carried]
            ELSE sweep

Moved(sweep, part) ==
    [at |-> [sweep.at EXCEPT !.y = @ + Part(sweep.remaining, part)],
     remaining |-> sweep.remaining - Part(sweep.remaining, part),
     time |-> sweep.time - Part(sweep.time, part),
     planes |-> sweep.planes]

Stopped(sweep, hits) ==
    Clipped([Moved(sweep, Max({0, (CHOOSE hit \in hits : TRUE).part - Safety(sweep)}))
                EXCEPT !.planes = @ \union NewPlanes(@, hits)])

Advanced(sweep, hits) ==
    IF hits = {} THEN Moved(sweep, Whole) ELSE Stopped(sweep, hits)

\* sweepCharacter: the start is resolved without a snap, the end with the query
\* as it came. The normals are those of the contacts on the way.
Started(world, query, at, displacement) ==
    [at |-> resolveCharacter(world, [query EXCEPT !.enableGroundSnap = FALSE], at),
     remaining |-> displacement, time |-> Whole, planes |-> {}]

Continued(world, query, sweep) ==
    IF sweep.remaining = 0 THEN sweep
    ELSE Advanced(sweep, findEarliestSweepHits(world, query, sweep))

sweepCharacter(world, query, at, displacement) ==
    LET run[i \in 0 .. MaxSweepIterations] ==
            IF i = 0 THEN Started(world, query, at, displacement)
            ELSE Continued(world, query, run[i - 1])
    IN [at |-> resolveCharacter(world, query, run[MaxSweepIterations].at),
        normals |-> {plane.normal : plane \in run[MaxSweepIterations].planes}]

-----------------------------------------------------------------------------
(***************************************************************************)
(* Moving colliders                                                        *)
(***************************************************************************)
advanceKinematicColliders(world) ==
    [id \in DOMAIN world |->
        [world[id] EXCEPT !.low = @ + world[id].velocity,
                          !.high = @ + world[id].velocity]]

\* setColliderKinematics, the centre kept.
setColliderKinematics(world, velocities) ==
    [id \in DOMAIN world |-> [world[id] EXCEPT !.velocity = velocities[id]]]
=============================================================================
