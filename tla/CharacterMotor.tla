--------------------------- MODULE CharacterMotor ---------------------------
(* The character motor (stepCharacterMotor of PhysicsSystem.cpp) in a column  *)
(* of the world, with colliders that move up and down.                        *)
(*                                                                            *)
(* The game steps the motor and then advances the colliders, as the sandbox   *)
(* does (EngineSandbox.cpp). A step is one action: timers and crouch, ground  *)
(* before the move, jump, gravity, sweep, ground after the move, landing.     *)
(* Times are milliseconds and stop counting where no test tells them apart    *)
(* any more. Speeds along the ground, names of surfaces, and telemetry that   *)
(* repeats what the state says are left out.                                  *)
EXTENDS CharacterWorld, Sequences

CONSTANTS
    Games,               \* the worlds with their initial colliders and positions
    TickMilliseconds,
    StandingHeight, CrouchedHeight, CrouchTransition,   \* thousandths in a tick
    Gravity, JumpSpeed, TerminalFallSpeed, GroundAdhesion,
    CoyoteTime, JumpBuffer,
    HardLandingSpeed, LandingRecovery

ASSUME MotorConstants ==
    /\ {TickMilliseconds, Gravity, StandingHeight, CrouchedHeight} \subseteq Nat \ {0}
    /\ {CrouchTransition, JumpSpeed, TerminalFallSpeed, GroundAdhesion, CoyoteTime,
        JumpBuffer, HardLandingSpeed, LandingRecovery} \subseteq Nat
    /\ CrouchedHeight <= StandingHeight

\* A game numbers its colliders in the order of their names, keeps their tops in
\* their ranges, and has none whose top lies under the floor.
ASSUME GamesAssumption ==
    \A g \in Games :
        /\ IsFiniteSet(DOMAIN g.colliders) /\ DOMAIN g.colliders \subseteq Nat \ {FloorMain}
        /\ g.heights \subseteq Nat /\ g.crouching \subseteq BOOLEAN
        /\ \A id \in DOMAIN g.colliders :
              /\ g.colliders[id] \in Collider /\ g.colliders[id].low <= g.colliders[id].high
              /\ g.range[id] \subseteq Nat
              /\ g.colliders[id].high + g.colliders[id].velocity \in g.range[id]
        /\ \A velocities \in g.velocities :
              /\ DOMAIN velocities = DOMAIN g.colliders
              /\ \A id \in DOMAIN velocities : velocities[id] \in Int

VARIABLES
    game,
    staticColliders,
    state,        \* CharacterMotorState
    step,         \* what the last step reported
    stepped,      \* TRUE until the colliders have moved as well
    press,        \* history: the age of the last press no earlier step has used
    lost,         \* history: the time since the character stood, or LongLost
    crest         \* history: the height from which the character has been falling

observed == <<press, lost, crest>>
vars == <<game, staticColliders, state, step, stepped, observed>>

\* An age no press is remembered at.
Forgotten == JumpBuffer + TickMilliseconds

\* Who has jumped or never stood has no support to have lost lately.
LongLost == CoyoteTime + TickMilliseconds

-----------------------------------------------------------------------------
Toward(current, target, maxDelta) ==
    IF current < target THEN Min({target, current + maxDelta})
    ELSE Max({target, current - maxDelta})

CountedTo(limit, time) == Min({limit, time + TickMilliseconds})
CountedDown(time) == Max({0, time - TickMilliseconds})

Height(crouchFraction) ==
    StandingHeight - ((StandingHeight - CrouchedHeight) * crouchFraction) \div Whole

\* The timers, the crouch and the command, before anything moves.
Prepared(s, jumpPressed, crouchHeld) ==
    [s EXCEPT !.jumpBufferRemaining = IF jumpPressed THEN JumpBuffer ELSE CountedDown(@),
              !.landingRecoveryRemaining = CountedDown(@),
              !.crouchFraction = Toward(@, IF crouchHeld THEN Whole ELSE 0, CrouchTransition)]

Grounded(s) == s.at.ground # NoGround

\* Variant for InitialQuery: only who is near the bottom of the world may step.
InitialQueryFromFloor(s) ==
    Query(Height(s.crouchFraction), Grounded(s) \/ s.velocity <= 0,
          s.at.y <= SnapDownDistance /\ s.velocity <= 0)

InitialQuery(s) ==
    Query(Height(s.crouchFraction),
          Grounded(s) \/ s.velocity <= 0,
          Grounded(s) \/ (s.at.y <= SnapDownDistance /\ s.velocity <= 0))

VelocityOfGround(world, s) ==
    IF Grounded(s) THEN Surface(world, s.at.ground).velocity ELSE 0

\* A step under way is [state, jumped, collision], where collision is the speed
\* before the sweep. Who finds ground first keeps no speed along its normal.
Resolved(world, s) ==
    LET at == resolveCharacter(world, InitialQuery(s), s.at) IN
    [state |-> [s EXCEPT !.at = at,
                         !.velocity = IF at.ground = NoGround THEN @ ELSE 0],
     jumped |-> FALSE, collision |-> 0]

MayJump(was, s) ==
    /\ s.jumpBufferRemaining > 0
    /\ \/ Grounded(s)
       \/ (Grounded(was) \/ s.groundedSeconds > 0) /\ s.timeSinceGrounded <= CoyoteTime

\* Variant for TakenOff: the press stays in the buffer.
TakenOffKeepingPress(world, s) ==
    [s EXCEPT !.velocity = JumpSpeed + Max({0, VelocityOfGround(world, s)}),
              !.at = [s.at EXCEPT !.ground = NoGround],
              !.timeSinceGrounded = CoyoteTime + TickMilliseconds]

\* A jump takes a rising ground's speed along and uses the press up.
TakenOff(world, s) ==
    [s EXCEPT !.velocity = JumpSpeed + Max({0, VelocityOfGround(world, s)}),
              !.at = [s.at EXCEPT !.ground = NoGround],
              !.jumpBufferRemaining = 0,
              !.timeSinceGrounded = CoyoteTime + TickMilliseconds]

Jump(world, was, move) ==
    IF MayJump(was, move.state)
    THEN [move EXCEPT !.jumped = TRUE, !.state = TakenOff(world, move.state)]
    ELSE move

Fall(move) ==
    IF Grounded(move.state) THEN move
    ELSE LET velocity == Max({- TerminalFallSpeed, move.state.velocity - Gravity}) IN
         [move EXCEPT !.state = [move.state EXCEPT !.velocity = velocity],
                      !.collision = velocity]

\* On the ground the way is that of the ground, pressed down onto it.
Displacement(world, s) ==
    s.velocity + IF Grounded(s) THEN VelocityOfGround(world, s) - GroundAdhesion ELSE 0

SweepQuery(world, s) ==
    Query(Height(s.crouchFraction), Displacement(world, s) <= 20,
          Grounded(s) /\ Displacement(world, s) <= 20)

\* What the sweep ran into takes the speed that leads there.
Clipping(velocity, normals) ==
    IF \E normal \in normals : velocity * normal < 0 THEN 0 ELSE velocity

FinalQuery(move, velocity) ==
    Query(Height(move.state.crouchFraction),
          ~move.jumped /\ velocity <= 1,
          Grounded(move.state) /\ ~move.jumped /\ velocity <= 1)

Finished(world, move, swept) ==
    LET velocity == Clipping(move.state.velocity, swept.normals)
        at == resolveCharacter(world, FinalQuery(move, velocity), swept.at)
    IN [move EXCEPT !.state =
           [move.state EXCEPT !.at = at,
                              !.velocity = IF at.ground = NoGround \/ move.jumped
                                           THEN velocity ELSE 0]]

Swept(world, move) ==
    Finished(world, move,
        IF Displacement(world, move.state) = 0
        THEN [at |-> move.state.at, normals |-> {}]
        ELSE sweepCharacter(world, SweepQuery(world, move.state), move.state.at,
                            Displacement(world, move.state)))

-----------------------------------------------------------------------------
(***************************************************************************)
(* Landing                                                                 *)
(***************************************************************************)
Landed(was, move) ==
    /\ ~Grounded(was) /\ Grounded(move.state) /\ ~move.jumped
    /\ \/ was.airborneSeconds > TickMilliseconds
       \/ was.velocity < 0
       \/ move.collision < 0

\* Variant for Impact: the speed against the ground only.
ImpactOfSweep(world, was, move) ==
    Max({0, VelocityOfGround(world, move.state) - move.collision})

\* The speed against the ground, or the speed the step began with where the
\* first look for ground had already taken it.
Impact(world, was, move) ==
    LET relative == VelocityOfGround(world, move.state) - move.collision IN
    IF relative > 0 THEN relative ELSE Max({0, - was.velocity})

HardLanded(world, was, move) ==
    Landed(was, move) /\ Impact(world, was, move) >= HardLandingSpeed

Counted(was, move, s) ==
    IF Grounded(s) /\ ~move.jumped
    THEN [s EXCEPT !.groundedSeconds = TickMilliseconds,
                   !.airborneSeconds = 0,
                   !.timeSinceGrounded = 0]
    ELSE [s EXCEPT !.groundedSeconds = 0,
                   !.airborneSeconds =
                       IF Grounded(was) THEN TickMilliseconds
                       ELSE CountedTo(2 * TickMilliseconds, @),
                   !.timeSinceGrounded =
                       IF Grounded(was) THEN TickMilliseconds
                       ELSE CountedTo(CoyoteTime + TickMilliseconds, @)]

Reported(world, was, move) ==
    [jumped |-> move.jumped,
     landed |-> Landed(was, move),
     hardLanded |-> HardLanded(world, was, move),
     supportChanged |-> /\ Grounded(was) /\ Grounded(move.state)
                        /\ was.at.ground # move.state.at.ground,
     supportLost |-> Grounded(was) /\ ~Grounded(move.state) /\ ~move.jumped]

AfterStep(world, was, move) ==
    Counted(was, move,
        IF HardLanded(world, was, move)
        THEN [move.state EXCEPT !.landingRecoveryRemaining = LandingRecovery]
        ELSE move.state)

Stepped(world, was, jumpPressed, crouchHeld) ==
    Swept(world, Fall(Jump(world, was,
        Resolved(world, Prepared(was, jumpPressed, crouchHeld)))))

-----------------------------------------------------------------------------
NothingHappened ==
    [jumped |-> FALSE, landed |-> FALSE, hardLanded |-> FALSE,
     supportChanged |-> FALSE, supportLost |-> FALSE]

\* A CharacterMotorState as it is made, put somewhere.
Fresh(y, beside) ==
    [at |-> [y |-> y, beside |-> beside, ground |-> NoGround],
     velocity |-> 0, crouchFraction |-> 0,
     airborneSeconds |-> 0, groundedSeconds |-> 0, timeSinceGrounded |-> 0,
     jumpBufferRemaining |-> 0, landingRecoveryRemaining |-> 0]

Init ==
    /\ game \in Games
    /\ staticColliders = game.colliders
    /\ \E y \in game.heights : state = Fresh(y, FALSE) /\ crest = y
    /\ step = NothingHappened
    /\ stepped = FALSE
    /\ press = Forgotten /\ lost = LongLost

StepCharacterMotor(jumpPressed, crouchHeld) ==
    /\ ~stepped
    /\ \E move \in {Stepped(staticColliders, state, jumpPressed, crouchHeld)} :
          /\ state' = AfterStep(staticColliders, state, move)
          /\ step' = Reported(staticColliders, state, move)
    /\ stepped' = TRUE
    /\ press' = IF jumpPressed THEN 0
                ELSE IF step.jumped THEN Forgotten
                ELSE CountedTo(Forgotten, press)
    /\ lost' = IF step'.jumped THEN LongLost
               ELSE IF Grounded(state') THEN 0 ELSE CountedTo(LongLost, lost)
    /\ crest' = IF state'.velocity >= 0 THEN state'.at.y ELSE crest
    /\ UNCHANGED <<game, staticColliders>>

\* The colliders move, and the game may give them other velocities as long as
\* they stay in their range.
AdvanceKinematicColliders(velocities) ==
    /\ stepped
    /\ stepped' = FALSE
    /\ staticColliders' =
          setColliderKinematics(advanceKinematicColliders(staticColliders), velocities)
    /\ \A id \in DOMAIN velocities :
          staticColliders'[id].high + velocities[id] \in game.range[id]
    /\ UNCHANGED <<game, state, step, observed>>

Next ==
    \/ \E jumpPressed \in BOOLEAN, crouchHeld \in game.crouching :
          StepCharacterMotor(jumpPressed, crouchHeld)
    \/ \E velocities \in game.velocities : AdvanceKinematicColliders(velocities)

Spec == Init /\ [][Next]_vars

-----------------------------------------------------------------------------
(***************************************************************************)
(* Properties                                                              *)
(***************************************************************************)
Above(id) == state.at.y >= staticColliders[id].high

\* What the character can be put on, by a step and a snap or by its tolerance.
Reaches(id, reaching) ==
    canSnapToSurface(Query(0, reaching, reaching), state.at.y, Surface(staticColliders, id))

\* What the character touches, or can reach if it is not rising.
Supports(id) == Reaches(id, FALSE) \/ (state.velocity <= 0 /\ Reaches(id, TRUE))

\* MayJump and the jump buffer: a press leads to one jump at most, within its
\* time, and at once for who stands, unless a jump was stopped there by a ceiling
\* and the ground has gone since; and who jumps stands, has lost support within
\* the coyote time and not jumped since, or has something to jump from.
JumpsAreEarned ==
    [][ ~stepped =>
        /\ step'.jumped =>
              /\ press' < JumpBuffer
              /\ \/ Grounded(state) \/ lost <= CoyoteTime
                 \/ \E id \in DOMAIN staticColliders \union {FloorMain} : Supports(id)
        /\ /\ Grounded(state) /\ press' < JumpBuffer
           /\ step.jumped => Reaches(state.at.ground, TRUE)
           => step'.jumped ]_vars

\* sweepCharacter: nobody who was over a ground that does not sink is below its top
\* after a step, however fast the fall, and nobody ever below the floor.
NoTunnelling ==
    [][ ~stepped =>
        /\ state'.at.y >= 0
        /\ \A id \in DOMAIN staticColliders :
              /\ isGroundSurface(staticColliders[id]) /\ staticColliders[id].velocity >= 0
              /\ Above(id)
              => Above(id)' ]_vars

\* A ground the character can keep up with: it moves no farther in a tick than
\* the character can step up or snap down.
CanFollow ==
    /\ Grounded(state)
    /\ Supports(state.at.ground)
    /\ VelocityOfGround(staticColliders, state) \in - MaxStepHeight .. SnapDownDistance

\* The ground found before and after the sweep: who stands on such a ground and
\* does not jump stands on it after the step, or on something higher, whether it
\* rises, sinks or turns round.
PassengersStayAboard ==
    [][ ~stepped /\ CanFollow /\ ~step'.jumped =>
        /\ Grounded(state')
        /\ Surface(staticColliders, state'.at.ground).high
              >= Surface(staticColliders, state.at.ground).high ]_vars

\* The fall, in millimetres, at whose end the speed is v.
FallTo(v) == (v * v) \div (2 * Gravity)

\* The impact of a landing: on what does not move it is hard just where the fall
\* was high, within one tick's gravity and the reach of the snap.
HardLandingsAreHighFalls ==
    [][ ~stepped /\ step'.landed
            /\ Surface(staticColliders, state'.at.ground).velocity = 0 =>
        LET height == crest - state'.at.y IN
        IF step'.hardLanded THEN height >= FallTo(HardLandingSpeed - Gravity)
        ELSE height <= FallTo(HardLandingSpeed + Gravity) + SnapDownDistance ]_vars
=============================================================================
