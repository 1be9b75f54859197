-------------------------- MODULE MCCharacterMotor --------------------------
(* Six worlds, one tick being a twentieth of a second: a lift that rises and *)
(* sinks, one that drops and shoots up faster than a character can follow, a  *)
(* bridge over the floor, a gate that comes down on whoever stands below, a   *)
(* lift under a beam, and a platform that falls away from under the feet.     *)
EXTENDS CharacterMotor

Still(kind, low, high) ==
    [kind |-> kind, low |-> low, high |-> high, override |-> 0, velocity |-> 0]

World(colliders, heights, range, velocities, crouching) ==
    [colliders |-> colliders, heights |-> heights, range |-> range,
     velocities |-> velocities, crouching |-> crouching]

MCLift ==
    World(<<Still("Cover", 480, 720)>>, {0, 3360}, <<480 .. 720>>,
          {<<-120>>, <<0>>, <<120>>}, {FALSE})

MCDrop ==
    World(<<Still("Ledge", 480, 720)>>, {720}, <<{320, 720}>>,
          {<<-400>>, <<0>>, <<400>>}, {FALSE})

MCBridge ==
    World(<<Still("Ledge", 1920, 2280)>>, {0, 5160}, <<{2280}>>, {<<0>>}, BOOLEAN)

MCGate ==
    World(<<Still("Wall", 1920, 2160)>>, {0}, <<1800 .. 2160>>,
          {<<-120>>, <<0>>, <<120>>}, BOOLEAN)

MCBeam ==
    World(<<Still("Cover", 0, 240), Still("Ledge", 2160, 2400)>>, {240},
          <<240 .. 480, {2400}>>, {<<-120, 0>>, <<0, 0>>, <<120, 0>>}, {FALSE})

MCTrapdoor ==
    World(<<Still("Ledge", 1080, 1320)>>, {1320}, <<{720, 1320}>>,
          {<<-600>>, <<0>>, <<600>>}, {FALSE})

MCGames == {MCLift, MCDrop, MCBridge, MCGate, MCBeam, MCTrapdoor}
=============================================================================
