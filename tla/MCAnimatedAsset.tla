--------------------------- MODULE MCAnimatedAsset ---------------------------
(* Two scenes the bridge accepts and two it refuses.                          *)
(*                                                                            *)
(* The guard: root (0) - hip (1) - twist (2) - arm (3) - socket_hand (4). The *)
(* skin has the arm before the hip; root and twist do not deform but are      *)
(* animated, the root turns round in every turn of its walk, and the arm's    *)
(* scale passes through zero in its wave. A third clip is longer than it says.*)
(*                                                                            *)
(* The drone: body (10) with an animated socket (11) that carries a socket of *)
(* its own (12), and a socket under nothing (13). Its walk has two channels   *)
(* for the same path.                                                         *)
EXTENDS AnimatedAsset

At(translation, rotation, scale) ==
    [translation |-> translation, rotation |-> rotation, scale |-> scale]

MCNode(index, name, socket, parent, children, transform) ==
    [nodeIndex |-> index, name |-> name, socket |-> socket, parentNodeIndex |-> parent,
     children |-> children, localTransform |-> transform]

MCChannel(node, path, interpolation, keys) ==
    [targetNodeIndex |-> node, targetPath |-> path, interpolation |-> interpolation,
     keys |-> [i \in DOMAIN keys |-> [time |-> keys[i][1], value |-> keys[i][2]]]]

MCAnimation(name, duration, channels) ==
    [name |-> name, durationSeconds |-> duration, channels |-> channels]

MCJoint(index, name, inverse) ==
    [nodeIndex |-> index, name |-> name, inverseBindMatrix |-> inverse]

GuardNodes ==
    <<MCNode(0, "root", FALSE, -1, <<1>>, At(1, 1, 1)),
      MCNode(1, "hip", FALSE, 0, <<2>>, At(2, 1, 1)),
      MCNode(2, "twist", FALSE, 1, <<3>>, At(1, -1, 1)),
      MCNode(3, "arm", FALSE, 2, <<4>>, At(1, 1, 2)),
      MCNode(4, "hand", TRUE, 3, << >>, At(1, 1, 1))>>

GuardClips ==
    <<MCAnimation("walk", 2, <<MCChannel(0, "translation", "linear", <<<<0, 1>>, <<2, 3>>>>),
                               MCChannel(0, "rotation", "step", <<<<0, 1>>, <<1, -1>>>>)>>),
      MCAnimation("wave", 2, <<MCChannel(3, "scale", "cubic", <<<<0, 2>>, <<2, -2>>>>),
                               MCChannel(2, "translation", "linear", <<<<0, 1>>, <<1, 3>>>>)>>),
      MCAnimation("late", 1, <<MCChannel(1, "translation", "linear", <<<<0, 1>>, <<2, 3>>>>)>>)>>

GuardSkin ==
    [joints |-> <<MCJoint(3, "arm", [linear |-> 1, offset |-> -3]),
                  MCJoint(1, Unnamed, [linear |-> 1, offset |-> -3])>>]

Guard == [nodes |-> GuardNodes, skins |-> <<GuardSkin>>, animations |-> GuardClips]

DroneNodes ==
    <<MCNode(12, "lamp", TRUE, 11, << >>, At(1, -1, 1)),
      MCNode(11, "mount", TRUE, 10, <<12>>, At(2, 1, 1)),
      MCNode(10, "body", FALSE, -1, <<11>>, At(0, 1, 1)),
      MCNode(13, "loose", TRUE, -1, << >>, At(0, 1, 1))>>

DroneClips ==
    <<MCAnimation("walk", 1, <<MCChannel(11, "translation", "linear", <<<<0, 7>>, <<1, 8>>>>),
                               MCChannel(10, "translation", "linear", <<<<0, 0>>, <<1, 2>>>>),
                               MCChannel(11, "translation", "step", <<<<0, 2>>, <<1, 5>>>>)>>)>>

Drone ==
    [nodes |-> DroneNodes,
     skins |-> <<[joints |-> <<MCJoint(10, "body", IdentityMatrix)>>]>>,
     animations |-> DroneClips]

\* The arm hangs from the hand, and two nodes claim the arm.
Ring ==
    [Guard EXCEPT !.nodes = [@ EXCEPT ![1].children = << >>, ![2].parentNodeIndex = 4,
                                      ![5].children = <<1>>]]

Claimed == [Guard EXCEPT !.nodes = [@ EXCEPT ![1].children = <<1, 3>>]]

MCScenes == <<Guard, Drone, Ring, Claimed>>

Body(skin, joints) ==
    [skin |-> skin, positions |-> <<5, 9>>, normals |-> <<1, -1>>, joints |-> joints,
     weights |-> <<<<4, 0>>, <<2, 2>>>>]

MCMeshes ==
    <<<<Body(1, <<<<1, 1>>, <<1, 2>>>>), Body(0, <<<<1, 1>>, <<1, 2>>>>)>>,
      <<Body(1, <<<<1, 1>>, <<1, 9>>>>)>>,
      << >>, << >>>>

Wanted(s, clip, wrapMode, playbackRate) ==
    [scene |-> s, clip |-> clip, wrapMode |-> wrapMode, playbackRate |-> playbackRate]

MCPlays ==
    {Wanted(1, "walk", "loop", 1), Wanted(1, "walk", "loop", -1),
     Wanted(1, "wave", "clamp", 1), Wanted(1, "wave", "clamp", Nothing),
     Wanted(2, "walk", "clamp", 1)}

MCLayerRoots ==
    {[scene |-> 1, clip |-> "wave", root |-> 1, weight |-> 4, playbackRate |-> 1],
     [scene |-> 1, clip |-> "walk", root |-> 2, weight |-> 2, playbackRate |-> 0]}

MCLimits ==
    [joints |-> 4, sockets |-> 2, depth |-> 4, tracks |-> 2, keys |-> 2, duration |-> 2]
==============================================================================
