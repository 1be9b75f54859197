---------------------------- MODULE AnimatedAsset ----------------------------
(* A game that loads glTF scenes, plays their clips on one character and      *)
(* skins its mesh after every call: the bridge and the runtime together. The  *)
(* scenes that the bridge accepts are the assets; a call may name the clip of *)
(* any of them. The output mesh belongs to the skeleton that is set.          *)
EXTENDS AnimationRuntime, GltfAnimationBridge

CONSTANTS
    Scenes,     \* sequences of glTF animation data, one skin each
    Meshes,     \* the mesh of every scene
    Plays,      \* the playbacks the game asks for: [scene, clip, wrapMode, playbackRate]
    LayerRoots, \* the layers it asks for: [scene, clip, root, weight, playbackRate]
    FadeTimes,  \* durations of crossfades
    RootJoints, \* the joints it follows, Nothing to follow none
    Steps,      \* frame times
    MaxTravel   \* bound of the model: how long one clip is followed

\* What the bridge makes of every scene, Nothing where it refuses.
BuiltAssets ==
    [s \in DOMAIN Scenes |-> IF CanBuild(Scenes[s], 1) THEN Built(Scenes[s], 1) ELSE Nothing]

Loadable == {s \in DOMAIN Scenes : BuiltAssets[s] # Nothing}

Clips == UNION {ToSet(BuiltAssets[s].clips) : s \in Loadable}

Playbacks ==
    [clip : Clips, time : Int, playbackRate : Int, wrapMode : {"loop", "clamp"}]

LayerMasks ==
    {DescendantMask(BuiltAssets[wanted.scene].skeleton, wanted.root) : wanted \in LayerRoots}

LayerPlaybacks ==
    [clip : Clips, time : Int, playbackRate : Int, wrapMode : {"loop"}, weight : 0 .. Full,
     mask : LayerMasks]

Fades == [from : Playbacks, to : Playbacks, elapsed : Nat, duration : Nat \ {0}]

\* What a layer lays over the pose of any of the characters.
Overlays ==
    [pose : UNION {[Joints(BuiltAssets[s].skeleton) ->
                        [translation : Int, rotation : {-1, 1}, scale : Int]] : s \in Loadable},
     weight : 0 .. Full, mask : LayerMasks]

IsSequence(s) == s \in Seq(ToSet(s))

\* The transforms and turns that the one axis of Skeleton can hold.
OnAxis(asset) ==
    /\ IsSequence(asset.skeleton.joints)
    /\ \A joint \in Joints(asset.skeleton) :
        asset.skeleton.joints[joint].bindLocal
            \in [translation : Int, rotation : {-1, 1}, scale : Int]
    /\ IsSequence(asset.clips)
    /\ \A i \in DOMAIN asset.clips : \A k \in DOMAIN asset.clips[i].tracks :
        LET track == asset.clips[i].tracks[k] IN
        /\ track.translation.keys \in Seq([time : Int, value : Int])
        /\ track.rotation.keys \in Seq([time : Int, value : {-1, 1}])
        /\ track.scale.keys \in Seq([time : Int, value : Int])

\* The lists of a document are lists, and nodes are numbered from 0 on.
IsScene(source) ==
    /\ IsSequence(source.nodes) /\ IsSequence(source.animations)
    /\ \A i \in DOMAIN source.nodes : source.nodes[i].nodeIndex \in Nat
    /\ \A k \in DOMAIN source.skins : IsSequence(source.skins[k].joints)

IsPrimitive(p) ==
    /\ p = [skin |-> p.skin, positions |-> p.positions, normals |-> p.normals,
            joints |-> p.joints, weights |-> p.weights]
    /\ IsSequence(p.positions)

\* The game asks for clips and joints there are, time does not run backwards, Nothing
\* is none of the things that may be missing, and every scene has a mesh.
ASSUME GameAssumption ==
    /\ Steps \subseteq Nat
    /\ \A wish \in Plays \cup LayerRoots :
        /\ wish.scene \in Loadable
        /\ \E i \in DOMAIN BuiltAssets[wish.scene].clips :
            BuiltAssets[wish.scene].clips[i].name = wish.clip
    /\ \A play \in Plays : play.wrapMode \in {"loop", "clamp"}
    /\ \A wanted \in LayerRoots :
        wanted.root \in Joints(BuiltAssets[wanted.scene].skeleton)
    /\ \A s \in DOMAIN Scenes : IsScene(Scenes[s])
    /\ Nothing \notin Playbacks
    /\ Nothing \notin LayerPlaybacks
    /\ Nothing \notin Fades
    /\ Nothing \notin Overlays
    /\ \A s \in Loadable : OnAxis(BuiltAssets[s])
    /\ DOMAIN Meshes = DOMAIN Scenes
    /\ \A s \in DOMAIN Meshes : \A i \in DOMAIN Meshes[s] : IsPrimitive(Meshes[s][i])

VARIABLES
    assets,   \* what the bridge built of every scene, Nothing where it refused
    scene,    \* whose skeleton is set, 0 before the first
    mesh,     \* the output of skinning
    journey   \* for the properties: what one clip has moved the root, [from, to, motion]

vars == <<runtime, assets, scene, mesh, journey>>

Loaded == {s \in DOMAIN Scenes : assets[s] # Nothing}

\* The clip of an asset by its name (findClip); the game asks for one there is.
ClipNamed(s, name) ==
    LET clips == assets[s].clips IN clips[Min({i \in DOMAIN clips : clips[i].name = name})]

Playback(play) ==
    [clip |-> ClipNamed(play.scene, play.clip), time |-> 0,
     playbackRate |-> play.playbackRate, wrapMode |-> play.wrapMode]

Layer(wanted) ==
    [clip |-> ClipNamed(wanted.scene, wanted.clip), time |-> 0,
     playbackRate |-> wanted.playbackRate, wrapMode |-> "loop", weight |-> wanted.weight,
     mask |-> DescendantMask(assets[wanted.scene].skeleton, wanted.root)]

Skin == mesh' = SkinnedMesh(Meshes[scene], assets[scene], globalPose', mesh)

NewJourney ==
    LET now == IF base' = Nothing THEN 0 ELSE base'.time
    IN  journey' = [from |-> now, to |-> now, motion |-> Still]

Follow(deltaSeconds) ==
    IF transition # Nothing \/ base = Nothing THEN NewJourney
    ELSE journey' = [journey EXCEPT !.to = @ + deltaSeconds * base.playbackRate,
                                    !.motion = Compose(@, rootMotionDelta')]

Init ==
    /\ RuntimeInit
    /\ assets = BuiltAssets
    /\ scene = 0
    /\ mesh = << >>
    /\ journey = [from |-> 0, to |-> 0, motion |-> Still]

Wear(s) ==
    /\ SetSkeleton(assets[s].skeleton)
    /\ scene' = s
    /\ mesh' = << >>
    /\ NewJourney
    /\ UNCHANGED assets

Start(play) ==
    /\ Play(Playback(play))
    /\ Skin
    /\ IF Playable(Playback(play)) THEN NewJourney ELSE UNCHANGED journey
    /\ UNCHANGED <<assets, scene>>

Fade(play, duration) ==
    /\ CrossFade(Playback(play), duration)
    /\ NewJourney
    /\ UNCHANGED <<assets, scene, mesh>>

Put(slot, wanted) ==
    /\ SetLayer(slot, Layer(wanted))
    /\ Skin
    /\ UNCHANGED <<assets, scene, journey>>

Take(slot) ==
    /\ \/ ClearLayer(slot)
       \/ layers # << >> /\ ClearLayers
    /\ Skin
    /\ UNCHANGED <<assets, scene, journey>>

\* The bound of the model: no clock runs further than MaxTravel. Only failing
\* updates let a clock leave its clip at all.
Clocks ==
    {journey.to - journey.from}
    \cup (IF base = Nothing THEN {} ELSE {base.time})
    \cup (IF transition = Nothing THEN {} ELSE {transition.from.time, transition.to.time})
    \cup {layers[i].time : i \in {k \in DOMAIN layers : layers[k] # Nothing}}

Root(joint) ==
    /\ joint # rootMotionJoint
    /\ SetRootMotionJoint(joint)
    /\ NewJourney
    /\ UNCHANGED <<assets, scene, mesh>>

Frame(deltaSeconds) ==
    /\ \A clock \in Clocks : clock \in deltaSeconds - MaxTravel .. MaxTravel - deltaSeconds
    /\ Update(deltaSeconds)
    /\ Skin
    /\ Follow(deltaSeconds)
    /\ UNCHANGED <<assets, scene>>

\* A game asks for what belongs to the character it shows.
Asked(wishes) == {wish \in wishes : wish.scene = scene}

Next ==
    \/ \E s \in Loaded : Wear(s)
    \/ \E play \in Asked(Plays) : Start(play)
    \/ \E play \in Asked(Plays), duration \in FadeTimes : Fade(play, duration)
    \/ \E slot \in 1 .. MaxRuntimeLayers + 1, wanted \in Asked(LayerRoots) : Put(slot, wanted)
    \/ \E slot \in DOMAIN layers : Take(slot)
    \/ scene # 0 /\ \E joint \in RootJoints : Root(joint)
    \/ scene # 0 /\ \E deltaSeconds \in Steps : Frame(deltaSeconds)

Spec == Init /\ [][Next]_vars

(***************************************************************************)
(* Properties                                                              *)
(***************************************************************************)
Playing == base # Nothing /\ CanShow(PoseOf(skeleton, base, transition, layers))

\* The pose on show is the one that what is playing asks for, through calls that
\* rebuild it, calls that do not, fades that end and times that are wrapped:
\* crossFade, update's late bookkeeping and clearLayer never leave an old pose.
PoseIsCurrent ==
    Playing => /\ localPose = PoseOf(skeleton, base, transition, layers)
               /\ globalPose = GlobalPose(skeleton, localPose)

\* Where the root has got to along a clip that repeats without end, counted one
\* whole turn at a time.
PathAt(body, clip, root, time) ==
    LET turn == Relative(RootAt(body, clip, root, 0), RootAt(body, clip, root, clip.duration))
        path[t \in Int] ==
            IF t < 0 THEN Compose(Reverted(turn), path[t + clip.duration])
            ELSE IF t >= clip.duration THEN Compose(turn, path[t - clip.duration])
            ELSE Relative(RootAt(body, clip, root, 0), RootAt(body, clip, root, t))
    IN  path[time]

\* The motions handed out frame by frame, whatever their lengths, are together
\* the motion of the root from where it was followed to where it is: wrapping the
\* clock, playing backwards and updates that fail lose and repeat nothing.
RootMotionTelescopes ==
    (base # Nothing /\ transition = Nothing /\ rootMotionJoint # Nothing) =>
        journey.motion =
            IF base.wrapMode = "loop"
            THEN Relative(PathAt(skeleton, base.clip, rootMotionJoint, journey.from),
                          PathAt(skeleton, base.clip, rootMotionJoint, journey.to))
            ELSE Relative(RootAt(skeleton, base.clip, rootMotionJoint,
                                 SampleTime(journey.from, base.clip.duration, "clamp")),
                          RootAt(skeleton, base.clip, rootMotionJoint,
                                 SampleTime(journey.to, base.clip.duration, "clamp")))

\* A node of the glTF scene under an animation, and where that puts it.
SceneTransform(source, animation, index, time) ==
    LET bind == Node(source, index).localTransform
        Channel(path) == Imported(animation.channels, <<index>>, 1, path)
    IN  [translation |-> SampleVec3(Channel("translation"), time, bind.translation),
         rotation |-> SampleQuat(Channel("rotation"), time, bind.rotation),
         scale |-> SampleVec3(Channel("scale"), time, bind.scale)]

SceneMatrix(source, animation, index, time) ==
    LET Under(matrix, node) ==
            Multiply(Matrix(SceneTransform(source, animation, node, time)), matrix)
    IN  FoldLeft(Under, IdentityMatrix, Ancestry(source, index))

\* The animation that a clip was made from; names need not be distinct.
AnimationOf(source, clip) ==
    LET posed == PosedNodes(source, source.skins[1])
    IN  source.animations[Min({i \in DOMAIN source.animations :
                                BuiltClip(source.animations[i], posed) = clip})]

\* While one clip of the scene plays alone, every joint of the skin, in its own
\* palette slot, and every bound socket is where the glTF scene puts its node:
\* dropping nodes that do not deform and reordering joints changes no product.
PoseFollowsTheScene ==
    /\ Playing
    /\ transition = Nothing
    /\ \A i \in DOMAIN layers : layers[i] = Nothing
    /\ \E i \in DOMAIN assets[scene].clips : assets[scene].clips[i] = base.clip
    => LET source == Scenes[scene]
           At(index) == SceneMatrix(source, AnimationOf(source, base.clip), index,
                                    SampleTime(base.time, base.clip.duration, base.wrapMode))
           joints == source.skins[1].joints
           sockets == BoundSockets(source, source.skins[1])
       IN  /\ \A i \in DOMAIN joints : globalPose[i] = At(joints[i].nodeIndex)
           /\ \A i \in DOMAIN sockets :
                /\ SocketEvaluates(skeleton, globalPose, sockets[i].name)
                /\ SocketMatrix(skeleton, globalPose, sockets[i].name) = At(sockets[i].nodeIndex)

\* A layer moves the joints whose node lies at or under its root in the glTF scene,
\* all of them and nothing else, and layers lie over each other in slot order.
LayersCoverTheirSubtrees ==
    LET NodeOf(joint) == assets[scene].jointNodeIndices[joint]
        RootsOf(layer) ==
            {NodeOf(wanted.root) : wanted \in
                {w \in LayerRoots : w.scene = scene /\ Layer(w).mask = layer.mask}}
        Covers(layer, joint) ==
            RootsOf(layer) \cap ToSet(Ancestry(Scenes[scene], NodeOf(joint))) # {}
        Expected(joint) ==
            LET Over(at, layer) ==
                    IF layer = Nothing THEN at
                    ELSE IF ~ Covers(layer, joint) THEN at
                    ELSE Blend(at, Sampled(skeleton, layer)[joint], layer.weight)
            IN  FoldLeft(Over, FadedPose(skeleton, base, transition)[joint], layers)
    IN  Playing => \A joint \in Joints(skeleton) : localPose[joint] = Expected(joint)

\* Skinning into the output of the last frame gives what skinning into an empty
\* mesh gives: nothing of an earlier pose is left in it.
SkinningDoesNotDrift ==
    [][mesh' \notin {mesh, << >>} =>
        mesh' = SkinnedMesh(Meshes[scene], assets[scene], globalPose', << >>)]_vars
==============================================================================
