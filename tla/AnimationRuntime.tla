-------------------------- MODULE AnimationRuntime --------------------------
(* The player of one character (AnimationRuntime.cpp): a base clip, a         *)
(* crossfade from it to the next, layers blended over both, and the motion    *)
(* of the root joint handed to the game after every update.                   *)
(*                                                                            *)
(* A playback is [clip, time, playbackRate, wrapMode], a layer one with a     *)
(* mask and a weight, a transition [from, to, elapsed, duration]. A pointer   *)
(* that is null and an optional that is empty are Nothing. A call that        *)
(* returns errors keeps what it had and sets lastError, but play and setLayer *)
(* may already have changed the playback when the pose cannot be built.       *)
EXTENDS AnimationClip, SequencesExt

CONSTANTS
    Nothing,
    MaxRuntimeLayers   \* kMaxRuntimeLayers, 64 in the code

ASSUME AnimationConstants == MaxRuntimeLayers \in Nat \ {0}

VARIABLES
    skeleton,
    base,
    transition,
    layers,
    rootMotionJoint,
    localPose,
    globalPose,
    rootMotionDelta,
    lastError          \* TRUE while there is a message

playback == <<base, transition, layers>>
poses == <<localPose, globalPose>>
runtime == <<skeleton, playback, rootMotionJoint, poses, rootMotionDelta, lastError>>

(***************************************************************************)
(* Root motion                                                             *)
(***************************************************************************)
Still == [translation |-> 0, rotation |-> 1]

Compose(lhs, rhs) ==
    [translation |-> lhs.translation + lhs.rotation * rhs.translation,
     rotation |-> lhs.rotation * rhs.rotation]

\* A half turn is its own inverse.
Reverted(motion) ==
    [translation |-> motion.rotation * (- motion.translation),
     rotation |-> motion.rotation]

Relative(from, to) == Compose(Reverted(from), to)

\* Variant for Power: the way of one cycle many times, its turn forgotten.
PowerOfTranslation(motion, exponent) ==
    [translation |-> exponent * motion.translation, rotation |-> 1]

\* rootMotionPower: a motion many times over, by repeated squaring.
Power(motion, exponent) ==
    LET forward == IF exponent < 0 THEN Reverted(motion) ELSE motion
        times[n \in Nat] ==
            IF n = 0 THEN Still
            ELSE LET half == times[n \div 2] IN
                 IF n % 2 = 1 THEN Compose(Compose(half, half), forward)
                 ELSE Compose(half, half)
    IN  times[IF exponent < 0 THEN - exponent ELSE exponent]

RootAt(body, clip, root, time) ==
    LET at == SampleJoint(clip, body.joints[root].bindLocal, root, time) IN
    [translation |-> at.translation, rotation |-> Normalized(at.rotation)]

\* Where the root has got to at any time of a loop, counted from its start.
ExtendedMotion(body, clip, root, time) ==
    LET start == RootAt(body, clip, root, 0)
        cycle == Relative(start, RootAt(body, clip, root, clip.duration))
        cycles == time \div clip.duration
        phase == time - cycles * clip.duration
    IN  Compose(Power(cycle, cycles), Relative(start, RootAt(body, clip, root, phase)))

MotionBetween(body, clip, root, previousTime, currentTime, wrapMode) ==
    IF wrapMode = "loop"
    THEN Relative(ExtendedMotion(body, clip, root, previousTime),
                  ExtendedMotion(body, clip, root, currentTime))
    ELSE Relative(RootAt(body, clip, root, SampleTime(previousTime, clip.duration, wrapMode)),
                  RootAt(body, clip, root, SampleTime(currentTime, clip.duration, wrapMode)))

(***************************************************************************)
(* Masks and poses                                                         *)
(***************************************************************************)
ValidMask(body, mask) ==
    mask # << >> => /\ Len(mask) = Len(body.joints)
                    /\ \A i \in DOMAIN mask : mask[i] \in 0 .. Full

MaskWeight(mask, joint) == IF mask = << >> THEN Full ELSE mask[joint]

\* Variant for DescendantMask: only the root of the mask and its children.
ChildMask(body, root) ==
    [joint \in Joints(body) |->
        IF \E steps \in 0 .. 1 : Above(body, joint)[steps] = root THEN Full ELSE 0]

\* makeDescendantMask: everything whose walk towards the root meets this joint.
DescendantMask(body, root) ==
    [joint \in Joints(body) |->
        IF \E steps \in 0 .. Len(body.joints) : Above(body, joint)[steps] = root
        THEN Full ELSE 0]

Blendable(pose) == \A joint \in DOMAIN pose : Finite(pose[joint]) /\ HasRotation(pose[joint])

\* blendPoses; Nothing when it refuses.
BlendPoses(body, from, to, weight, mask) ==
    IF Blendable(from) /\ Blendable(to) /\ ValidMask(body, mask)
    THEN [joint \in DOMAIN from |->
            Blend(from[joint], to[joint], (weight * MaskWeight(mask, joint)) \div Full)]
    ELSE Nothing

Sampled(body, play) == SampleClip(play.clip, body, play.time, play.wrapMode)

FadedPose(body, b, fade) ==
    IF fade = Nothing THEN Sampled(body, b)
    ELSE BlendPoses(body, Sampled(body, fade.from), Sampled(body, fade.to),
                    (fade.elapsed * Full) \div fade.duration, << >>)

\* What a layer lays over the pose; a weight of zero lays nothing.
Laid(body, layer) ==
    IF layer = Nothing THEN Nothing
    ELSE IF layer.weight = 0 THEN Nothing
    ELSE [pose |-> Sampled(body, layer), weight |-> layer.weight, mask |-> layer.mask]

\* All of them over each other, in the order of their slots.
Covered(body, pose, laid) ==
    LET Cover(under, over) ==
            IF under = Nothing \/ over = Nothing THEN under
            ELSE BlendPoses(body, under, over.pose, over.weight, over.mask)
    IN  FoldLeft(Cover, pose, laid)

PoseOf(body, b, fade, over) ==
    Covered(body, FadedPose(body, b, fade), [i \in DOMAIN over |-> Laid(body, over[i])])

\* rebuildPose: whether the pose can be shown, and what is then stored. It leaves
\* a message only when it fails; what becomes of an older one is up to its caller.
CanShow(pose) == pose # Nothing /\ Evaluates(skeleton, pose)

RebuildPose(pose, error) ==
    IF CanShow(pose)
    THEN localPose' = pose /\ globalPose' = GlobalPose(skeleton, pose) /\ lastError' = error
    ELSE lastError' = TRUE /\ UNCHANGED poses

(***************************************************************************)
(* The calls                                                               *)
(***************************************************************************)
Refuse == lastError' = TRUE /\ UNCHANGED <<skeleton, playback, rootMotionJoint, poses, rootMotionDelta>>

SetSkeleton(body) ==
    IF ~ ValidSkeleton(body) THEN Refuse
    ELSE /\ base' = Nothing
         /\ transition' = Nothing
         /\ layers' = << >>
         /\ rootMotionJoint' = Min({j \in Joints(body) : ParentOf(body, j) = 0})
         /\ localPose' = BindPose(body)
         /\ IF Evaluates(body, BindPose(body))
            THEN /\ skeleton' = body
                 /\ globalPose' = GlobalPose(body, BindPose(body))
                 /\ rootMotionDelta' = Still
                 /\ lastError' = FALSE
            ELSE skeleton' = Nothing /\ lastError' = TRUE /\ UNCHANGED <<globalPose, rootMotionDelta>>

Playable(play) ==
    /\ skeleton # Nothing
    /\ ValidClip(play.clip, skeleton)
    /\ {play.time, play.playbackRate} \subseteq Int

Play(play) ==
    IF ~ Playable(play) THEN Refuse
    ELSE /\ base' = play
         /\ transition' = Nothing
         /\ rootMotionDelta' = Still
         /\ RebuildPose(PoseOf(skeleton, play, Nothing, layers), FALSE)
         /\ UNCHANGED <<skeleton, layers, rootMotionJoint>>

CanFade(play, duration) ==
    /\ base # Nothing
    /\ Playable(play)
    /\ transition = Nothing
    /\ duration \in Int
    /\ duration > 0

CrossFade(play, duration) ==
    IF ~ CanFade(play, duration) THEN Refuse
    ELSE /\ transition' = [from |-> base, to |-> play, elapsed |-> 0, duration |-> duration]
         /\ rootMotionDelta' = Still
         /\ lastError' = FALSE
         /\ UNCHANGED <<skeleton, base, layers, rootMotionJoint, poses>>

\* Variant for Relayer: the pose waits for the next update.
RelayerOnly(over) == layers' = over /\ UNCHANGED <<poses, lastError>>

\* What follows a change of the layers: the pose is rebuilt if anything plays.
Relayer(over) ==
    /\ layers' = over
    /\ IF base # Nothing THEN RebuildPose(PoseOf(skeleton, base, transition, over), lastError)
       ELSE UNCHANGED <<poses, lastError>>

CanLayer(slot, layer) ==
    /\ skeleton # Nothing
    /\ ValidMask(skeleton, layer.mask)
    /\ layer.clip # Nothing
    /\ ValidClip(layer.clip, skeleton)
    /\ slot =< MaxRuntimeLayers
    /\ {layer.time, layer.playbackRate} \subseteq Int
    /\ layer.weight \in 0 .. Full

Filled(slot, layer) ==
    [i \in 1 .. (IF slot > Len(layers) THEN slot ELSE Len(layers)) |->
        IF i = slot THEN layer ELSE IF i \in DOMAIN layers THEN layers[i] ELSE Nothing]

SetLayer(slot, layer) ==
    IF ~ CanLayer(slot, layer) THEN Refuse
    ELSE /\ layers' = Filled(slot, layer)
         /\ IF base # Nothing THEN RebuildPose(PoseOf(skeleton, base, transition, Filled(slot, layer)), FALSE)
            ELSE lastError' = FALSE /\ UNCHANGED poses
         /\ UNCHANGED <<skeleton, base, transition, rootMotionJoint, rootMotionDelta>>

ClearLayer(slot) ==
    /\ slot \in DOMAIN layers
    /\ Relayer([layers EXCEPT ![slot] = Nothing])
    /\ UNCHANGED <<skeleton, base, transition, rootMotionJoint, rootMotionDelta>>

ClearLayers ==
    /\ Relayer(<< >>)
    /\ UNCHANGED <<skeleton, base, transition, rootMotionJoint, rootMotionDelta>>

SetRootMotionJoint(joint) ==
    IF joint # Nothing /\ (IF skeleton = Nothing THEN TRUE ELSE joint \notin Joints(skeleton))
    THEN Refuse
    ELSE /\ rootMotionJoint' = joint
         /\ rootMotionDelta' = Still
         /\ lastError' = FALSE
         /\ UNCHANGED <<skeleton, playback, poses>>

(***************************************************************************)
(* update: everything that plays moves on, the pose is rebuilt, and only    *)
(* then is a finished crossfade replaced by its target and are the times    *)
(* brought back into their clips.                                           *)
(***************************************************************************)
Moved(play, deltaSeconds) ==
    IF play = Nothing THEN Nothing
    ELSE [play EXCEPT !.time = @ + deltaSeconds * play.playbackRate]

Compacted(play) ==
    IF play = Nothing THEN Nothing
    ELSE [play EXCEPT !.time = SampleTime(@, play.clip.duration, play.wrapMode)]

MovedFade(deltaSeconds) ==
    IF transition = Nothing THEN Nothing
    ELSE [transition EXCEPT !.from = Moved(@, deltaSeconds),
                            !.to = Moved(@, deltaSeconds),
                            !.elapsed = Min({@ + deltaSeconds, transition.duration})]

RootMoves(play, deltaSeconds) ==
    MotionBetween(skeleton, play.clip, rootMotionJoint, play.time,
                  Moved(play, deltaSeconds).time, play.wrapMode)

MotionOf(deltaSeconds) ==
    IF rootMotionJoint = Nothing THEN Still
    ELSE IF transition = Nothing THEN RootMoves(base, deltaSeconds)
    ELSE LET fade == MovedFade(deltaSeconds)
             weight == (fade.elapsed * Full) \div fade.duration
             from == RootMoves(transition.from, deltaSeconds)
             to == RootMoves(transition.to, deltaSeconds)
         IN  [translation |-> Lerp(from.translation, to.translation, weight),
              rotation |-> Slerp(from.rotation, to.rotation, weight)]

Settled(b, fade, over) ==
    LET done == IF fade = Nothing THEN FALSE ELSE fade.elapsed >= fade.duration IN
    /\ base' = Compacted(IF done THEN fade.to ELSE b)
    /\ transition' = IF fade = Nothing \/ done THEN Nothing
                     ELSE [fade EXCEPT !.from = Compacted(@), !.to = Compacted(@)]
    /\ layers' = [i \in DOMAIN over |-> Compacted(over[i])]

Update(deltaSeconds) ==
    IF skeleton = Nothing \/ base = Nothing \/ deltaSeconds < 0 THEN Refuse
    ELSE LET b == IF transition = Nothing THEN Moved(base, deltaSeconds) ELSE base
             fade == MovedFade(deltaSeconds)
             over == [i \in DOMAIN layers |-> Moved(layers[i], deltaSeconds)]
             pose == PoseOf(skeleton, b, fade, over)
         IN  /\ rootMotionDelta' = MotionOf(deltaSeconds)
             /\ RebuildPose(pose, FALSE)
             /\ IF CanShow(pose) THEN Settled(b, fade, over)
                ELSE base' = b /\ transition' = fade /\ layers' = over
             /\ UNCHANGED <<skeleton, rootMotionJoint>>

RuntimeInit ==
    /\ skeleton = Nothing
    /\ base = Nothing
    /\ transition = Nothing
    /\ layers = << >>
    /\ rootMotionJoint = Nothing
    /\ localPose = << >>
    /\ globalPose = << >>
    /\ rootMotionDelta = Still
    /\ lastError = FALSE
=============================================================================
