---------------------------- MODULE AnimationClip ----------------------------
(* Key frames over time (AnimationClip.cpp). A clip is                        *)
(*   [name, duration, tracks : Seq([joint, translation, rotation, scale])],   *)
(* each channel of a track [interpolation, keys : Seq([time, value])]. Times  *)
(* are whole; one that is no integer is not finite.                           *)
EXTENDS Skeleton

Channels == {"translation", "rotation", "scale"}

ValidKeyTimes(keys, duration) ==
    /\ Len(keys) =< Limits.keys
    /\ \A i \in DOMAIN keys :
        /\ keys[i].time \in Int
        /\ keys[i].time \in 0 .. duration
        /\ i > 1 => keys[i].time > keys[i - 1].time

\* A scale and a rotation of 0 are a scale of zero and a quaternion without length.
ValidChannel(keys, duration, channel) ==
    /\ ValidKeyTimes(keys, duration)
    /\ \A i \in DOMAIN keys :
        keys[i].value \in Int /\ (channel # "translation" => keys[i].value # 0)

ValidTracks(clip, skeleton) ==
    \A i \in DOMAIN clip.tracks :
        LET track == clip.tracks[i] IN
        /\ track.joint \in Joints(skeleton)
        /\ \A k \in DOMAIN clip.tracks : clip.tracks[k].joint = track.joint => k = i
        /\ \E channel \in Channels : track[channel].keys # << >>
        /\ \A channel \in Channels :
            ValidChannel(track[channel].keys, clip.duration, channel)

ValidClip(clip, skeleton) ==
    /\ ValidSkeleton(skeleton)
    /\ clip.duration \in Int
    /\ clip.duration > 0
    /\ clip.duration =< Limits.duration
    /\ Len(clip.tracks) =< Limits.tracks
    /\ ValidTracks(clip, skeleton)

\* normalizeSampleTime: std::clamp, or the remainder brought above zero.
SampleTime(time, duration, wrapMode) ==
    IF wrapMode = "loop" THEN time % duration
    ELSE IF time < 0 THEN 0
    ELSE IF time > duration THEN duration
    ELSE time

SampleWith(Between(_, _, _), channel, time, fallback) ==
    LET keys == channel.keys IN
    IF keys = << >> THEN fallback
    ELSE IF time =< keys[1].time THEN keys[1].value
    ELSE IF time >= keys[Len(keys)].time THEN keys[Len(keys)].value
    ELSE LET right == Min({i \in DOMAIN keys : keys[i].time > time})
             left == keys[right - 1]
             weight == ((time - left.time) * Full) \div (keys[right].time - left.time)
         IN  IF channel.interpolation = "step" THEN left.value
             ELSE Between(left.value, keys[right].value, weight)

\* sampleVec3Track and sampleQuatTrack
SampleVec3(channel, time, fallback) == SampleWith(Lerp, channel, time, fallback)

SampleQuat(channel, time, fallback) ==
    Normalized(SampleWith(Slerp, channel, time, fallback))

TracksOf(clip, joint) == {i \in DOMAIN clip.tracks : clip.tracks[i].joint = joint}

\* One joint of the bind pose under the clip's track for it; a valid clip has
\* at most one.
SampleJoint(clip, bind, joint, time) ==
    IF TracksOf(clip, joint) = {} THEN bind
    ELSE LET track == clip.tracks[Min(TracksOf(clip, joint))] IN
         [translation |-> SampleVec3(track.translation, time, bind.translation),
          rotation |-> SampleQuat(track.rotation, time, bind.rotation),
          scale |-> SampleVec3(track.scale, time, bind.scale)]

SampleClip(clip, skeleton, time, wrapMode) ==
    LET at == SampleTime(time, clip.duration, wrapMode) IN
    [joint \in Joints(skeleton) |->
        SampleJoint(clip, skeleton.joints[joint].bindLocal, joint, at)]
==============================================================================
