------------------------- MODULE AnimatedAsset_proofs -------------------------
(***************************************************************************)
(* What a character shows, how far its root is told to move and what its   *)
(* mesh is skinned from: for any scenes, any clips, any wishes of the game *)
(* and any number of layers.                                               *)
(***************************************************************************)
EXTENDS AnimatedAsset, FiniteSetTheorems, WellFoundedInduction, TLAPS

Bodies == {BuiltAssets[s].skeleton : s \in Loadable}

Transform == [translation : Int, rotation : {-1, 1}, scale : Int]

Place == [translation : Int, rotation : Int \ {0}, scale : Int]

-----------------------------------------------------------------------------
(* Any numbers have a least one among them.                                *)
LEMMA LeastNumber ==
  ASSUME NEW T, T \subseteq Nat, T # {}
  PROVE  \E x \in T : \A y \in T : x <= y
<1>1. PICK n \in T : TRUE
  OBVIOUS
<1> DEFINE D == {m \in T : m <= n}
           U == {0 .. m : m \in D}
<1>2. IsWellFoundedOn(StrictSubsetOrdering(0 .. n), SUBSET (0 .. n))
  <2>1. IsFiniteSet(0 .. n)
    BY FS_Interval
  <2>2. FiniteSubsetsOf(0 .. n) = SUBSET (0 .. n)
    BY <2>1, FS_FiniteSubsetsOfFinite
  <2>3. IsWellFoundedOn(StrictSubsetOrdering(0 .. n), FiniteSubsetsOf(0 .. n))
    BY FS_StrictSubsetOrderingWellFounded
  <2> QED BY <2>2, <2>3
<1>3. U \subseteq SUBSET (0 .. n) /\ U # {}
  BY <1>1
<1>4. PICK x \in U : \A y \in U : <<y, x>> \notin StrictSubsetOrdering(0 .. n)
  BY <1>2, <1>3, WFMin
<1>5. PICK k \in D : x = 0 .. k
  BY <1>4
<1>6. \A m \in D : m >= k
  <2> SUFFICES ASSUME NEW m \in D, m < k PROVE FALSE
    OBVIOUS
  <2>1. 0 .. m \in U /\ 0 .. m \subseteq 0 .. k /\ k \in 0 .. k /\ k \notin 0 .. m
    OBVIOUS
  <2>2. 0 .. m \in SUBSET (0 .. n) /\ 0 .. k \in SUBSET (0 .. n)
    OBVIOUS
  <2> QED BY <1>4, <1>5, <2>1, <2>2 DEF StrictSubsetOrdering
<1> QED BY <1>6

LEMMA MinFacts ==
  ASSUME NEW T, T \subseteq Nat, T # {}
  PROVE  Min(T) \in T /\ \A x \in T : Min(T) <= x
<1>1. \E x \in T : \A y \in T : x <= y
  BY LeastNumber
<1> QED BY <1>1 DEF Min

LEMMA SequenceFacts ==
  ASSUME NEW s, IsSequence(s)
  PROVE  Len(s) \in Nat /\ DOMAIN s = 1 .. Len(s)
  BY DEF IsSequence

(***************************************************************************)
(* Sampling                                                                *)
(***************************************************************************)
LEMMA LerpEnds ==
  ASSUME NEW from \in Int, NEW to \in Int
  PROVE  Lerp(from, to, 0) = from /\ Lerp(from, to, Full) = to
<1>1. PICK d \in Int : d = to - from
  OBVIOUS
<1>2. (d * 0) \div 4 = 0 /\ (d * 4) \div 4 = d
  BY SMT
<1> QED BY <1>1, <1>2 DEF Lerp, Full

LEMMA LerpType ==
  ASSUME NEW from \in Int, NEW to \in Int, NEW weight \in Int
  PROVE  Lerp(from, to, weight) \in Int
<1>1. PICK d \in Int : d = (to - from) * weight
  OBVIOUS
<1>2. d \div 4 \in Int
  OBVIOUS
<1> QED BY <1>1, <1>2 DEF Lerp, Full

(* Blending shows the one pose at the start and the other at the end.      *)
LEMMA BlendEnds ==
  ASSUME NEW from \in Place, NEW to \in Place
  PROVE  Blend(from, to, 0) = from /\ Blend(from, to, Full) = to
<1>1. /\ from.translation \in Int /\ from.rotation # 0 /\ from.scale \in Int
      /\ to.translation \in Int /\ to.rotation # 0 /\ to.scale \in Int
      /\ from = [translation |-> from.translation, rotation |-> from.rotation, scale |-> from.scale]
      /\ to = [translation |-> to.translation, rotation |-> to.rotation, scale |-> to.scale]
  BY DEF Place
<1>2. /\ Lerp(from.translation, to.translation, 0) = from.translation
      /\ Lerp(from.translation, to.translation, Full) = to.translation
      /\ Lerp(from.scale, to.scale, 0) = from.scale
      /\ Lerp(from.scale, to.scale, Full) = to.scale
  BY <1>1, LerpEnds
<1>3. /\ Slerp(from.rotation, to.rotation, 0) = from.rotation
      /\ Slerp(from.rotation, to.rotation, Full) = to.rotation
  BY <1>1 DEF Slerp, Full, Normalized
<1> QED BY <1>1, <1>2, <1>3 DEF Blend

LEMMA KeyFacts ==
  ASSUME NEW Values, NEW keys \in Seq([time : Int, value : Values]), keys # << >>
  PROVE  /\ Len(keys) \in Nat /\ DOMAIN keys = 1 .. Len(keys) /\ Len(keys) >= 1
         /\ \A i \in DOMAIN keys : keys[i].value \in Values /\ keys[i].time \in Int
<1> DEFINE Key == [time : Int, value : Values]
<1>1. \A key \in Key : key.value \in Values /\ key.time \in Int
  OBVIOUS
<1>2. keys \in Seq(Key)
  OBVIOUS
<1> HIDE DEF Key
<1>3. Len(keys) \in Nat /\ DOMAIN keys = 1 .. Len(keys) /\ Len(keys) >= 1
      /\ \A i \in DOMAIN keys : keys[i] \in Key
  BY <1>2
<1> QED BY <1>1, <1>3

(* Between two keys there is a pair of neighbours around any time.         *)
LEMMA Neighbours ==
  ASSUME NEW Values, NEW keys \in Seq([time : Int, value : Values]), NEW duration,
         ValidKeyTimes(keys, duration), keys # << >>, NEW time \in Int,
         ~(time =< keys[1].time), ~(time >= keys[Len(keys)].time)
  PROVE  LET right == Min({i \in DOMAIN keys : keys[i].time > time}) IN
         /\ right \in DOMAIN keys /\ right - 1 \in DOMAIN keys
         /\ keys[right].time \in Int /\ keys[right - 1].time \in Int
         /\ keys[right - 1].time =< time /\ time < keys[right].time
<1>1. /\ Len(keys) \in Nat /\ DOMAIN keys = 1 .. Len(keys) /\ Len(keys) >= 1
      /\ \A i \in DOMAIN keys : keys[i].time \in Int
  BY KeyFacts
<1>2. PICK later : later = {i \in DOMAIN keys : keys[i].time > time}
  OBVIOUS
<1>3. later \subseteq Nat /\ Len(keys) \in later
  BY <1>1, <1>2
<1>4. PICK right : right = Min(later)
  OBVIOUS
<1>5. right \in later /\ \A i \in later : right <= i
  BY <1>3, <1>4, MinFacts
<1>6. right # 1
  BY <1>1, <1>2, <1>5
<1>7. right - 1 \in DOMAIN keys /\ right - 1 \notin later
  BY <1>1, <1>2, <1>3, <1>5, <1>6
<1>8. keys[right - 1].time =< time /\ time < keys[right].time
  BY <1>1, <1>2, <1>5, <1>7
<1> QED BY <1>1, <1>2, <1>4, <1>5, <1>7, <1>8

LEMMA WeightType ==
  ASSUME NEW a \in Int, NEW b \in Int, NEW time \in Int, a <= time, time < b
  PROVE  ((time - a) * Full) \div (b - a) \in Int
<1>1. PICK n \in Int, d \in Int : n = (time - a) * 4 /\ d = b - a /\ d > 0
  OBVIOUS
<1>2. n \div d \in Int
  BY <1>1
<1> QED BY <1>1, <1>2 DEF Full

(* What a channel gives at any time is a value of the channel.             *)
LEMMA Vec3Type ==
  ASSUME NEW channel, NEW fallback \in Int, NEW duration, NEW time \in Int,
         channel.keys \in Seq([time : Int, value : Int]), ValidKeyTimes(channel.keys, duration)
  PROVE  SampleVec3(channel, time, fallback) \in Int
<1>1. PICK keys \in Seq([time : Int, value : Int]) : keys = channel.keys
  OBVIOUS
<1>2. ASSUME keys # << >>
      PROVE  /\ Len(keys) \in Nat /\ DOMAIN keys = 1 .. Len(keys) /\ Len(keys) >= 1
             /\ \A i \in DOMAIN keys : keys[i].value \in Int /\ keys[i].time \in Int
  BY <1>2, KeyFacts
<1>3. CASE keys = << >>
  BY <1>1, <1>3 DEF SampleVec3, SampleWith
<1>4. CASE keys # << >> /\ time =< keys[1].time
  BY <1>1, <1>2, <1>4 DEF SampleVec3, SampleWith
<1>5. CASE keys # << >> /\ ~(time =< keys[1].time) /\ time >= keys[Len(keys)].time
  BY <1>1, <1>2, <1>5 DEF SampleVec3, SampleWith
<1>6. CASE keys # << >> /\ ~(time =< keys[1].time) /\ ~(time >= keys[Len(keys)].time)
  <2>1. PICK right : right = Min({i \in DOMAIN keys : keys[i].time > time})
    OBVIOUS
  <2>2. /\ right \in DOMAIN keys /\ right - 1 \in DOMAIN keys
        /\ keys[right].time \in Int /\ keys[right - 1].time \in Int
        /\ keys[right - 1].time =< time /\ time < keys[right].time
    BY <1>1, <1>6, <2>1, Neighbours
  <2>3. PICK weight : weight = ((time - keys[right - 1].time) * Full)
                                  \div (keys[right].time - keys[right - 1].time)
    OBVIOUS
  <2>4. weight \in Int
    BY <2>2, <2>3, WeightType
  <2>5. keys[right].value \in Int /\ keys[right - 1].value \in Int
    BY <1>2, <1>6, <2>2
  <2>6. Lerp(keys[right - 1].value, keys[right].value, weight) \in Int
    BY <2>4, <2>5, LerpType
  <2>7. SampleVec3(channel, time, fallback)
          = IF channel.interpolation = "step" THEN keys[right - 1].value
            ELSE Lerp(keys[right - 1].value, keys[right].value, weight)
    BY <1>1, <1>6, <2>1, <2>3 DEF SampleVec3, SampleWith
  <2> QED BY <2>5, <2>6, <2>7
<1> QED BY <1>3, <1>4, <1>5, <1>6

LEMMA QuatType ==
  ASSUME NEW channel, NEW fallback \in {-1, 1}, NEW duration, NEW time \in Int,
         channel.keys \in Seq([time : Int, value : {-1, 1}]),
         ValidKeyTimes(channel.keys, duration)
  PROVE  SampleQuat(channel, time, fallback) \in {-1, 1}
<1>1. PICK keys \in Seq([time : Int, value : {-1, 1}]) : keys = channel.keys
  OBVIOUS
<1>2. ASSUME keys # << >>
      PROVE  /\ Len(keys) \in Nat /\ DOMAIN keys = 1 .. Len(keys) /\ Len(keys) >= 1
             /\ \A i \in DOMAIN keys : keys[i].value \in {-1, 1} /\ keys[i].time \in Int
  BY <1>2, KeyFacts
<1>3. CASE keys = << >>
  BY <1>1, <1>3 DEF SampleQuat, SampleWith, Normalized
<1>4. CASE keys # << >> /\ time =< keys[1].time
  BY <1>1, <1>2, <1>4 DEF SampleQuat, SampleWith, Normalized
<1>5. CASE keys # << >> /\ ~(time =< keys[1].time) /\ time >= keys[Len(keys)].time
  <2>1. SampleQuat(channel, time, fallback) = Normalized(keys[Len(keys)].value)
    BY <1>1, <1>5 DEF SampleQuat, SampleWith
  <2>2. keys[Len(keys)].value \in {-1, 1}
    BY <1>2, <1>5
  <2> QED BY <2>1, <2>2 DEF Normalized
<1>6. CASE keys # << >> /\ ~(time =< keys[1].time) /\ ~(time >= keys[Len(keys)].time)
  <2>1. PICK right : right = Min({i \in DOMAIN keys : keys[i].time > time})
    OBVIOUS
  <2>2. right \in DOMAIN keys /\ right - 1 \in DOMAIN keys
    BY <1>1, <1>6, <2>1, Neighbours
  <2>3. PICK weight : weight = ((time - keys[right - 1].time) * Full)
                                  \div (keys[right].time - keys[right - 1].time)
    OBVIOUS
  <2>5. keys[right].value \in {-1, 1} /\ keys[right - 1].value \in {-1, 1}
    BY <1>2, <1>6, <2>2
  <2>6. Slerp(keys[right - 1].value, keys[right].value, weight) \in {-1, 1}
    BY <2>5 DEF Slerp, Normalized
  <2>7. SampleQuat(channel, time, fallback)
          = Normalized(IF channel.interpolation = "step" THEN keys[right - 1].value
                       ELSE Slerp(keys[right - 1].value, keys[right].value, weight))
    BY <1>1, <1>6, <2>1, <2>3 DEF SampleQuat, SampleWith
  <2> QED BY <2>5, <2>6, <2>7 DEF Normalized
<1> QED BY <1>3, <1>4, <1>5, <1>6

(* A clip of some asset that suits this body.                              *)
Suits(clip, body) == clip \in Clips /\ body \in Bodies /\ ValidClip(clip, body)

LEMMA ClipFacts ==
  ASSUME NEW clip, NEW body, Suits(clip, body)
  PROVE  /\ clip.duration \in Int /\ clip.duration > 0
         /\ \A i \in DOMAIN clip.tracks :
              LET track == clip.tracks[i] IN
              /\ track.translation.keys \in Seq([time : Int, value : Int])
              /\ track.rotation.keys \in Seq([time : Int, value : {-1, 1}])
              /\ track.scale.keys \in Seq([time : Int, value : Int])
              /\ ValidKeyTimes(track.translation.keys, clip.duration)
              /\ ValidKeyTimes(track.rotation.keys, clip.duration)
              /\ ValidKeyTimes(track.scale.keys, clip.duration)
<1>1. clip.duration \in Int /\ clip.duration > 0 /\ ValidTracks(clip, body)
  BY DEF Suits, ValidClip
<1>2. PICK s \in Loadable : clip \in ToSet(BuiltAssets[s].clips)
  BY DEF Suits, Clips
<1>3. PICK n \in DOMAIN BuiltAssets[s].clips : clip = BuiltAssets[s].clips[n]
  BY <1>2 DEF ToSet
<1>4. OnAxis(BuiltAssets[s])
  BY <1>2, GameAssumption
<1>5. ASSUME NEW i \in DOMAIN clip.tracks
      PROVE  LET track == clip.tracks[i] IN
             /\ track.translation.keys \in Seq([time : Int, value : Int])
             /\ track.rotation.keys \in Seq([time : Int, value : {-1, 1}])
             /\ track.scale.keys \in Seq([time : Int, value : Int])
  BY <1>3, <1>4 DEF OnAxis
<1>6. ASSUME NEW i \in DOMAIN clip.tracks
      PROVE  LET track == clip.tracks[i] IN
             \A channel \in Channels : ValidKeyTimes(track[channel].keys, clip.duration)
  BY <1>1 DEF ValidTracks, ValidChannel
<1> QED BY <1>1, <1>5, <1>6 DEF Channels

LEMMA BodyFacts ==
  ASSUME NEW body \in Bodies
  PROVE  /\ IsSequence(body.joints)
         /\ \A joint \in Joints(body) : body.joints[joint].bindLocal \in Transform
  BY GameAssumption DEF Bodies, OnAxis, Transform

(* A clip holds every joint at a place, whatever the time.                 *)
LEMMA JointType ==
  ASSUME NEW clip, NEW body, Suits(clip, body), NEW joint \in Joints(body), NEW time \in Int
  PROVE  SampleJoint(clip, body.joints[joint].bindLocal, joint, time) \in Transform
<1>1. PICK bind : bind = body.joints[joint].bindLocal
  OBVIOUS
<1>2. bind \in Transform /\ bind.translation \in Int /\ bind.rotation \in {-1, 1}
      /\ bind.scale \in Int
  BY <1>1, BodyFacts DEF Suits, Transform
<1>3. CASE TracksOf(clip, joint) = {}
  BY <1>1, <1>2, <1>3 DEF SampleJoint
<1>4. CASE TracksOf(clip, joint) # {}
  <2>1. PICK i : i = Min(TracksOf(clip, joint))
    OBVIOUS
  <2>2. i \in DOMAIN clip.tracks
    <3>1. \A k \in DOMAIN clip.tracks : clip.tracks[k].joint = joint =>
            TracksOf(clip, joint) = {k}
      BY DEF TracksOf, Suits, ValidClip, ValidTracks
    <3>2. PICK k \in DOMAIN clip.tracks : TracksOf(clip, joint) = {k}
      BY <1>4, <3>1 DEF TracksOf
    <3>3. i = k
      BY <2>1, <3>2, MinFacts DEF Min
    <3> QED BY <3>3
  <2>3. PICK track : track = clip.tracks[i]
    OBVIOUS
  <2>4. /\ SampleVec3(track.translation, time, bind.translation) \in Int
        /\ SampleVec3(track.scale, time, bind.scale) \in Int
    BY <1>2, <2>2, <2>3, ClipFacts, Vec3Type
  <2>5. SampleQuat(track.rotation, time, bind.rotation) \in {-1, 1}
    BY <1>2, <2>2, <2>3, ClipFacts, QuatType
  <2>6. SampleJoint(clip, bind, joint, time)
          = [translation |-> SampleVec3(track.translation, time, bind.translation),
             rotation |-> SampleQuat(track.rotation, time, bind.rotation),
             scale |-> SampleVec3(track.scale, time, bind.scale)]
    BY <1>4, <2>1, <2>3 DEF SampleJoint
  <2> QED BY <1>1, <2>4, <2>5, <2>6 DEF Transform
<1> QED BY <1>3, <1>4

LEMMA SampledType ==
  ASSUME NEW body, NEW play, Suits(play.clip, body), play.time \in Int
  PROVE  /\ Sampled(body, play) = [joint \in Joints(body) |-> Sampled(body, play)[joint]]
         /\ DOMAIN Sampled(body, play) = Joints(body)
         /\ \A joint \in Joints(body) : Sampled(body, play)[joint] \in Transform
<1>1. PICK time : time = SampleTime(play.time, play.clip.duration, play.wrapMode)
  OBVIOUS
<1>2. play.clip.duration \in Int /\ play.clip.duration > 0
  BY ClipFacts
<1>3. time \in Int
  BY <1>1, <1>2 DEF SampleTime
<1>4. Sampled(body, play)
        = [joint \in Joints(body) |->
             SampleJoint(play.clip, body.joints[joint].bindLocal, joint, time)]
  BY <1>1 DEF Sampled, SampleClip
<1>5. \A joint \in Joints(body) :
        SampleJoint(play.clip, body.joints[joint].bindLocal, joint, time) \in Transform
  BY <1>3, JointType
<1> QED BY <1>4, <1>5

(* A clock brought back into its clip stays where it is, and shows there   *)
(* what it showed before.                                                  *)
LEMMA SampleTimeSettles ==
  ASSUME NEW time \in Int, NEW duration \in Int, duration > 0, NEW wrapMode
  PROVE  LET settled == SampleTime(time, duration, wrapMode) IN
         /\ settled \in Int /\ settled >= 0 /\ settled <= duration
         /\ SampleTime(settled, duration, wrapMode) = settled
<1>1. CASE wrapMode = "loop"
  <2>1. PICK rest : rest = time % duration
    OBVIOUS
  <2>2. rest \in Int /\ rest >= 0 /\ rest < duration
    BY <2>1
  <2>3. rest % duration = rest
    BY <2>2
  <2> QED BY <1>1, <2>1, <2>2, <2>3 DEF SampleTime
<1>2. CASE wrapMode # "loop"
  BY <1>2 DEF SampleTime
<1> QED BY <1>1, <1>2

(* A playback or a layer, whose clock was brought back.                    *)
LEMMA CompactedShape ==
  ASSUME NEW body, NEW play, play \in Playbacks \/ play \in LayerPlaybacks,
         Suits(play.clip, body)
  PROVE  LET settled == Compacted(play) IN
         /\ play # Nothing /\ settled # Nothing
         /\ play \in Playbacks => settled \in Playbacks
         /\ play \in LayerPlaybacks =>
              /\ settled \in LayerPlaybacks
              /\ settled.weight = play.weight /\ settled.mask = play.mask
         /\ settled.clip = play.clip
         /\ settled.wrapMode = play.wrapMode
         /\ settled.playbackRate = play.playbackRate
         /\ settled.time = SampleTime(play.time, play.clip.duration, play.wrapMode)
         /\ Sampled(body, settled) = Sampled(body, play)
<1>1. play # Nothing
  BY GameAssumption
<1>2. play.time \in Int /\ play.clip.duration \in Int /\ play.clip.duration > 0
  BY ClipFacts DEF Playbacks, LayerPlaybacks
<1>3. PICK time : time = SampleTime(play.time, play.clip.duration, play.wrapMode)
  OBVIOUS
<1>4. time \in Int /\ SampleTime(time, play.clip.duration, play.wrapMode) = time
  BY <1>2, <1>3, SampleTimeSettles
<1>5. PICK settled : settled = [play EXCEPT !.time = time]
  OBVIOUS
<1>6. Compacted(play) = settled
  BY <1>1, <1>3, <1>5 DEF Compacted
<1>7. /\ play \in Playbacks => settled \in Playbacks
      /\ play \in LayerPlaybacks =>
           /\ settled \in LayerPlaybacks
           /\ settled.weight = play.weight /\ settled.mask = play.mask
      /\ settled.clip = play.clip
      /\ settled.wrapMode = play.wrapMode
      /\ settled.playbackRate = play.playbackRate
      /\ settled.time = time
  BY <1>4, <1>5 DEF Playbacks, LayerPlaybacks
<1>8. settled # Nothing
  BY <1>7, GameAssumption
<1>9. Sampled(body, settled) = Sampled(body, play)
  BY <1>3, <1>4, <1>7 DEF Sampled, SampleClip
<1> QED BY <1>1, <1>3, <1>6, <1>7, <1>8, <1>9

LEMMA MovedShape ==
  ASSUME NEW play, play \in Playbacks \/ play \in LayerPlaybacks, NEW deltaSeconds \in Int
  PROVE  LET moved == Moved(play, deltaSeconds) IN
         /\ play # Nothing /\ moved # Nothing
         /\ play \in Playbacks => moved \in Playbacks
         /\ play \in LayerPlaybacks => moved \in LayerPlaybacks
         /\ moved.clip = play.clip
         /\ moved.wrapMode = play.wrapMode
         /\ moved.playbackRate = play.playbackRate
         /\ moved.time = play.time + deltaSeconds * play.playbackRate
<1>1. play # Nothing
  BY GameAssumption
<1>2. PICK time : time = play.time + deltaSeconds * play.playbackRate
  OBVIOUS
<1>3. play.time \in Int /\ play.playbackRate \in Int
  BY DEF Playbacks, LayerPlaybacks
<1>4. time \in Int
  <2>1. PICK rate \in Int : rate = play.playbackRate
    BY <1>3
  <2>2. deltaSeconds * rate \in Int
    OBVIOUS
  <2> QED BY <1>2, <1>3, <2>1, <2>2
<1>5. PICK moved : moved = [play EXCEPT !.time = time]
  OBVIOUS
<1>6. Moved(play, deltaSeconds) = moved
  BY <1>1, <1>2, <1>5 DEF Moved
<1>7. /\ play \in Playbacks => moved \in Playbacks
      /\ play \in LayerPlaybacks => moved \in LayerPlaybacks
      /\ moved.clip = play.clip
      /\ moved.wrapMode = play.wrapMode
      /\ moved.playbackRate = play.playbackRate
      /\ moved.time = time
  BY <1>4, <1>5 DEF Playbacks, LayerPlaybacks
<1>8. moved # Nothing
  BY <1>7, GameAssumption
<1> QED BY <1>1, <1>2, <1>6, <1>7, <1>8

(* Settling a layer lays nothing else.                                     *)
LEMMA LaidSettles ==
  ASSUME NEW body, NEW layer \in LayerPlaybacks \cup {Nothing},
         layer # Nothing => Suits(layer.clip, body)
  PROVE  /\ Laid(body, Compacted(layer)) = Laid(body, layer)
         /\ Compacted(layer) \in LayerPlaybacks \cup {Nothing}
         /\ Compacted(layer) # Nothing => Suits(Compacted(layer).clip, body)
<1>1. CASE layer = Nothing
  BY <1>1 DEF Compacted
<1>2. CASE layer # Nothing
  <2>1. PICK settled : settled = Compacted(layer)
    OBVIOUS
  <2>2. /\ settled # Nothing /\ settled \in LayerPlaybacks
        /\ settled.weight = layer.weight /\ settled.mask = layer.mask
        /\ settled.clip = layer.clip
        /\ Sampled(body, settled) = Sampled(body, layer)
    BY <1>2, <2>1, CompactedShape
  <2>3. Laid(body, settled) = Laid(body, layer)
    BY <1>2, <2>2 DEF Laid
  <2> QED BY <1>2, <2>1, <2>2, <2>3
<1> QED BY <1>1, <1>2

(* A crossfade begins with the clip it leaves and ends with the one it     *)
(* goes to.                                                                *)
LEMMA BlendPosesEnds ==
  ASSUME NEW body, NEW from, NEW to, NEW joints,
         from = [joint \in joints |-> from[joint]], \A joint \in joints : from[joint] \in Transform,
         to = [joint \in joints |-> to[joint]], \A joint \in joints : to[joint] \in Transform
  PROVE  /\ BlendPoses(body, from, to, 0, << >>) = from
         /\ BlendPoses(body, from, to, Full, << >>) = to
<1>1. \A joint \in joints : from[joint] \in Place /\ to[joint] \in Place
  BY DEF Transform, Place
<1>2. DOMAIN from = joints /\ DOMAIN to = joints
  OBVIOUS
<1>3. Blendable(from) /\ Blendable(to)
  <2>1. \A place \in Place : Finite(place) /\ HasRotation(place)
    BY DEF Place, Finite, HasRotation
  <2> QED BY <1>1, <1>2, <2>1 DEF Blendable
<1>4. ValidMask(body, << >>)
  BY DEF ValidMask
<1>5. \A joint : /\ (0 * MaskWeight(<< >>, joint)) \div Full = 0
                 /\ (Full * MaskWeight(<< >>, joint)) \div Full = Full
  BY DEF MaskWeight, Full
<1>6. BlendPoses(body, from, to, 0, << >>)
        = [joint \in joints |-> Blend(from[joint], to[joint], 0)]
  BY <1>2, <1>3, <1>4, <1>5 DEF BlendPoses
<1>7. BlendPoses(body, from, to, Full, << >>)
        = [joint \in joints |-> Blend(from[joint], to[joint], Full)]
  BY <1>2, <1>3, <1>4, <1>5 DEF BlendPoses
<1>8. \A joint \in joints : /\ Blend(from[joint], to[joint], 0) = from[joint]
                            /\ Blend(from[joint], to[joint], Full) = to[joint]
  BY <1>1, BlendEnds
<1> QED BY <1>6, <1>7, <1>8

LEMMA FadeEnds ==
  ASSUME NEW body, NEW b, NEW fade \in Fades,
         Suits(fade.from.clip, body), Suits(fade.to.clip, body)
  PROVE  /\ fade.elapsed = 0 => FadedPose(body, b, fade) = Sampled(body, fade.from)
         /\ fade.elapsed = fade.duration => FadedPose(body, b, fade) = Sampled(body, fade.to)
<1>1. fade # Nothing
  BY GameAssumption
<1>2. /\ fade.from \in Playbacks /\ fade.to \in Playbacks
      /\ fade.from.time \in Int /\ fade.to.time \in Int
      /\ fade.duration \in Nat /\ fade.duration # 0
  BY DEF Fades, Playbacks
<1>3. PICK from, to : from = Sampled(body, fade.from) /\ to = Sampled(body, fade.to)
  OBVIOUS
<1>4. /\ from = [joint \in Joints(body) |-> from[joint]]
      /\ \A joint \in Joints(body) : from[joint] \in Transform
  BY <1>2, <1>3, SampledType
<1>5. /\ to = [joint \in Joints(body) |-> to[joint]]
      /\ \A joint \in Joints(body) : to[joint] \in Transform
  BY <1>2, <1>3, SampledType
<1>6. /\ BlendPoses(body, from, to, 0, << >>) = from
      /\ BlendPoses(body, from, to, Full, << >>) = to
  BY <1>4, <1>5, BlendPosesEnds
<1>7. FadedPose(body, b, fade)
        = BlendPoses(body, from, to, (fade.elapsed * Full) \div fade.duration, << >>)
  BY <1>1, <1>3 DEF FadedPose
<1>8. PICK d \in Nat : d = fade.duration /\ d # 0
  BY <1>2
<1>9. (0 * Full) \div d = 0 /\ (d * Full) \div d = Full
  BY <1>8 DEF Full
<1> QED BY <1>3, <1>6, <1>7, <1>8, <1>9

(***************************************************************************)
(* What is set, plays, fades and lies over it suits the character.         *)
(***************************************************************************)
LayerFits(layer) ==
  layer \in LayerPlaybacks \cup {Nothing} /\ (layer # Nothing => Suits(layer.clip, skeleton))

FadeFits(fade) ==
  /\ fade \in Fades
  /\ Suits(fade.from.clip, skeleton) /\ Suits(fade.to.clip, skeleton)
  /\ fade.elapsed <= fade.duration

Fits ==
  /\ assets = BuiltAssets
  /\ skeleton \in Bodies \cup {Nothing}
  /\ base \in Playbacks \cup {Nothing}
  /\ base # Nothing => Suits(base.clip, skeleton)
  /\ transition # Nothing => base # Nothing /\ FadeFits(transition)
  /\ \A i \in DOMAIN layers : LayerFits(layers[i])

LEMMA AskedFor ==
  ASSUME assets = BuiltAssets
  PROVE  /\ \A play \in Plays : Playable(Playback(play)) => Playback(play) \in Playbacks
         /\ \A wanted \in LayerRoots, slot \in Nat :
              CanLayer(slot, Layer(wanted)) => Layer(wanted) \in LayerPlaybacks
<1>1. ASSUME NEW wish \in Plays \cup LayerRoots
      PROVE  ClipNamed(wish.scene, wish.clip) \in Clips
  <2>1. wish.scene \in Loadable
    BY GameAssumption
  <2>2. PICK clips : clips = BuiltAssets[wish.scene].clips
    OBVIOUS
  <2>3. PICK named : named = {i \in DOMAIN clips : clips[i].name = wish.clip}
    OBVIOUS
  <2>4. DOMAIN clips \subseteq Nat
    BY <2>1, <2>2, SequenceFacts, GameAssumption DEF OnAxis
  <2>5. named # {}
    BY <2>2, <2>3, GameAssumption
  <2>6. Min(named) \in named
    BY <2>3, <2>4, <2>5, MinFacts
  <2>7. ClipNamed(wish.scene, wish.clip) = clips[Min(named)]
    BY <2>2, <2>3 DEF ClipNamed
  <2>8. clips[Min(named)] \in ToSet(clips)
    BY <2>3, <2>6 DEF ToSet
  <2> QED BY <2>1, <2>2, <2>7, <2>8 DEF Clips
<1>2. ASSUME NEW play \in Plays, Playable(Playback(play))
      PROVE  Playback(play) \in Playbacks
  <2>1. ClipNamed(play.scene, play.clip) \in Clips
    BY <1>1
  <2>2. play.playbackRate \in Int
    BY <1>2 DEF Playable, Playback
  <2>3. play.wrapMode \in {"loop", "clamp"}
    BY GameAssumption
  <2> QED BY <2>1, <2>2, <2>3 DEF Playback, Playbacks
<1>3. ASSUME NEW wanted \in LayerRoots, NEW slot \in Nat, CanLayer(slot, Layer(wanted))
      PROVE  Layer(wanted) \in LayerPlaybacks
  <2>1. ClipNamed(wanted.scene, wanted.clip) \in Clips
    BY <1>1
  <2>2. wanted.playbackRate \in Int /\ wanted.weight \in 0 .. Full
    BY <1>3 DEF CanLayer, Layer
  <2>3. DescendantMask(assets[wanted.scene].skeleton, wanted.root)
          \in LayerMasks
    BY DEF LayerMasks
  <2> QED BY <2>1, <2>2, <2>3 DEF Layer, LayerPlaybacks
<1> QED BY <1>2, <1>3

LEMMA InitFits ==
  ASSUME Init
  PROVE  Fits /\ PoseIsCurrent
  BY DEF Init, RuntimeInit, Fits, PoseIsCurrent, Playing

LEMMA RefuseFits ==
  ASSUME Fits, Refuse, UNCHANGED assets
  PROVE  Fits'
  BY DEF Fits, FadeFits, LayerFits, Refuse, playback

LEMMA WearFits ==
  ASSUME Fits, NEW s \in Loaded, Wear(s)
  PROVE  Fits'
<1>1. assets' = assets /\ s \in Loadable /\ assets[s].skeleton \in Bodies
  BY DEF Wear, Fits, Loaded, Loadable, Bodies
<1>2. CASE ~ValidSkeleton(assets[s].skeleton)
  BY <1>1, <1>2, RefuseFits DEF Wear, SetSkeleton
<1>3. CASE ValidSkeleton(assets[s].skeleton)
  <2>1. base' = Nothing /\ transition' = Nothing /\ layers' = << >>
    BY <1>3 DEF Wear, SetSkeleton
  <2>2. skeleton' \in {assets[s].skeleton, Nothing}
    BY <1>3 DEF Wear, SetSkeleton
  <2>3. DOMAIN layers' = {}
    BY <2>1
  <2> QED BY <1>1, <2>1, <2>2, <2>3 DEF Fits
<1> QED BY <1>2, <1>3

LEMMA StartFits ==
  ASSUME Fits, NEW play \in Plays, Start(play)
  PROVE  Fits'
<1>1. assets' = assets
  BY DEF Start
<1>2. CASE ~Playable(Playback(play))
  BY <1>1, <1>2, RefuseFits DEF Start, Play
<1>3. CASE Playable(Playback(play))
  <2>1. Playback(play) \in Playbacks
    BY <1>3, AskedFor DEF Fits
  <2>2. /\ base' = Playback(play) /\ transition' = Nothing
        /\ UNCHANGED <<skeleton, layers>>
    BY <1>3 DEF Start, Play
  <2>3. Suits(Playback(play).clip, skeleton)
    BY <1>3, <2>1 DEF Fits, Playable, Suits, Playbacks
  <2> QED BY <1>1, <2>1, <2>2, <2>3 DEF Fits, LayerFits
<1> QED BY <1>2, <1>3

LEMMA FadeKeepsFits ==
  ASSUME Fits, NEW play \in Plays, NEW duration, Fade(play, duration)
  PROVE  /\ Fits'
         /\ CanFade(Playback(play), duration) =>
              /\ transition = Nothing /\ base # Nothing
              /\ Suits(base.clip, skeleton) /\ base \in Playbacks
              /\ transition' = [from |-> base, to |-> Playback(play), elapsed |-> 0,
                                duration |-> duration]
              /\ transition' \in Fades /\ FadeFits(transition')
<1>1. assets' = assets
  BY DEF Fade
<1>2. CASE ~CanFade(Playback(play), duration)
  BY <1>1, <1>2, RefuseFits DEF Fade, CrossFade
<1>3. CASE CanFade(Playback(play), duration)
  <2>1. /\ Playable(Playback(play)) /\ base # Nothing /\ transition = Nothing
        /\ duration \in Nat /\ duration # 0
    BY <1>3 DEF CanFade
  <2>2. Playback(play) \in Playbacks
    BY <2>1, AskedFor DEF Fits
  <2>3. /\ transition' = [from |-> base, to |-> Playback(play), elapsed |-> 0,
                           duration |-> duration]
        /\ UNCHANGED <<skeleton, base, layers>>
    BY <1>3 DEF Fade, CrossFade
  <2>4. Suits(Playback(play).clip, skeleton)
    BY <2>1, <2>2 DEF Fits, Playable, Suits, Playbacks
  <2>5. base \in Playbacks /\ Suits(base.clip, skeleton)
    BY <2>1 DEF Fits
  <2>6. transition' \in Fades
    BY <2>1, <2>2, <2>3, <2>5 DEF Fades
  <2>7. FadeFits(transition')
    BY <2>1, <2>3, <2>4, <2>5, <2>6 DEF FadeFits
  <2>8. FadeFits(transition)'
    BY <2>3, <2>7 DEF FadeFits
  <2> QED BY <1>1, <2>1, <2>3, <2>5, <2>6, <2>7, <2>8 DEF Fits, LayerFits
<1> QED BY <1>2, <1>3

LEMMA PutFits ==
  ASSUME Fits, NEW slot \in Nat, NEW wanted \in LayerRoots, Put(slot, wanted)
  PROVE  Fits'
<1>1. assets' = assets
  BY DEF Put
<1>2. CASE ~CanLayer(slot, Layer(wanted))
  BY <1>1, <1>2, RefuseFits DEF Put, SetLayer
<1>3. CASE CanLayer(slot, Layer(wanted))
  <2>1. Layer(wanted) \in LayerPlaybacks
    BY <1>3, AskedFor DEF Fits
  <2>2. layers' = Filled(slot, Layer(wanted)) /\ UNCHANGED <<skeleton, base, transition>>
    BY <1>3 DEF Put, SetLayer
  <2>3. LayerFits(Layer(wanted))
    <3>1. skeleton \in Bodies /\ ValidClip(Layer(wanted).clip, skeleton)
      BY <1>3 DEF CanLayer, Fits
    <3> QED BY <2>1, <3>1 DEF LayerFits, Suits, LayerPlaybacks
  <2>4. LayerFits(Nothing)
    BY DEF LayerFits
  <2>5. \A i \in DOMAIN Filled(slot, Layer(wanted)) :
          LayerFits(Filled(slot, Layer(wanted))[i])
    BY <2>3, <2>4 DEF Filled, Fits
  <2> QED BY <1>1, <2>2, <2>5 DEF Fits, LayerFits, FadeFits
<1> QED BY <1>2, <1>3

LEMMA TakeFits ==
  ASSUME Fits, NEW slot \in DOMAIN layers, Take(slot)
  PROVE  Fits'
<1>1. UNCHANGED <<assets, skeleton, base, transition>>
  BY DEF Take, ClearLayer, ClearLayers
<1>2. layers' = [layers EXCEPT ![slot] = Nothing] \/ layers' = << >>
  BY DEF Take, ClearLayer, ClearLayers, Relayer
<1>3. LayerFits(Nothing)
  BY DEF LayerFits
<1>4. \A i \in DOMAIN layers' : LayerFits(layers'[i])
  BY <1>2, <1>3 DEF Fits
<1> QED BY <1>1, <1>4 DEF Fits, LayerFits, FadeFits

LEMMA RootFits ==
  ASSUME Fits, NEW joint, Root(joint)
  PROVE  Fits'
<1>1. UNCHANGED <<assets, skeleton, base, transition, layers>>
  BY DEF Root, SetRootMotionJoint, Refuse, playback
<1> QED BY <1>1 DEF Fits, LayerFits, FadeFits

LEMMA FadeShape ==
  ASSUME NEW x, NEW y, NEW z, NEW d,
         NEW fade \in [from : {x}, to : {y}, elapsed : {z}, duration : {d}]
  PROVE  fade = [from |-> x, to |-> y, elapsed |-> z, duration |-> d]
  OBVIOUS

(* What an update shows its pose from.                                     *)
LEMMA FadeMoves ==
  ASSUME transition # Nothing, FadeFits(transition), NEW deltaSeconds \in Nat
  PROVE  LET fade == MovedFade(deltaSeconds) IN
         /\ fade # Nothing /\ FadeFits(fade)
         /\ fade = [from |-> Moved(transition.from, deltaSeconds),
                    to |-> Moved(transition.to, deltaSeconds),
                    elapsed |-> fade.elapsed, duration |-> transition.duration]
         /\ fade.elapsed \in Nat
<1>1. /\ transition.from \in Playbacks /\ transition.to \in Playbacks
      /\ transition.elapsed \in Nat /\ transition.duration \in Nat
      /\ transition.duration # 0 /\ transition.elapsed <= transition.duration
      /\ transition = [from |-> transition.from, to |-> transition.to,
                       elapsed |-> transition.elapsed, duration |-> transition.duration]
  BY DEF FadeFits, Fades
<1>2. PICK elapsed : elapsed = Min({transition.elapsed + deltaSeconds, transition.duration})
  OBVIOUS
<1>3. elapsed \in Nat /\ elapsed <= transition.duration
  <2>1. /\ {transition.elapsed + deltaSeconds, transition.duration} \subseteq Nat
        /\ {transition.elapsed + deltaSeconds, transition.duration} # {}
    BY <1>1
  <2>2. /\ elapsed \in {transition.elapsed + deltaSeconds, transition.duration}
        /\ \A x \in {transition.elapsed + deltaSeconds, transition.duration} : elapsed <= x
    BY <1>2, <2>1, MinFacts
  <2> QED BY <2>1, <2>2
<1>4. PICK from, to : from = Moved(transition.from, deltaSeconds)
                      /\ to = Moved(transition.to, deltaSeconds)
  OBVIOUS
<1>5. PICK fade : fade = [from |-> from, to |-> to, elapsed |-> elapsed,
                          duration |-> transition.duration]
  OBVIOUS
<1>6. MovedFade(deltaSeconds) = fade
  <2>1. MovedFade(deltaSeconds)
          = [transition EXCEPT !.from = from, !.to = to, !.elapsed = elapsed]
    BY <1>2, <1>4 DEF MovedFade
  <2>2. [transition EXCEPT !.from = from, !.to = to, !.elapsed = elapsed]
          \in [from : {from}, to : {to}, elapsed : {elapsed}, duration : {transition.duration}]
    BY <1>1
  <2>3. MovedFade(deltaSeconds)
          = [from |-> from, to |-> to, elapsed |-> elapsed, duration |-> transition.duration]
    BY <2>1, <2>2, FadeShape
  <2> QED BY <1>5, <2>3
<1>7. deltaSeconds \in Int
  OBVIOUS
<1>8. /\ from \in Playbacks /\ from.clip = transition.from.clip
      /\ to \in Playbacks /\ to.clip = transition.to.clip
  BY <1>1, <1>4, <1>7, MovedShape
<1>9. fade \in Fades
  BY <1>1, <1>3, <1>5, <1>8 DEF Fades
<1>10. FadeFits(fade) /\ fade # Nothing
  BY <1>3, <1>5, <1>8, <1>9, GameAssumption DEF FadeFits
<1> QED BY <1>3, <1>4, <1>5, <1>6, <1>10

LEMMA LayersMove ==
  ASSUME NEW layer, LayerFits(layer), NEW deltaSeconds \in Nat
  PROVE  LayerFits(Moved(layer, deltaSeconds))
<1>1. CASE layer = Nothing
  BY <1>1 DEF Moved, LayerFits
<1>2. CASE layer # Nothing
  <2>1. layer \in LayerPlaybacks /\ deltaSeconds \in Int
    BY <1>2 DEF LayerFits
  <2>2. Moved(layer, deltaSeconds) \in LayerPlaybacks
        /\ Moved(layer, deltaSeconds).clip = layer.clip
    BY <2>1, MovedShape
  <2> QED BY <1>2, <2>2 DEF LayerFits
<1> QED BY <1>1, <1>2

(* A crossfade whose clips were brought back shows what it showed before.  *)
LEMMA FadeSettles ==
  ASSUME NEW fade, FadeFits(fade)
  PROVE  LET settled == [fade EXCEPT !.from = Compacted(@), !.to = Compacted(@)] IN
         /\ settled # Nothing /\ FadeFits(settled)
         /\ settled = [from |-> Compacted(fade.from), to |-> Compacted(fade.to),
                       elapsed |-> fade.elapsed, duration |-> fade.duration]
         /\ \A a, b : FadedPose(skeleton, a, settled) = FadedPose(skeleton, b, fade)
<1>1. /\ fade.from \in Playbacks /\ fade.to \in Playbacks
      /\ fade.elapsed \in Nat /\ fade.duration \in Nat
      /\ fade.duration # 0 /\ fade.elapsed <= fade.duration
      /\ fade = [from |-> fade.from, to |-> fade.to,
                 elapsed |-> fade.elapsed, duration |-> fade.duration]
      /\ Suits(fade.from.clip, skeleton) /\ Suits(fade.to.clip, skeleton)
  BY DEF FadeFits, Fades
<1>2. PICK from, to : from = Compacted(fade.from) /\ to = Compacted(fade.to)
  OBVIOUS
<1>3. /\ from \in Playbacks /\ from.clip = fade.from.clip
      /\ Sampled(skeleton, from) = Sampled(skeleton, fade.from)
      /\ to \in Playbacks /\ to.clip = fade.to.clip
      /\ Sampled(skeleton, to) = Sampled(skeleton, fade.to)
  BY <1>1, <1>2, CompactedShape
<1>4. PICK settled : settled = [from |-> from, to |-> to, elapsed |-> fade.elapsed,
                                duration |-> fade.duration]
  OBVIOUS
<1>5. [fade EXCEPT !.from = Compacted(@), !.to = Compacted(@)] = settled
  <2>1. [fade EXCEPT !.from = from, !.to = to]
          \in [from : {from}, to : {to}, elapsed : {fade.elapsed}, duration : {fade.duration}]
    BY <1>1
  <2>2. PICK edited : edited = [fade EXCEPT !.from = from, !.to = to]
    OBVIOUS
  <2>3. edited
          = [from |-> from, to |-> to, elapsed |-> fade.elapsed, duration |-> fade.duration]
    BY <2>1, <2>2, FadeShape
  <2> QED BY <1>2, <1>4, <2>2, <2>3
<1>6. settled \in Fades
  BY <1>1, <1>3, <1>4 DEF Fades
<1>7. FadeFits(settled) /\ settled # Nothing /\ fade # Nothing
  BY <1>1, <1>3, <1>4, <1>6, GameAssumption DEF FadeFits
<1>8. ASSUME NEW a, NEW b
      PROVE  FadedPose(skeleton, a, settled) = FadedPose(skeleton, b, fade)
  <2>1. /\ Sampled(skeleton, settled.from) = Sampled(skeleton, fade.from)
        /\ Sampled(skeleton, settled.to) = Sampled(skeleton, fade.to)
        /\ settled.elapsed = fade.elapsed /\ settled.duration = fade.duration
    BY <1>3, <1>4
  <2> QED BY <1>7, <2>1 DEF FadedPose
<1> QED BY <1>2, <1>4, <1>5, <1>7, <1>8

(* An update that can show its pose settles into what shows the same one.  *)
LEMMA SettledFits ==
  ASSUME NEW b \in Playbacks, Suits(b.clip, skeleton),
         NEW fade, fade # Nothing => FadeFits(fade),
         NEW over, \A i \in DOMAIN over : LayerFits(over[i]),
         Settled(b, fade, over)
  PROVE  /\ base' \in Playbacks /\ base' # Nothing /\ Suits(base'.clip, skeleton)
         /\ transition' # Nothing => FadeFits(transition')
         /\ \A i \in DOMAIN layers' : LayerFits(layers'[i])
         /\ PoseOf(skeleton, base', transition', layers') = PoseOf(skeleton, b, fade, over)
<1>1. layers' = [i \in DOMAIN over |-> Compacted(over[i])]
  BY DEF Settled
<1>2. \A i \in DOMAIN over :
        /\ LayerFits(Compacted(over[i]))
        /\ Laid(skeleton, Compacted(over[i])) = Laid(skeleton, over[i])
  BY LaidSettles DEF LayerFits
<1>3. [i \in DOMAIN layers' |-> Laid(skeleton, layers'[i])]
        = [i \in DOMAIN over |-> Laid(skeleton, over[i])]
  BY <1>1, <1>2
<1>4. ASSUME NEW play \in Playbacks, Suits(play.clip, skeleton)
      PROVE  /\ Compacted(play) \in Playbacks /\ Compacted(play) # Nothing
             /\ Suits(Compacted(play).clip, skeleton)
             /\ Sampled(skeleton, Compacted(play)) = Sampled(skeleton, play)
  BY <1>4, CompactedShape
<1>5. CASE fade = Nothing
  <2>1. base' = Compacted(b) /\ transition' = Nothing
    BY <1>5 DEF Settled
  <2>2. FadedPose(skeleton, base', transition') = FadedPose(skeleton, b, fade)
    BY <1>4, <1>5, <2>1 DEF FadedPose
  <2> QED BY <1>1, <1>2, <1>3, <1>4, <2>1, <2>2 DEF PoseOf
<1>6. CASE fade # Nothing /\ fade.elapsed >= fade.duration
  <2>1. base' = Compacted(fade.to) /\ transition' = Nothing
    BY <1>6 DEF Settled
  <2>2. /\ fade \in Fades /\ fade.to \in Playbacks /\ fade.elapsed = fade.duration
        /\ Suits(fade.from.clip, skeleton) /\ Suits(fade.to.clip, skeleton)
    BY <1>6 DEF FadeFits, Fades
  <2>3. FadedPose(skeleton, b, fade) = Sampled(skeleton, fade.to)
    BY <2>2, FadeEnds
  <2>4. FadedPose(skeleton, base', transition') = Sampled(skeleton, base')
    BY <2>1 DEF FadedPose
  <2>5. /\ base' \in Playbacks /\ base' # Nothing /\ Suits(base'.clip, skeleton)
        /\ Sampled(skeleton, base') = Sampled(skeleton, fade.to)
    BY <1>4, <2>1, <2>2
  <2> QED BY <1>1, <1>2, <1>3, <2>1, <2>3, <2>4, <2>5 DEF PoseOf
<1>7. CASE fade # Nothing /\ ~(fade.elapsed >= fade.duration)
  <2>1. /\ base' = Compacted(b)
        /\ transition' = [fade EXCEPT !.from = Compacted(@), !.to = Compacted(@)]
    BY <1>7 DEF Settled
  <2>2. /\ transition' # Nothing /\ FadeFits(transition')
        /\ FadedPose(skeleton, base', transition') = FadedPose(skeleton, b, fade)
    BY <1>7, <2>1, FadeSettles
  <2> QED BY <1>1, <1>2, <1>3, <1>4, <2>1, <2>2 DEF PoseOf
<1> QED BY <1>5, <1>6, <1>7

(* What an update leaves to an update.                                     *)
LEMMA UpdateParts ==
  ASSUME Fits, base # Nothing, NEW deltaSeconds \in Nat
  PROVE  LET b == IF transition = Nothing THEN Moved(base, deltaSeconds) ELSE base
             fade == MovedFade(deltaSeconds)
             over == [i \in DOMAIN layers |-> Moved(layers[i], deltaSeconds)]
         IN  /\ b \in Playbacks /\ Suits(b.clip, skeleton)
             /\ fade # Nothing => FadeFits(fade)
             /\ \A i \in DOMAIN over : LayerFits(over[i])
<1>1. base \in Playbacks /\ Suits(base.clip, skeleton) /\ deltaSeconds \in Int
  BY DEF Fits
<1>2. Moved(base, deltaSeconds) \in Playbacks /\ Moved(base, deltaSeconds).clip = base.clip
  BY <1>1, MovedShape
<1>3. MovedFade(deltaSeconds) # Nothing => FadeFits(MovedFade(deltaSeconds))
  <2>1. CASE transition = Nothing
    BY <2>1 DEF MovedFade
  <2>2. CASE transition # Nothing
    BY <2>2, FadeMoves DEF Fits
  <2> QED BY <2>1, <2>2
<1>4. \A i \in DOMAIN layers : LayerFits(Moved(layers[i], deltaSeconds))
  BY LayersMove DEF Fits
<1> QED BY <1>1, <1>2, <1>3, <1>4

(* The pose that was built is the one that what plays now asks for.        *)
LEMMA ShownRebuilt ==
  ASSUME NEW pose, NEW error, RebuildPose(pose, error), skeleton' = skeleton,
         base' # Nothing => PoseOf(skeleton, base', transition', layers') = pose
  PROVE  PoseIsCurrent'
<1> SUFFICES ASSUME Playing'
             PROVE  /\ localPose' = pose
                    /\ globalPose' = GlobalPose(skeleton, localPose')
                    /\ PoseOf(skeleton', base', transition', layers') = pose
  BY DEF PoseIsCurrent
<1>1. base' # Nothing /\ PoseOf(skeleton, base', transition', layers') = pose
  BY DEF Playing
<1>2. CanShow(pose)
  BY <1>1 DEF Playing, CanShow
<1> QED BY <1>1, <1>2 DEF RebuildPose

LEMMA ShownStays ==
  ASSUME PoseIsCurrent, UNCHANGED <<skeleton, base, poses>>,
         base # Nothing => PoseOf(skeleton, base, transition', layers')
                             = PoseOf(skeleton, base, transition, layers)
  PROVE  PoseIsCurrent'
<1> SUFFICES ASSUME Playing'
             PROVE  /\ localPose = PoseOf(skeleton, base, transition', layers')
                    /\ globalPose = GlobalPose(skeleton, localPose)
  BY DEF PoseIsCurrent, poses
<1>1. base # Nothing
  BY DEF Playing
<1>2. Playing
  BY <1>1 DEF Playing, CanShow
<1> QED BY <1>1, <1>2 DEF PoseIsCurrent

LEMMA RefuseShows ==
  ASSUME PoseIsCurrent, Refuse
  PROVE  PoseIsCurrent'
  BY ShownStays DEF Refuse, playback

LEMMA FrameKeepsFits ==
  ASSUME Fits, PoseIsCurrent, NEW deltaSeconds \in Steps, Frame(deltaSeconds)
  PROVE  Fits' /\ PoseIsCurrent'
<1>1. assets' = assets /\ deltaSeconds \in Nat
  BY GameAssumption DEF Frame
<1>2. CASE skeleton = Nothing \/ base = Nothing
  <2>1. Refuse
    BY <1>2 DEF Frame, Update
  <2> QED BY <1>1, <2>1, RefuseFits, RefuseShows
<1>3. CASE skeleton # Nothing /\ base # Nothing
  <2>1. PICK b : b = IF transition = Nothing THEN Moved(base, deltaSeconds) ELSE base
    OBVIOUS
  <2>2. PICK fade : fade = MovedFade(deltaSeconds)
    OBVIOUS
  <2>3. PICK over : over = [i \in DOMAIN layers |-> Moved(layers[i], deltaSeconds)]
    OBVIOUS
  <2>4. /\ b \in Playbacks /\ Suits(b.clip, skeleton)
        /\ fade # Nothing => FadeFits(fade)
        /\ \A i \in DOMAIN over : LayerFits(over[i])
    BY <1>1, <1>3, <2>1, <2>2, <2>3, UpdateParts
  <2>5. PICK pose : pose = PoseOf(skeleton, b, fade, over)
    OBVIOUS
  <2>6. /\ RebuildPose(pose, FALSE) /\ skeleton' = skeleton
        /\ CanShow(pose) => Settled(b, fade, over)
        /\ ~CanShow(pose) => base' = b /\ transition' = fade /\ layers' = over
    <3>1. Update(deltaSeconds) /\ ~(deltaSeconds < 0)
      BY <1>1 DEF Frame
    <3>2. /\ RebuildPose(pose, FALSE) /\ skeleton' = skeleton
          /\ IF CanShow(pose) THEN Settled(b, fade, over)
             ELSE base' = b /\ transition' = fade /\ layers' = over
      BY <1>3, <2>1, <2>2, <2>3, <2>5, <3>1 DEF Update
    <3> QED BY <3>2
  <2>7. /\ base' \in Playbacks /\ base' # Nothing /\ Suits(base'.clip, skeleton)
        /\ transition' # Nothing => FadeFits(transition')
        /\ \A i \in DOMAIN layers' : LayerFits(layers'[i])
        /\ PoseOf(skeleton, base', transition', layers') = pose
    <3>1. CASE CanShow(pose)
      BY <2>4, <2>5, <2>6, <3>1, SettledFits
    <3>2. CASE ~CanShow(pose)
      BY <2>4, <2>5, <2>6, <3>2, GameAssumption
    <3> QED BY <3>1, <3>2
  <2>8. Fits'
    BY <1>1, <2>6, <2>7 DEF Fits, FadeFits, LayerFits
  <2>9. PoseIsCurrent'
    BY <2>6, <2>7, ShownRebuilt
  <2> QED BY <2>8, <2>9
<1> QED BY <1>2, <1>3

LEMMA StartShows ==
  ASSUME PoseIsCurrent, NEW play, Start(play)
  PROVE  PoseIsCurrent'
<1>1. CASE ~Playable(Playback(play))
  BY <1>1, RefuseShows DEF Start, Play
<1>2. CASE Playable(Playback(play))
  BY <1>2, ShownRebuilt DEF Start, Play
<1> QED BY <1>1, <1>2

(* A crossfade that begins shows the clip it leaves, at once and as is.    *)
LEMMA FadeShows ==
  ASSUME Fits, PoseIsCurrent, NEW play \in Plays, NEW duration, Fade(play, duration)
  PROVE  PoseIsCurrent'
<1>1. CASE ~CanFade(Playback(play), duration)
  BY <1>1, RefuseShows DEF Fade, CrossFade
<1>2. CASE CanFade(Playback(play), duration)
  <2>1. /\ transition = Nothing /\ transition' \in Fades /\ FadeFits(transition')
        /\ transition'.from = base /\ transition'.elapsed = 0
    BY <1>2, FadeKeepsFits
  <2>2. UNCHANGED <<skeleton, base, layers, poses>>
    BY <1>2 DEF Fade, CrossFade
  <2>3. FadedPose(skeleton, base, transition') = Sampled(skeleton, base)
    BY <2>1, FadeEnds DEF FadeFits
  <2>4. FadedPose(skeleton, base, transition) = Sampled(skeleton, base)
    BY <2>1 DEF FadedPose
  <2>5. PoseOf(skeleton, base, transition', layers')
          = PoseOf(skeleton, base, transition, layers)
    BY <2>2, <2>3, <2>4 DEF PoseOf
  <2> QED BY <2>2, <2>5, ShownStays
<1> QED BY <1>1, <1>2

LEMMA WearShows ==
  ASSUME PoseIsCurrent, NEW s, Wear(s)
  PROVE  PoseIsCurrent'
<1>1. CASE ~ValidSkeleton(assets[s].skeleton)
  BY <1>1, RefuseShows DEF Wear, SetSkeleton
<1>2. CASE ValidSkeleton(assets[s].skeleton)
  <2>1. base' = Nothing
    BY <1>2 DEF Wear, SetSkeleton
  <2> QED BY <2>1 DEF PoseIsCurrent, Playing
<1> QED BY <1>1, <1>2

LEMMA PutShows ==
  ASSUME PoseIsCurrent, NEW slot, NEW wanted, Put(slot, wanted)
  PROVE  PoseIsCurrent'
<1>1. CASE ~CanLayer(slot, Layer(wanted))
  BY <1>1, RefuseShows DEF Put, SetLayer
<1>2. CASE CanLayer(slot, Layer(wanted)) /\ base = Nothing
  <2>1. base' = Nothing
    BY <1>2 DEF Put, SetLayer
  <2> QED BY <2>1 DEF PoseIsCurrent, Playing
<1>3. CASE CanLayer(slot, Layer(wanted)) /\ base # Nothing
  <2>1. PICK over : over = Filled(slot, Layer(wanted))
    OBVIOUS
  <2>2. /\ RebuildPose(PoseOf(skeleton, base, transition, over), FALSE)
        /\ layers' = over /\ UNCHANGED <<skeleton, base, transition>>
    BY <1>3, <2>1 DEF Put, SetLayer
  <2> QED BY <2>2, ShownRebuilt
<1> QED BY <1>1, <1>2, <1>3

LEMMA TakeShows ==
  ASSUME PoseIsCurrent, NEW slot, Take(slot)
  PROVE  PoseIsCurrent'
<1>1. PICK over : Relayer(over)
  BY DEF Take, ClearLayer, ClearLayers
<1>2. UNCHANGED <<skeleton, base, transition>>
  BY DEF Take, ClearLayer, ClearLayers
<1>3. CASE base = Nothing
  BY <1>2, <1>3 DEF PoseIsCurrent, Playing
<1>4. CASE base # Nothing
  BY <1>1, <1>2, <1>4, ShownRebuilt DEF Relayer
<1> QED BY <1>3, <1>4

LEMMA RootShows ==
  ASSUME PoseIsCurrent, NEW joint, Root(joint)
  PROVE  PoseIsCurrent'
<1>1. UNCHANGED <<skeleton, base, transition, layers, poses>>
  BY DEF Root, SetRootMotionJoint, Refuse, playback
<1> QED BY <1>1, ShownStays

-----------------------------------------------------------------------------
(* Every step keeps the playbacks on the skeleton they suit and the pose   *)
(* on show the one that they ask for.                                      *)
LEMMA FitsStep ==
  ASSUME Fits, PoseIsCurrent, [Next]_vars
  PROVE  Fits' /\ PoseIsCurrent'
<1>1. ASSUME NEW s \in Loaded, Wear(s) PROVE Fits' /\ PoseIsCurrent'
  BY <1>1, WearFits, WearShows
<1>2. ASSUME NEW play \in Asked(Plays), Start(play) PROVE Fits' /\ PoseIsCurrent'
  BY <1>2, StartFits, StartShows DEF Asked
<1>3. ASSUME NEW play \in Asked(Plays), NEW duration \in FadeTimes, Fade(play, duration)
      PROVE  Fits' /\ PoseIsCurrent'
  BY <1>3, FadeKeepsFits, FadeShows DEF Asked
<1>4. ASSUME NEW slot \in 1 .. MaxRuntimeLayers + 1, NEW wanted \in Asked(LayerRoots),
             Put(slot, wanted)
      PROVE  Fits' /\ PoseIsCurrent'
  <2>1. slot \in Nat /\ wanted \in LayerRoots
    BY AnimationConstants DEF Asked
  <2> QED BY <1>4, <2>1, PutFits, PutShows
<1>5. ASSUME NEW slot \in DOMAIN layers, Take(slot) PROVE Fits' /\ PoseIsCurrent'
  BY <1>5, TakeFits, TakeShows
<1>6. ASSUME NEW joint \in RootJoints, Root(joint) PROVE Fits' /\ PoseIsCurrent'
  BY <1>6, RootFits, RootShows
<1>7. ASSUME NEW deltaSeconds \in Steps, Frame(deltaSeconds) PROVE Fits' /\ PoseIsCurrent'
  BY <1>7, FrameKeepsFits
<1>8. CASE UNCHANGED vars
  <2>1. UNCHANGED <<assets, skeleton, base, transition, layers, poses>>
    BY <1>8 DEF vars, runtime, playback
  <2>2. Fits'
    BY <2>1 DEF Fits, FadeFits, LayerFits
  <2> QED BY <2>1, <2>2, ShownStays
<1> QED BY <1>1, <1>2, <1>3, <1>4, <1>5, <1>6, <1>7, <1>8 DEF Next

(* The pose on show is the one that what plays asks for (PoseIsCurrent):   *)
(* crossFade, which rebuilds nothing, may leave the pose as it is because  *)
(* a blend of weight zero is the clip it leaves, and update may settle     *)
(* clocks and replace a finished crossfade after it built the pose because *)
(* neither changes what is sampled.                                        *)
THEOREM PosesAreCurrent == Spec => []PoseIsCurrent
<1>1. Init => Fits /\ PoseIsCurrent
  BY InitFits
<1>2. Fits /\ PoseIsCurrent /\ [Next]_vars => Fits' /\ PoseIsCurrent'
  BY FitsStep
<1> QED BY <1>1, <1>2, PTL DEF Spec

-----------------------------------------------------------------------------
(***************************************************************************)
(* Skinning                                                                *)
(***************************************************************************)
(* A primitive that was skinned from this one: only its positions and      *)
(* normals differ, and not those of vertices without influences.           *)
SkinOf(out, primitive, asset) ==
  IF ~Deforms(primitive, asset) THEN out = primitive
  ELSE /\ out = [skin |-> primitive.skin, positions |-> out.positions, normals |-> out.normals,
                 joints |-> primitive.joints, weights |-> primitive.weights]
       /\ out.positions = [v \in DOMAIN primitive.positions |-> out.positions[v]]
       /\ out.normals = [v \in DOMAIN primitive.normals |-> out.normals[v]]
       /\ \A v : WeightSum(primitive, v, Joints(asset.skeleton)) = 0 =>
            /\ v \in DOMAIN primitive.positions => out.positions[v] = primitive.positions[v]
            /\ v \in DOMAIN primitive.normals => out.normals[v] = primitive.normals[v]

Reskinned(out, source, asset) ==
  out = << >> \/ /\ out = [i \in DOMAIN source |-> out[i]]
                 /\ \A i \in DOMAIN source : SkinOf(out[i], source[i], asset)

LEMMA LengthByDomain ==
  ASSUME NEW f, NEW n \in Nat, f = [v \in 1 .. n |-> f[v]]
  PROVE  Len(f) = n
<1>1. f \in Seq({f[v] : v \in 1 .. n})
  OBVIOUS
<1>2. DOMAIN f = 1 .. n
  OBVIOUS
<1> QED BY <1>1, <1>2

LEMMA SameInfluence ==
  ASSUME NEW out, NEW p, out.joints = p.joints, out.weights = p.weights, NEW v, NEW slots
  PROVE  /\ Influences(out, v, slots) = Influences(p, v, slots)
         /\ WeightSum(out, v, slots) = WeightSum(p, v, slots)
<1>1. Influences(out, v, slots) = Influences(p, v, slots)
  BY DEF Influences
<1>2. [k \in Influences(out, v, slots) |-> out.weights[v][k]]
        = [k \in Influences(p, v, slots) |-> p.weights[v][k]]
  BY <1>1
<1> QED BY <1>1, <1>2 DEF WeightSum

LEMMA SameVertex ==
  ASSUME NEW out, NEW p, out.joints = p.joints, out.weights = p.weights, NEW v, NEW matrices,
         WeightSum(p, v, DOMAIN matrices) = 0 => out.positions[v] = p.positions[v]
  PROVE  SkinnedVertex(out, v, p, matrices) = SkinnedVertex(p, v, p, matrices)
<1>1. PICK slots : slots = DOMAIN matrices
  OBVIOUS
<1>2. /\ Influences(out, v, slots) = Influences(p, v, slots)
      /\ WeightSum(out, v, slots) = WeightSum(p, v, slots)
  BY SameInfluence
<1>3. PICK outParts :
        outParts = [k \in Influences(out, v, slots) |->
                      out.weights[v][k] * TransformPoint(matrices[out.joints[v][k]], p.positions[v])]
  OBVIOUS
<1>4. PICK parts :
        parts = [k \in Influences(p, v, slots) |->
                   p.weights[v][k] * TransformPoint(matrices[p.joints[v][k]], p.positions[v])]
  OBVIOUS
<1>5. outParts = parts
  BY <1>2, <1>3, <1>4
<1>6. SkinnedVertex(out, v, p, matrices)
        = IF WeightSum(out, v, slots) = 0 THEN out.positions[v]
          ELSE SumOf(outParts) \div WeightSum(out, v, slots)
  BY <1>1, <1>3 DEF SkinnedVertex
<1>7. SkinnedVertex(p, v, p, matrices)
        = IF WeightSum(p, v, slots) = 0 THEN p.positions[v]
          ELSE SumOf(parts) \div WeightSum(p, v, slots)
  BY <1>1, <1>4 DEF SkinnedVertex
<1> QED BY <1>1, <1>2, <1>5, <1>6, <1>7

LEMMA SameNormal ==
  ASSUME NEW out, NEW p, out.joints = p.joints, out.weights = p.weights, NEW v, NEW matrices,
         WeightSum(p, v, DOMAIN matrices) = 0 => out.normals[v] = p.normals[v]
  PROVE  SkinnedNormal(out, v, p, matrices) = SkinnedNormal(p, v, p, matrices)
<1>1. PICK slots : slots = DOMAIN matrices
  OBVIOUS
<1>2. /\ Influences(out, v, slots) = Influences(p, v, slots)
      /\ WeightSum(out, v, slots) = WeightSum(p, v, slots)
  BY SameInfluence
<1>3. PICK outParts :
        outParts = [k \in Influences(out, v, slots) |->
                      out.weights[v][k] * TransformDirection(matrices[out.joints[v][k]], p.normals[v])]
  OBVIOUS
<1>4. PICK parts :
        parts = [k \in Influences(p, v, slots) |->
                   p.weights[v][k] * TransformDirection(matrices[p.joints[v][k]], p.normals[v])]
  OBVIOUS
<1>5. outParts = parts
  BY <1>2, <1>3, <1>4
<1>6. SkinnedNormal(out, v, p, matrices)
        = IF WeightSum(out, v, slots) = 0 THEN out.normals[v]
          ELSE IF SumOf(outParts) = 0 THEN p.normals[v]
          ELSE IF SumOf(outParts) > 0 THEN 1 ELSE -1
  BY <1>1, <1>3 DEF SkinnedNormal
<1>7. SkinnedNormal(p, v, p, matrices)
        = IF WeightSum(p, v, slots) = 0 THEN p.normals[v]
          ELSE IF SumOf(parts) = 0 THEN p.normals[v]
          ELSE IF SumOf(parts) > 0 THEN 1 ELSE -1
  BY <1>1, <1>4 DEF SkinnedNormal
<1> QED BY <1>1, <1>2, <1>5, <1>6, <1>7

LEMMA SkinShape ==
  ASSUME NEW s, NEW x, NEW y, NEW j, NEW w,
         NEW out \in [skin : {s}, positions : {x}, normals : {y}, joints : {j}, weights : {w}]
  PROVE  out = [skin |-> s, positions |-> x, normals |-> y, joints |-> j, weights |-> w]
  OBVIOUS

LEMMA FreshSkin ==
  ASSUME NEW p, IsPrimitive(p), NEW asset, NEW matrices, DOMAIN matrices = Joints(asset.skeleton)
  PROVE  /\ Deforms(p, asset) => SkinnedPrimitive(p, p, asset, matrices)
              = [skin |-> p.skin,
                 positions |-> [v \in DOMAIN p.positions |-> SkinnedVertex(p, v, p, matrices)],
                 normals |-> [v \in DOMAIN p.normals |-> SkinnedNormal(p, v, p, matrices)],
                 joints |-> p.joints, weights |-> p.weights]
         /\ SkinOf(SkinnedPrimitive(p, p, asset, matrices), p, asset)
<1>1. CASE ~Deforms(p, asset)
  BY <1>1 DEF SkinOf, SkinnedPrimitive
<1>2. CASE Deforms(p, asset)
  <2>1. PICK positions :
          positions = [v \in DOMAIN p.positions |-> SkinnedVertex(p, v, p, matrices)]
    OBVIOUS
  <2>2. PICK normals :
          normals = [v \in DOMAIN p.normals |-> SkinnedNormal(p, v, p, matrices)]
    OBVIOUS
  <2>3. PICK fresh : fresh = [skin |-> p.skin, positions |-> positions, normals |-> normals,
                              joints |-> p.joints, weights |-> p.weights]
    OBVIOUS
  <2>4. SkinnedPrimitive(p, p, asset, matrices) = fresh
    <3>1. SkinnedPrimitive(p, p, asset, matrices)
            = [p EXCEPT !.positions = positions, !.normals = normals]
      BY <1>2, <2>1, <2>2 DEF SkinnedPrimitive
    <3>2. p = [skin |-> p.skin, positions |-> p.positions, normals |-> p.normals,
               joints |-> p.joints, weights |-> p.weights]
      BY DEF IsPrimitive
    <3>3. [p EXCEPT !.positions = positions, !.normals = normals]
            \in [skin : {p.skin}, positions : {positions}, normals : {normals},
                 joints : {p.joints}, weights : {p.weights}]
      BY <3>2
    <3> QED BY <2>3, <3>1, <3>3, SkinShape
  <2>5. SkinOf(fresh, p, asset)
    <3>1. \A v : WeightSum(p, v, Joints(asset.skeleton)) = 0 =>
            /\ SkinnedVertex(p, v, p, matrices) = p.positions[v]
            /\ SkinnedNormal(p, v, p, matrices) = p.normals[v]
      BY DEF SkinnedVertex, SkinnedNormal
    <3>2. fresh.positions = positions /\ fresh.normals = normals
      BY <2>3
    <3>3. \A v : WeightSum(p, v, Joints(asset.skeleton)) = 0 =>
            /\ v \in DOMAIN p.positions => positions[v] = p.positions[v]
            /\ v \in DOMAIN p.normals => normals[v] = p.normals[v]
      BY <2>1, <2>2, <3>1
    <3>4. /\ positions = [v \in DOMAIN p.positions |-> positions[v]]
          /\ normals = [v \in DOMAIN p.normals |-> normals[v]]
      BY <2>1, <2>2
    <3> QED BY <1>2, <2>3, <3>2, <3>3, <3>4 DEF SkinOf
  <2> QED BY <2>1, <2>2, <2>3, <2>4, <2>5
<1> QED BY <1>1, <1>2

(* Skinning what was skinned before gives what skinning the source gives.  *)
LEMMA PrimitiveDoesNotDrift ==
  ASSUME NEW p, IsPrimitive(p), NEW asset, NEW out, SkinOf(out, p, asset),
         NEW matrices, DOMAIN matrices = Joints(asset.skeleton)
  PROVE  SkinnedPrimitive(out, p, asset, matrices) = SkinnedPrimitive(p, p, asset, matrices)
<1>1. CASE ~Deforms(p, asset)
  BY <1>1 DEF SkinOf, SkinnedPrimitive
<1>2. CASE Deforms(p, asset)
  <2>1. out = [skin |-> p.skin, positions |-> out.positions, normals |-> out.normals,
               joints |-> p.joints, weights |-> p.weights]
    BY <1>2 DEF SkinOf
  <2>2. /\ out.positions = [v \in DOMAIN p.positions |-> out.positions[v]]
        /\ out.normals = [v \in DOMAIN p.normals |-> out.normals[v]]
        /\ \A v : WeightSum(p, v, Joints(asset.skeleton)) = 0 =>
             /\ v \in DOMAIN p.positions => out.positions[v] = p.positions[v]
             /\ v \in DOMAIN p.normals => out.normals[v] = p.normals[v]
    BY <1>2 DEF SkinOf
  <2>3. /\ out.skin = p.skin /\ out.joints = p.joints /\ out.weights = p.weights
        /\ DOMAIN out.positions = DOMAIN p.positions /\ DOMAIN out.normals = DOMAIN p.normals
    BY <2>1, <2>2
  <2>4. Len(out.positions) = Len(p.positions)
    <3>1. Len(p.positions) \in Nat /\ DOMAIN p.positions = 1 .. Len(p.positions)
      BY SequenceFacts DEF IsPrimitive
    <3>2. PICK n, f : n = Len(p.positions) /\ n \in Nat /\ f = out.positions
      BY <3>1
    <3>3. f = [v \in 1 .. n |-> f[v]]
      BY <2>2, <3>1, <3>2
    <3> QED BY <3>2, <3>3, LengthByDomain
  <2>5. Deforms(out, asset)
    BY <1>2, <2>3, <2>4 DEF Deforms
  <2>6. PICK positions :
          positions = [v \in DOMAIN p.positions |-> SkinnedVertex(p, v, p, matrices)]
    OBVIOUS
  <2>7. PICK normals :
          normals = [v \in DOMAIN p.normals |-> SkinnedNormal(p, v, p, matrices)]
    OBVIOUS
  <2>8. [v \in DOMAIN out.positions |-> SkinnedVertex(out, v, p, matrices)] = positions
    <3>1. ASSUME NEW v \in DOMAIN p.positions
          PROVE  SkinnedVertex(out, v, p, matrices) = SkinnedVertex(p, v, p, matrices)
      BY <2>2, <2>3, SameVertex
    <3> QED BY <2>3, <2>6, <3>1
  <2>9. [v \in DOMAIN out.normals |-> SkinnedNormal(out, v, p, matrices)] = normals
    <3>1. ASSUME NEW v \in DOMAIN p.normals
          PROVE  SkinnedNormal(out, v, p, matrices) = SkinnedNormal(p, v, p, matrices)
      BY <2>2, <2>3, SameNormal
    <3> QED BY <2>3, <2>7, <3>1
  <2>10. SkinnedPrimitive(out, p, asset, matrices)
           = [out EXCEPT !.positions = positions, !.normals = normals]
    BY <2>5, <2>8, <2>9 DEF SkinnedPrimitive
  <2>11. [out EXCEPT !.positions = positions, !.normals = normals]
           \in [skin : {p.skin}, positions : {positions}, normals : {normals},
                joints : {p.joints}, weights : {p.weights}]
    <3>1. PICK skin, joints, weights, x, y :
            /\ skin = p.skin /\ joints = p.joints /\ weights = p.weights
            /\ x = out.positions /\ y = out.normals
      OBVIOUS
    <3>2. out = [skin |-> skin, positions |-> x, normals |-> y,
                 joints |-> joints, weights |-> weights]
      BY <2>1, <3>1
    <3>3. [out EXCEPT !.positions = positions, !.normals = normals]
            \in [skin : {skin}, positions : {positions}, normals : {normals},
                 joints : {joints}, weights : {weights}]
      BY <3>2
    <3> QED BY <3>1, <3>3
  <2>12. SkinnedPrimitive(out, p, asset, matrices)
           = [skin |-> p.skin, positions |-> positions, normals |-> normals,
              joints |-> p.joints, weights |-> p.weights]
    BY <2>10, <2>11, SkinShape
  <2> QED BY <1>2, <2>6, <2>7, <2>12, FreshSkin
<1> QED BY <1>1, <1>2

LEMMA MeshDoesNotDrift ==
  ASSUME NEW source, \A i \in DOMAIN source : IsPrimitive(source[i]),
         NEW asset, NEW pose, NEW out, Reskinned(out, source, asset), CanSkin(asset, pose)
  PROVE  /\ SkinnedMesh(source, asset, pose, out) = SkinnedMesh(source, asset, pose, << >>)
         /\ Reskinned(SkinnedMesh(source, asset, pose, out), source, asset)
<1>1. PICK matrices : matrices = SkinMatrices(asset, pose)
  OBVIOUS
<1>2. DOMAIN matrices = Joints(asset.skeleton)
  BY <1>1 DEF SkinMatrices, CanSkin, Joints
<1>3. PICK fresh :
        fresh = [i \in DOMAIN source |-> SkinnedPrimitive(source[i], source[i], asset, matrices)]
  OBVIOUS
<1>4. \A i \in DOMAIN source : SkinOf(fresh[i], source[i], asset)
  BY <1>2, <1>3, FreshSkin
<1>5. ASSUME NEW old, Reskinned(old, source, asset)
      PROVE  SkinnedMesh(source, asset, pose, old) = fresh
  <2>1. CASE ~SameSizes(old, source)
    BY <1>1, <1>3, <2>1 DEF SkinnedMesh
  <2>2. CASE SameSizes(old, source)
    <3>1. DOMAIN old = DOMAIN source
      BY <2>2 DEF SameSizes
    <3>2. ASSUME NEW i \in DOMAIN source
          PROVE  SkinnedPrimitive(old[i], source[i], asset, matrices) = fresh[i]
      <4>1. SkinOf(old[i], source[i], asset)
        BY <1>5, <3>1 DEF Reskinned
      <4> QED BY <1>2, <1>3, <4>1, PrimitiveDoesNotDrift
    <3>3. SkinnedMesh(source, asset, pose, old)
            = [i \in DOMAIN old |-> SkinnedPrimitive(old[i], source[i], asset, matrices)]
      BY <1>1, <2>2 DEF SkinnedMesh
    <3> QED BY <1>3, <3>1, <3>2, <3>3
  <2> QED BY <2>1, <2>2
<1>6. Reskinned(<< >>, source, asset)
  BY DEF Reskinned
<1>7. Reskinned(fresh, source, asset)
  BY <1>3, <1>4 DEF Reskinned
<1> QED BY <1>5, <1>6, <1>7

(* The character that is set has a mesh, and there is none before.         *)
MeshFits ==
  /\ scene \notin Loadable => scene = 0 /\ DOMAIN layers = {}
  /\ assets = BuiltAssets
  /\ Reskinned(mesh, Meshes[scene], assets[scene])

(* What is written into the mesh is what would be written into a new one.  *)
Undrifted ==
  mesh' \notin {mesh, << >>} =>
    mesh' = SkinnedMesh(Meshes[scene], assets[scene], globalPose', << >>)

LEMMA SkinKeeps ==
  ASSUME MeshFits, scene \in Loadable, Skin, UNCHANGED <<assets, scene>>
  PROVE  MeshFits' /\ Undrifted
<1>1. \A i \in DOMAIN Meshes[scene] : IsPrimitive(Meshes[scene][i])
  BY GameAssumption DEF Loadable
<1>2. PICK source, asset, pose, old :
        /\ source = Meshes[scene] /\ asset = assets[scene]
        /\ pose = globalPose' /\ old = mesh
  OBVIOUS
<1>3. Reskinned(old, source, asset) /\ mesh' = SkinnedMesh(source, asset, pose, old)
  BY <1>2 DEF MeshFits, Skin
<1>4. CASE ~CanSkin(asset, pose)
  <2>1. mesh' = mesh
    BY <1>2, <1>3, <1>4 DEF SkinnedMesh
  <2> QED BY <2>1 DEF MeshFits, Undrifted
<1>5. CASE CanSkin(asset, pose)
  <2>1. /\ SkinnedMesh(source, asset, pose, old) = SkinnedMesh(source, asset, pose, << >>)
        /\ Reskinned(SkinnedMesh(source, asset, pose, old), source, asset)
    BY <1>1, <1>2, <1>3, <1>5, MeshDoesNotDrift
  <2> QED BY <1>2, <1>3, <2>1 DEF MeshFits, Undrifted
<1> QED BY <1>4, <1>5

LEMMA UnskinnedKeeps ==
  ASSUME MeshFits, UNCHANGED <<assets, scene, mesh>>, DOMAIN layers = {} => DOMAIN layers' = {}
  PROVE  MeshFits' /\ Undrifted
  BY DEF MeshFits, Undrifted

(* Whatever was in the output before, skinning leaves in it what skinning  *)
(* the source mesh gives (SkinningDoesNotDrift): vertices and primitives   *)
(* that skinGltfMesh skips were never moved, the rest is computed afresh.  *)
THEOREM SkinningStartsAfresh == Spec => SkinningDoesNotDrift
<1>1. Init => MeshFits
  <2> SUFFICES ASSUME Init PROVE MeshFits
    OBVIOUS
  <2>1. scene = 0 /\ DOMAIN layers = {} /\ mesh = << >> /\ assets = BuiltAssets
    BY DEF Init, RuntimeInit
  <2> QED BY <2>1 DEF MeshFits, Reskinned
<1>2. MeshFits /\ [Next]_vars => MeshFits' /\ [Undrifted]_vars
  <2> SUFFICES ASSUME MeshFits, [Next]_vars PROVE MeshFits' /\ Undrifted
    OBVIOUS
  <2>1. ASSUME NEW s \in Loaded, Wear(s) PROVE MeshFits' /\ Undrifted
    <3>1. scene' = s /\ mesh' = << >> /\ assets' = assets
      BY <2>1 DEF Wear
    <3>2. s \in Loadable
      BY DEF MeshFits, Loaded, Loadable
    <3> QED BY <3>1, <3>2 DEF MeshFits, Undrifted, Reskinned
  <2>2. ASSUME NEW play \in Asked(Plays), Start(play) PROVE MeshFits' /\ Undrifted
    <3>1. scene \in Loadable
      BY GameAssumption DEF Asked
    <3>2. UNCHANGED layers
      BY <2>2 DEF Start, Play, Refuse, playback
    <3> QED BY <2>2, <3>1, <3>2, SkinKeeps DEF Start
  <2>3. ASSUME NEW play \in Asked(Plays), NEW duration \in FadeTimes, Fade(play, duration)
        PROVE  MeshFits' /\ Undrifted
    <3>1. UNCHANGED layers
      BY <2>3 DEF Fade, CrossFade, Refuse, playback
    <3> QED BY <2>3, <3>1, UnskinnedKeeps DEF Fade
  <2>4. ASSUME NEW slot \in 1 .. MaxRuntimeLayers + 1, NEW wanted \in Asked(LayerRoots),
               Put(slot, wanted)
        PROVE  MeshFits' /\ Undrifted
    <3>1. scene \in Loadable
      BY GameAssumption DEF Asked
    <3> QED BY <2>4, <3>1, SkinKeeps DEF Put
  <2>5. ASSUME NEW slot \in DOMAIN layers, Take(slot) PROVE MeshFits' /\ Undrifted
    <3>1. scene \in Loadable
      BY DEF MeshFits
    <3> QED BY <2>5, <3>1, SkinKeeps DEF Take
  <2>6. ASSUME NEW joint \in RootJoints, Root(joint) PROVE MeshFits' /\ Undrifted
    <3>1. UNCHANGED layers
      BY <2>6 DEF Root, SetRootMotionJoint, Refuse, playback
    <3> QED BY <2>6, <3>1, UnskinnedKeeps DEF Root
  <2>7. ASSUME scene # 0, NEW deltaSeconds \in Steps, Frame(deltaSeconds)
        PROVE  MeshFits' /\ Undrifted
    <3>1. scene \in Loadable
      BY <2>7 DEF MeshFits
    <3> QED BY <2>7, <3>1, SkinKeeps DEF Frame
  <2>8. CASE UNCHANGED vars
    <3>1. UNCHANGED <<assets, scene, mesh, layers>>
      BY <2>8 DEF vars, runtime, playback
    <3> QED BY <3>1, UnskinnedKeeps
  <2> QED BY <2>1, <2>2, <2>3, <2>4, <2>5, <2>6, <2>7, <2>8 DEF Next
<1>3. Spec => [][Undrifted]_vars
  BY <1>1, <1>2, PTL DEF Spec
<1> QED BY <1>3, PTL DEF SkinningDoesNotDrift, Undrifted

-----------------------------------------------------------------------------
(***************************************************************************)
(* Motions on the axis form a group                                        *)
(***************************************************************************)
Motion == [translation : Int, rotation : {-1, 1}]

LEMMA MotionShape ==
  ASSUME NEW m \in Motion
  PROVE  \E x \in Int, r \in {-1, 1} : m = [translation |-> x, rotation |-> r]
  BY DEF Motion

LEMMA StillFacts ==
  /\ Still \in Motion
  /\ \A m \in Motion : Compose(Still, m) = m /\ Compose(m, Still) = m
<1>1. Still \in Motion
  BY DEF Still, Motion
<1>2. ASSUME NEW m \in Motion PROVE Compose(Still, m) = m /\ Compose(m, Still) = m
  <2>1. PICK x \in Int, r \in {-1, 1} : m = [translation |-> x, rotation |-> r]
    BY MotionShape
  <2>2. 0 + 1 * x = x /\ 1 * r = r /\ x + r * 0 = x /\ r * 1 = r
    OBVIOUS
  <2> QED BY <2>1, <2>2 DEF Compose, Still
<1> QED BY <1>1, <1>2

LEMMA ComposeType ==
  ASSUME NEW m \in Motion, NEW n \in Motion
  PROVE  Compose(m, n) \in Motion
<1>1. PICK x \in Int, r \in {-1, 1} : m = [translation |-> x, rotation |-> r]
  BY MotionShape
<1>2. PICK y \in Int, s \in {-1, 1} : n = [translation |-> y, rotation |-> s]
  BY MotionShape
<1>3. x + r * y \in Int /\ r * s \in {-1, 1}
  OBVIOUS
<1> QED BY <1>1, <1>2, <1>3 DEF Compose, Motion

LEMMA ComposeAssociates ==
  ASSUME NEW m \in Motion, NEW n \in Motion, NEW o \in Motion
  PROVE  Compose(Compose(m, n), o) = Compose(m, Compose(n, o))
<1>1. PICK x \in Int, r \in {-1, 1} : m = [translation |-> x, rotation |-> r]
  BY MotionShape
<1>2. PICK y \in Int, s \in {-1, 1} : n = [translation |-> y, rotation |-> s]
  BY MotionShape
<1>3. PICK z \in Int, t \in {-1, 1} : o = [translation |-> z, rotation |-> t]
  BY MotionShape
<1>4. (x + r * y) + (r * s) * z = x + r * (y + s * z) /\ (r * s) * t = r * (s * t)
  OBVIOUS
<1> QED BY <1>1, <1>2, <1>3, <1>4 DEF Compose

LEMMA RevertedFacts ==
  ASSUME NEW m \in Motion
  PROVE  /\ Reverted(m) \in Motion
         /\ Compose(Reverted(m), m) = Still
         /\ Compose(m, Reverted(m)) = Still
<1>1. PICK x \in Int, r \in {-1, 1} : m = [translation |-> x, rotation |-> r]
  BY MotionShape
<1>2. /\ r * (- x) \in Int /\ r * (- x) + r * x = 0 /\ r * r = 1
      /\ x + r * (r * (- x)) = 0
  OBVIOUS
<1> QED BY <1>1, <1>2 DEF Reverted, Compose, Still, Motion

LEMMA RelativeFacts ==
  ASSUME NEW m \in Motion, NEW n \in Motion, NEW o \in Motion
  PROVE  /\ Relative(m, n) \in Motion
         /\ Relative(m, m) = Still
         /\ Compose(Relative(m, n), Relative(n, o)) = Relative(m, o)
         /\ Relative(Compose(o, m), Compose(o, n)) = Relative(m, n)
<1>1. Reverted(m) \in Motion /\ Reverted(n) \in Motion
  BY RevertedFacts
<1>2. Relative(m, n) \in Motion /\ Relative(m, m) = Still
  BY <1>1, ComposeType, RevertedFacts DEF Relative
<1>3. Compose(Relative(m, n), Relative(n, o)) = Relative(m, o)
  <2>1. Compose(Relative(m, n), Relative(n, o))
          = Compose(Reverted(m), Compose(n, Compose(Reverted(n), o)))
    <3>1. Compose(Reverted(n), o) \in Motion
      BY <1>1, ComposeType
    <3> QED BY <1>1, <3>1, ComposeAssociates DEF Relative
  <2>2. Compose(n, Compose(Reverted(n), o)) = o
    <3>1. Compose(n, Compose(Reverted(n), o)) = Compose(Compose(n, Reverted(n)), o)
      BY <1>1, ComposeAssociates
    <3> QED BY <3>1, RevertedFacts, StillFacts
  <2> QED BY <2>1, <2>2 DEF Relative
<1>4. Relative(Compose(o, m), Compose(o, n)) = Relative(m, n)
  <2>1. PICK x \in Int, r \in {-1, 1} : m = [translation |-> x, rotation |-> r]
    BY MotionShape
  <2>2. PICK y \in Int, s \in {-1, 1} : n = [translation |-> y, rotation |-> s]
    BY MotionShape
  <2>3. PICK z \in Int, t \in {-1, 1} : o = [translation |-> z, rotation |-> t]
    BY MotionShape
  <2>4. /\ (t * r) * (- (z + t * x)) + (t * r) * (z + t * y) = r * (- x) + r * y
        /\ (t * r) * (t * s) = r * s
    OBVIOUS
  <2> QED BY <2>1, <2>2, <2>3, <2>4 DEF Relative, Compose, Reverted
<1> QED BY <1>2, <1>3, <1>4

(* A motion so many times over, forwards or back.                          *)
Times(m, n) ==
  IF m.rotation = 1 THEN [translation |-> n * m.translation, rotation |-> 1]
  ELSE IF n % 2 = 0 THEN Still ELSE m

LEMMA TimesFacts ==
  ASSUME NEW m \in Motion, NEW n \in Int
  PROVE  /\ Times(m, n) \in Motion
         /\ Times(m, 0) = Still
         /\ Times(m, 1) = m
         /\ Times(Reverted(m), - n) = Times(m, n)
<1>1. PICK x \in Int, r \in {-1, 1} : m = [translation |-> x, rotation |-> r]
  BY MotionShape
<1>2. /\ n * x \in Int /\ 0 * x = 0 /\ 1 * x = x /\ (- n) * (r * (- x)) = n * (r * x)
      /\ 0 % 2 = 0 /\ 1 % 2 = 1
  BY <1>1
<1>3. (- n) % 2 = 0 <=> n % 2 = 0
  OBVIOUS
<1>4. CASE r = 1
  <2>1. Reverted(m) = [translation |-> 1 * (- x), rotation |-> 1]
    BY <1>1, <1>4 DEF Reverted
  <2>2. (- n) * (1 * (- x)) = n * x
    OBVIOUS
  <2> QED BY <1>1, <1>2, <1>4, <2>1, <2>2 DEF Times, Still, Motion
<1>5. CASE r = -1
  <2>1. Reverted(m) = m
    BY <1>1, <1>5 DEF Reverted
  <2> QED BY <1>1, <1>2, <1>3, <1>5, <2>1, StillFacts DEF Times
<1> QED BY <1>4, <1>5

LEMMA TimesAdd ==
  ASSUME NEW m \in Motion, NEW a \in Int, NEW b \in Int
  PROVE  Compose(Times(m, a), Times(m, b)) = Times(m, a + b)
<1>1. PICK x \in Int, r \in {-1, 1} : m = [translation |-> x, rotation |-> r]
  BY MotionShape
<1>2. CASE r = 1
  <2>1. a * x + 1 * (b * x) = (a + b) * x /\ 1 * 1 = 1
    OBVIOUS
  <2> QED BY <1>1, <1>2, <2>1 DEF Times, Compose
<1>3. CASE r = -1
  <2>1. Compose(m, m) = Still
    BY <1>1, <1>3 DEF Compose, Still
  <2>2. m.rotation # 1
    BY <1>1, <1>3
  <2>3. CASE a % 2 = 0 /\ b % 2 = 0
    <3>1. (a + b) % 2 = 0
      BY <2>3
    <3> QED BY <2>2, <2>3, <3>1, StillFacts DEF Times
  <2>4. CASE a % 2 = 0 /\ b % 2 # 0
    <3>1. (a + b) % 2 # 0
      BY <2>4
    <3> QED BY <2>2, <2>4, <3>1, StillFacts DEF Times
  <2>5. CASE a % 2 # 0 /\ b % 2 = 0
    <3>1. (a + b) % 2 # 0
      BY <2>5
    <3> QED BY <2>2, <2>5, <3>1, StillFacts DEF Times
  <2>6. CASE a % 2 # 0 /\ b % 2 # 0
    <3>1. (a + b) % 2 = 0
      BY <2>6
    <3> QED BY <2>1, <2>2, <2>6, <3>1 DEF Times
  <2> QED BY <2>3, <2>4, <2>5, <2>6
<1> QED BY <1>2, <1>3

(* Repeated squaring computes it.                                          *)
Squaring(f, forward) ==
  [n \in Nat |->
     IF n = 0 THEN Still
     ELSE LET half == f[n \div 2] IN
          IF n % 2 = 1 THEN Compose(Compose(half, half), forward)
          ELSE Compose(half, half)]

LEMMA SquaringStep ==
  ASSUME NEW forward \in Motion, NEW n \in Nat, n # 0
  PROVE  LET half == Times(forward, n \div 2) IN
         /\ n \div 2 \in Nat /\ n \div 2 < n
         /\ n % 2 = 1 => Compose(Compose(half, half), forward) = Times(forward, n)
         /\ n % 2 # 1 => Compose(half, half) = Times(forward, n)
<1>1. PICK h \in Nat : h = n \div 2 /\ h < n /\ (n % 2 = 1 => n = (h + h) + 1)
                       /\ (n % 2 # 1 => n = h + h)
  OBVIOUS
<1>2. Compose(Times(forward, h), Times(forward, h)) = Times(forward, h + h)
  BY TimesAdd
<1>3. Compose(Times(forward, h + h), forward) = Times(forward, (h + h) + 1)
  <2>1. Compose(Times(forward, h + h), Times(forward, 1)) = Times(forward, (h + h) + 1)
    BY TimesAdd
  <2> QED BY <2>1, TimesFacts
<1> QED BY <1>1, <1>2, <1>3

LEMMA PowerIsTimes ==
  ASSUME NEW motion \in Motion, NEW exponent \in Int
  PROVE  Power(motion, exponent) = Times(motion, exponent)
<1>1. PICK forward : forward = IF exponent < 0 THEN Reverted(motion) ELSE motion
  OBVIOUS
<1>2. forward \in Motion
  BY <1>1, RevertedFacts
<1>3. PICK power : power = [n \in Nat |-> Times(forward, n)]
  OBVIOUS
<1>4. \A n \in Nat : power[n] = Times(forward, n)
  BY <1>3
<1>5. ASSUME NEW n \in Nat
      PROVE  power[n] = Squaring(power, forward)[n]
  <2>1. CASE n = 0
    BY <1>2, <1>4, <2>1, TimesFacts DEF Squaring
  <2>2. CASE n # 0
    <3>1. PICK h \in Nat : h = n \div 2
      OBVIOUS
    <3>2. power[h] = Times(forward, h) /\ power[n] = Times(forward, n)
      BY <1>4
    <3>3. Squaring(power, forward)[n]
            = IF n % 2 = 1 THEN Compose(Compose(power[h], power[h]), forward)
              ELSE Compose(power[h], power[h])
      BY <2>2, <3>1 DEF Squaring
    <3>4. /\ n % 2 = 1 => Compose(Compose(Times(forward, h), Times(forward, h)), forward)
                            = Times(forward, n)
          /\ n % 2 # 1 => Compose(Times(forward, h), Times(forward, h)) = Times(forward, n)
      BY <1>2, <2>2, <3>1, SquaringStep
    <3> QED BY <3>2, <3>3, <3>4
  <2> QED BY <2>1, <2>2
<1>6. power = Squaring(power, forward)
  BY <1>3, <1>5 DEF Squaring
<1>7. ASSUME NEW f, f = Squaring(f, forward), NEW n \in Nat
      PROVE  f[n] = Times(forward, n)
  <2> DEFINE T == {k \in Nat : f[k] # Times(forward, k)}
  <2>1. SUFFICES ASSUME T # {} PROVE FALSE
    OBVIOUS
  <2>2. PICK k \in T : \A j \in T : k <= j
    <3>1. T \subseteq Nat
      OBVIOUS
    <3> HIDE DEF T
    <3> QED BY <2>1, <3>1, LeastNumber
  <2>3. k \in Nat /\ f[k] # Times(forward, k)
    OBVIOUS
  <2>4. k # 0
    <3>1. f[0] = Still
      BY <1>7 DEF Squaring
    <3> QED BY <1>2, <2>3, <3>1, TimesFacts
  <2>5. PICK h \in Nat : h = k \div 2 /\ h < k
    BY <2>3, <2>4
  <2>6. f[h] = Times(forward, h)
    BY <2>2, <2>5
  <2>7. f[k] = IF k % 2 = 1 THEN Compose(Compose(f[h], f[h]), forward)
               ELSE Compose(f[h], f[h])
    BY <1>7, <2>3, <2>4, <2>5 DEF Squaring
  <2>8. /\ k % 2 = 1 => Compose(Compose(Times(forward, h), Times(forward, h)), forward)
                          = Times(forward, k)
        /\ k % 2 # 1 => Compose(Times(forward, h), Times(forward, h)) = Times(forward, k)
    BY <1>2, <2>3, <2>4, <2>5, SquaringStep
  <2> QED BY <2>3, <2>6, <2>7, <2>8
<1>8. PICK count \in Nat : count = IF exponent < 0 THEN - exponent ELSE exponent
  OBVIOUS
<1>9. Power(motion, exponent) = (CHOOSE f : f = Squaring(f, forward))[count]
  BY <1>1, <1>8 DEF Power, Squaring
<1>10. PICK f : f = CHOOSE g : g = Squaring(g, forward)
  OBVIOUS
<1>11. f = Squaring(f, forward)
  BY <1>6, <1>10
<1>12. f[count] = Times(forward, count)
  BY <1>7, <1>11
<1>13. Times(forward, count) = Times(motion, exponent)
  <2>1. Times(Reverted(motion), - exponent) = Times(motion, exponent)
    BY TimesFacts
  <2> QED BY <1>1, <1>8, <2>1
<1> QED BY <1>9, <1>10, <1>12, <1>13

(***************************************************************************)
(* The way of the root                                                     *)
(***************************************************************************)
LEMMA RootAtType ==
  ASSUME NEW clip, NEW body, Suits(clip, body), NEW root \in Joints(body), NEW time \in Int
  PROVE  RootAt(body, clip, root, time) \in Motion
<1>1. PICK at : at = SampleJoint(clip, body.joints[root].bindLocal, root, time)
  OBVIOUS
<1>2. at.translation \in Int /\ at.rotation \in {-1, 1}
  BY <1>1, JointType DEF Transform
<1> QED BY <1>1, <1>2 DEF RootAt, Normalized, Motion

Cycle(body, clip, root) ==
  Relative(RootAt(body, clip, root, 0), RootAt(body, clip, root, clip.duration))

Within(body, clip, root, time) ==
  Relative(RootAt(body, clip, root, 0), RootAt(body, clip, root, time))

LEMMA WayTypes ==
  ASSUME NEW clip, NEW body, Suits(clip, body), NEW root \in Joints(body)
  PROVE  /\ clip.duration \in Nat /\ clip.duration > 0
         /\ Cycle(body, clip, root) \in Motion
         /\ \A time \in Int : Within(body, clip, root, time) \in Motion
<1>1. clip.duration \in Int /\ clip.duration > 0
  BY ClipFacts
<1>2. \A time \in Int : RootAt(body, clip, root, time) \in Motion
  BY RootAtType
<1> QED BY <1>1, <1>2, RelativeFacts DEF Cycle, Within

(* A time is some whole turns and a rest.                                  *)
Turned(d, time, cycles, phase) == time = phase + cycles * d /\ 0 <= phase /\ phase < d

LEMMA Phase ==
  ASSUME NEW d \in Nat, d > 0, NEW time \in Int
  PROVE  \E cycles \in Int, phase \in Int :
           time = phase + cycles * d /\ 0 <= phase /\ phase < d /\ phase = time % d
<1>1. PICK q \in Int, r \in Int : q = time \div d /\ r = time % d
  OBVIOUS
<1>2. time = d * q + r /\ 0 <= r /\ r < d
  BY <1>1
<1>3. time = r + q * d
  BY <1>2
<1> QED BY <1>1, <1>2, <1>3

LEMMA Quotient ==
  ASSUME NEW d \in Nat, d > 0, NEW cycles \in Int, NEW phase \in Int, 0 <= phase, phase < d
  PROVE  (phase + cycles * d) \div d = cycles
<1>1. PICK time \in Int : time = phase + cycles * d
  OBVIOUS
<1>2. PICK q \in Int : q = time \div d
  BY <1>1
<1>3. d * q <= time /\ time < d * q + d
  BY <1>1, <1>2
<1>4. d * q < d * cycles + d /\ d * cycles < d * q + d
  BY <1>1, <1>3
<1>5. d * (q - cycles) < d * 1 /\ d * (cycles - q) < d * 1
  BY <1>4
<1>6. \A k \in Int : d * k < d * 1 => k < 1
  OBVIOUS
<1>7. q - cycles < 1 /\ cycles - q < 1
  BY <1>5, <1>6
<1> QED BY <1>1, <1>2, <1>7

LEMMA ExtendedIsTimes ==
  ASSUME NEW clip, NEW body, Suits(clip, body), NEW root \in Joints(body), NEW time \in Int,
         NEW cycles \in Int, NEW phase \in Int,
         Turned(clip.duration, time, cycles, phase)
  PROVE  /\ ExtendedMotion(body, clip, root, time)
              = Compose(Times(Cycle(body, clip, root), cycles), Within(body, clip, root, phase))
         /\ ExtendedMotion(body, clip, root, time) \in Motion
<1>1. PICK d \in Nat : d = clip.duration /\ d > 0
  BY WayTypes
<1>2. time = phase + cycles * d /\ 0 <= phase /\ phase < d
  BY <1>1 DEF Turned
<1>3. time \div d = cycles /\ time - cycles * d = phase
  <2>1. (phase + cycles * d) \div d = cycles
    BY <1>1, <1>2, Quotient
  <2>2. time - cycles * d = phase
    BY <1>1, <1>2
  <2> QED BY <1>2, <2>1, <2>2
<1>4. /\ Cycle(body, clip, root) \in Motion /\ Within(body, clip, root, phase) \in Motion
      /\ Times(Cycle(body, clip, root), cycles) \in Motion
  BY WayTypes, TimesFacts
<1>5. ExtendedMotion(body, clip, root, time)
        = Compose(Power(Cycle(body, clip, root), cycles), Within(body, clip, root, phase))
  BY <1>1, <1>3 DEF ExtendedMotion, Cycle, Within
<1>6. Power(Cycle(body, clip, root), cycles) = Times(Cycle(body, clip, root), cycles)
  BY <1>4, PowerIsTimes
<1> QED BY <1>4, <1>5, <1>6, ComposeType

(* Whole turns more are whole turns in front.                              *)
LEMMA ExtendedShifts ==
  ASSUME NEW clip, NEW body, Suits(clip, body), NEW root \in Joints(body),
         NEW time \in Int, NEW turns \in Int
  PROVE  /\ ExtendedMotion(body, clip, root, time) \in Motion
         /\ ExtendedMotion(body, clip, root, time + turns * clip.duration)
              = Compose(Times(Cycle(body, clip, root), turns),
                        ExtendedMotion(body, clip, root, time))
<1>1. PICK d \in Nat : d = clip.duration /\ d > 0
  BY WayTypes
<1>2. PICK cycles \in Int, phase \in Int :
        time = phase + cycles * d /\ 0 <= phase /\ phase < d
  BY <1>1, Phase
<1>3. PICK later \in Int : later = time + turns * d
  OBVIOUS
<1>4. later = phase + (turns + cycles) * d
  BY <1>2, <1>3
<1>5. PICK cycle, within : cycle = Cycle(body, clip, root)
                           /\ within = Within(body, clip, root, phase)
  OBVIOUS
<1>6. /\ cycle \in Motion /\ within \in Motion
      /\ Times(cycle, turns) \in Motion /\ Times(cycle, cycles) \in Motion
  BY <1>5, WayTypes, TimesFacts
<1>7. /\ ExtendedMotion(body, clip, root, time) = Compose(Times(cycle, cycles), within)
      /\ ExtendedMotion(body, clip, root, time) \in Motion
  <2>1. Turned(clip.duration, time, cycles, phase)
    BY <1>1, <1>2 DEF Turned
  <2>2. /\ ExtendedMotion(body, clip, root, time)
             = Compose(Times(Cycle(body, clip, root), cycles), Within(body, clip, root, phase))
        /\ ExtendedMotion(body, clip, root, time) \in Motion
    BY <2>1, ExtendedIsTimes
  <2> QED BY <1>5, <2>2
<1>8. ExtendedMotion(body, clip, root, later)
        = Compose(Times(cycle, turns + cycles), within)
  <2>1. PICK all \in Int : all = turns + cycles
    OBVIOUS
  <2>2. Turned(clip.duration, later, all, phase)
    BY <1>1, <1>2, <1>4, <2>1 DEF Turned
  <2>3. ExtendedMotion(body, clip, root, later)
          = Compose(Times(Cycle(body, clip, root), all), Within(body, clip, root, phase))
    BY <2>2, ExtendedIsTimes
  <2> QED BY <1>5, <2>1, <2>3
<1>9. Compose(Times(cycle, turns), Compose(Times(cycle, cycles), within))
        = Compose(Times(cycle, turns + cycles), within)
  <2>1. Compose(Compose(Times(cycle, turns), Times(cycle, cycles)), within)
          = Compose(Times(cycle, turns), Compose(Times(cycle, cycles), within))
    BY <1>6, ComposeAssociates
  <2>2. Compose(Times(cycle, turns), Times(cycle, cycles)) = Times(cycle, turns + cycles)
    BY <1>6, TimesAdd
  <2> QED BY <2>1, <2>2
<1> QED BY <1>1, <1>3, <1>5, <1>7, <1>8, <1>9

(* A way counted turn by turn is the way counted in closed form.           *)
Walking(f, body, clip, root) ==
  [t \in Int |->
     IF t < 0 THEN Compose(Reverted(Cycle(body, clip, root)), f[t + clip.duration])
     ELSE IF t >= clip.duration THEN Compose(Cycle(body, clip, root), f[t - clip.duration])
     ELSE Within(body, clip, root, t)]

LEMMA WalkingStep ==
  ASSUME NEW clip, NEW body, Suits(clip, body), NEW root \in Joints(body), NEW t \in Int
  PROVE  LET way(time) == ExtendedMotion(body, clip, root, time) IN
         /\ Compose(Reverted(Cycle(body, clip, root)), way(t + clip.duration)) = way(t)
         /\ Compose(Cycle(body, clip, root), way(t - clip.duration)) = way(t)
         /\ 0 <= t /\ t < clip.duration => Within(body, clip, root, t) = way(t)
<1>1. PICK d \in Nat : d = clip.duration /\ d > 0
  BY WayTypes
<1>2. PICK cycle : cycle = Cycle(body, clip, root)
  OBVIOUS
<1>3. cycle \in Motion /\ Times(cycle, 1) = cycle
  BY <1>2, WayTypes, TimesFacts
<1>4. ASSUME NEW u \in Int
      PROVE  /\ ExtendedMotion(body, clip, root, u) \in Motion
             /\ ExtendedMotion(body, clip, root, u + d)
                  = Compose(cycle, ExtendedMotion(body, clip, root, u))
  <2>1. /\ ExtendedMotion(body, clip, root, u) \in Motion
        /\ ExtendedMotion(body, clip, root, u + 1 * clip.duration)
             = Compose(Times(cycle, 1), ExtendedMotion(body, clip, root, u))
    <3>1. PICK one \in Int : one = 1
      OBVIOUS
    <3>2. /\ ExtendedMotion(body, clip, root, u) \in Motion
          /\ ExtendedMotion(body, clip, root, u + one * clip.duration)
               = Compose(Times(Cycle(body, clip, root), one),
                         ExtendedMotion(body, clip, root, u))
      BY ExtendedShifts
    <3> QED BY <1>2, <3>1, <3>2
  <2>2. u + 1 * clip.duration = u + d
    BY <1>1
  <2> QED BY <1>3, <2>1, <2>2
<1>5. Compose(Reverted(cycle), ExtendedMotion(body, clip, root, t + d))
        = ExtendedMotion(body, clip, root, t)
  <2>1. PICK way \in Motion : way = ExtendedMotion(body, clip, root, t)
    BY <1>4
  <2>2. ExtendedMotion(body, clip, root, t + d) = Compose(cycle, way)
    BY <1>4, <2>1
  <2>3. Compose(Reverted(cycle), Compose(cycle, way)) = way
    <3>1. Compose(Compose(Reverted(cycle), cycle), way)
            = Compose(Reverted(cycle), Compose(cycle, way))
      BY <1>3, RevertedFacts, ComposeAssociates
    <3> QED BY <1>3, <3>1, RevertedFacts, StillFacts
  <2> QED BY <2>1, <2>2, <2>3
<1>6. Compose(cycle, ExtendedMotion(body, clip, root, t - d))
        = ExtendedMotion(body, clip, root, t)
  <2>1. PICK u \in Int : u = t - d
    OBVIOUS
  <2>2. t = u + d
    BY <2>1
  <2> QED BY <1>4, <2>1, <2>2
<1>7. ASSUME 0 <= t, t < clip.duration
      PROVE  Within(body, clip, root, t) = ExtendedMotion(body, clip, root, t)
  <2>1. Turned(clip.duration, t, 0, t)
    BY <1>1, <1>7 DEF Turned
  <2>2. ExtendedMotion(body, clip, root, t)
          = Compose(Times(cycle, 0), Within(body, clip, root, t))
    BY <1>2, <1>7, <2>1, ExtendedIsTimes
  <2>3. Times(cycle, 0) = Still /\ Within(body, clip, root, t) \in Motion
    BY <1>3, TimesFacts, WayTypes
  <2> QED BY <2>2, <2>3, StillFacts
<1> QED BY <1>1, <1>2, <1>5, <1>6, <1>7

LEMMA PathIsExtended ==
  ASSUME NEW clip, NEW body, Suits(clip, body), NEW root \in Joints(body), NEW time \in Int
  PROVE  PathAt(body, clip, root, time) = ExtendedMotion(body, clip, root, time)
<1> DEFINE way(t) == ExtendedMotion(body, clip, root, t)
<1>1. PICK d \in Nat : d = clip.duration /\ d > 0
  BY WayTypes
<1>2. PICK path : path = [t \in Int |-> way(t)]
  OBVIOUS
<1>3. ASSUME NEW t \in Int
      PROVE  path[t] = Walking(path, body, clip, root)[t]
  <2>1. t + d \in Int /\ t - d \in Int
    OBVIOUS
  <2>2. path[t] = way(t) /\ path[t + d] = way(t + d) /\ path[t - d] = way(t - d)
    BY <1>2, <2>1
  <2>3. Walking(path, body, clip, root)[t]
          = IF t < 0 THEN Compose(Reverted(Cycle(body, clip, root)), path[t + d])
            ELSE IF t >= d THEN Compose(Cycle(body, clip, root), path[t - d])
            ELSE Within(body, clip, root, t)
    BY <1>1 DEF Walking
  <2>4. /\ Compose(Reverted(Cycle(body, clip, root)), way(t + d)) = way(t)
        /\ Compose(Cycle(body, clip, root), way(t - d)) = way(t)
        /\ 0 <= t /\ t < d => Within(body, clip, root, t) = way(t)
    BY <1>1, WalkingStep
  <2> HIDE DEF way
  <2> QED BY <2>2, <2>3, <2>4
<1>4. path = Walking(path, body, clip, root)
  BY <1>2, <1>3 DEF Walking
<1>5. ASSUME NEW f, f = Walking(f, body, clip, root)
      PROVE  \A t \in Int : f[t] = way(t)
  <2>1. ASSUME NEW t \in Int
        PROVE  f[t] = IF t < 0 THEN Compose(Reverted(Cycle(body, clip, root)), f[t + d])
                      ELSE IF t >= d THEN Compose(Cycle(body, clip, root), f[t - d])
                      ELSE Within(body, clip, root, t)
    BY <1>1, <1>5 DEF Walking
  <2>2. ASSUME NEW t \in Int
        PROVE  /\ Compose(Reverted(Cycle(body, clip, root)), way(t + d)) = way(t)
               /\ Compose(Cycle(body, clip, root), way(t - d)) = way(t)
               /\ 0 <= t /\ t < d => Within(body, clip, root, t) = way(t)
    BY <1>1, WalkingStep
  <2> HIDE DEF way
  <2>3. \A t \in Nat : f[t] = way(t)
    <3> DEFINE T == {t \in Nat : f[t] # way(t)}
    <3>1. SUFFICES ASSUME T # {} PROVE FALSE
      OBVIOUS
    <3>2. PICK k \in T : \A j \in T : k <= j
      <4>1. T \subseteq Nat
        OBVIOUS
      <4> HIDE DEF T
      <4> QED BY <3>1, <4>1, LeastNumber
    <3>3. k \in Nat /\ k \in Int /\ f[k] # way(k)
      OBVIOUS
    <3>4. CASE k < d
      BY <2>1, <2>2, <3>3, <3>4
    <3>5. CASE k >= d
      <4>1. k - d \in Nat /\ k - d < k
        BY <1>1, <3>3, <3>5
      <4>2. f[k - d] = way(k - d)
        BY <3>2, <4>1
      <4>3. f[k] = Compose(Cycle(body, clip, root), f[k - d])
        BY <2>1, <3>3, <3>5
      <4> QED BY <2>2, <3>3, <4>2, <4>3
    <3> QED BY <1>1, <3>3, <3>4, <3>5
  <2>4. \A n \in Nat : f[- n] = way(- n)
    <3> DEFINE T == {n \in Nat : f[- n] # way(- n)}
    <3>1. SUFFICES ASSUME T # {} PROVE FALSE
      OBVIOUS
    <3>2. PICK k \in T : \A j \in T : k <= j
      <4>1. T \subseteq Nat
        OBVIOUS
      <4> HIDE DEF T
      <4> QED BY <3>1, <4>1, LeastNumber
    <3>3. PICK t \in Int : t = - k
      OBVIOUS
    <3>4. k \in Nat /\ f[t] # way(t)
      BY <3>3
    <3>5. k # 0
      BY <2>3, <3>3, <3>4
    <3>6. f[t + d] = way(t + d)
      <4>1. CASE t + d >= 0
        BY <2>3, <4>1
      <4>2. CASE t + d < 0
        <5>1. PICK j \in Nat : j = k - d /\ j < k
          BY <1>1, <3>3, <3>4, <4>2
        <5>2. j \notin T
          BY <3>2, <5>1
        <5>3. t + d = - j
          BY <3>3, <5>1
        <5> QED BY <5>2, <5>3
      <4> QED BY <4>1, <4>2
    <3>7. f[t] = Compose(Reverted(Cycle(body, clip, root)), f[t + d])
      <4>1. t < 0
        BY <3>3, <3>4, <3>5
      <4> QED BY <2>1, <4>1
    <3> QED BY <2>2, <3>4, <3>6, <3>7
  <2>5. ASSUME NEW t \in Int PROVE f[t] = way(t)
    <3>1. CASE t >= 0
      BY <2>3, <3>1
    <3>2. CASE t < 0
      <4>1. PICK n \in Nat : n = - t
        BY <3>2
      <4>2. t = - n
        BY <4>1
      <4> QED BY <2>4, <4>2
    <3> QED BY <3>1, <3>2
  <2> QED BY <2>5
<1>6. PathAt(body, clip, root, time) = (CHOOSE f : f = Walking(f, body, clip, root))[time]
  BY DEF PathAt, Walking, Cycle, Within
<1>7. PICK f : f = CHOOSE g : g = Walking(g, body, clip, root)
  OBVIOUS
<1>8. f = Walking(f, body, clip, root)
  BY <1>4, <1>7
<1> QED BY <1>5, <1>6, <1>7, <1>8

(***************************************************************************)
(* A hierarchy that every walk leaves has a root.                          *)
(***************************************************************************)
NextUp(body, here) ==
  IF here \notin Joints(body) THEN 0
  ELSE IF ParentOf(body, here) \in Joints(body) THEN ParentOf(body, here) ELSE 0

Walks(f, n, body, start) ==
  f = [steps \in 0 .. n |-> IF steps = 0 THEN start ELSE NextUp(body, f[steps - 1])]

LEMMA WalkExists ==
  ASSUME NEW body, NEW start, NEW n \in Nat
  PROVE  \E f : Walks(f, n, body, start)
<1> DEFINE T == {k \in Nat : ~\E f : Walks(f, k, body, start)}
<1>1. SUFFICES ASSUME T # {} PROVE FALSE
  OBVIOUS
<1>2. PICK k \in T : \A j \in T : k <= j
  <2>1. T \subseteq Nat
    OBVIOUS
  <2> HIDE DEF T
  <2> QED BY <1>1, <2>1, LeastNumber
<1>3. k \in Nat /\ ~\E f : Walks(f, k, body, start)
  OBVIOUS
<1>4. CASE k = 0
  <2>1. PICK f : f = [steps \in 0 .. 0 |-> start]
    OBVIOUS
  <2>2. f = [steps \in 0 .. 0 |-> IF steps = 0 THEN start ELSE NextUp(body, f[steps - 1])]
    BY <2>1
  <2> QED BY <1>3, <1>4, <2>2 DEF Walks
<1>5. CASE k # 0
  <2>1. PICK j \in Nat : j = k - 1
    BY <1>3, <1>5
  <2>2. PICK f : Walks(f, j, body, start)
    BY <1>2, <2>1
  <2>3. \A steps \in 0 .. j :
          f[steps] = IF steps = 0 THEN start ELSE NextUp(body, f[steps - 1])
    BY <2>2 DEF Walks
  <2>4. PICK g : g = [steps \in 0 .. k |-> IF steps = k THEN NextUp(body, f[j]) ELSE f[steps]]
    OBVIOUS
  <2>5. ASSUME NEW steps \in 0 .. k
        PROVE  g[steps] = IF steps = 0 THEN start ELSE NextUp(body, g[steps - 1])
    <3>1. CASE steps = k
      <4>1. g[k] = NextUp(body, f[j]) /\ g[j] = f[j]
        BY <1>3, <2>1, <2>4
      <4> QED BY <1>5, <2>1, <3>1, <4>1
    <3>2. CASE steps # k /\ steps # 0
      <4>1. steps \in 0 .. j /\ steps - 1 \in 0 .. k /\ steps - 1 # k
        BY <1>3, <2>1, <3>2
      <4>2. g[steps] = f[steps] /\ g[steps - 1] = f[steps - 1]
        BY <2>4, <3>2, <4>1
      <4> QED BY <2>3, <3>2, <4>1, <4>2
    <3>3. CASE steps # k /\ steps = 0
      <4>1. steps \in 0 .. j /\ g[steps] = f[steps]
        BY <2>1, <2>4, <3>3
      <4> QED BY <2>3, <3>3, <4>1
    <3> QED BY <3>1, <3>2, <3>3
  <2>6. Walks(g, k, body, start)
    BY <2>4, <2>5 DEF Walks
  <2> QED BY <1>3, <2>6
<1> QED BY <1>4, <1>5

LEMMA RootExists ==
  ASSUME NEW body \in Bodies, ValidSkeleton(body)
  PROVE  LET roots == {j \in Joints(body) : ParentOf(body, j) = 0} IN
         Min(roots) \in Joints(body)
<1>1. PICK n \in Nat : n = Len(body.joints) /\ Joints(body) = 1 .. n
  BY BodyFacts, SequenceFacts DEF Joints
<1>2. body.joints # << >> /\ WalksEnd(body)
      /\ \A joint \in Joints(body) : ParentOf(body, joint) \in {0} \cup Joints(body)
  BY DEF ValidSkeleton
<1>3. PICK roots : roots = {j \in Joints(body) : ParentOf(body, j) = 0}
  OBVIOUS
<1>4. ASSUME roots = {}, NEW joint \in Joints(body) PROVE FALSE
  <2>1. \A j \in Joints(body) : NextUp(body, j) \in Joints(body)
    BY <1>2, <1>3, <1>4 DEF NextUp
  <2>2. PICK walk : walk = Above(body, joint)
    OBVIOUS
  <2>3. PICK first : Walks(first, n, body, joint)
    BY WalkExists
  <2>4. Walks(walk, n, body, joint)
    <3>1. walk = CHOOSE f : Walks(f, n, body, joint)
      BY <1>1, <2>2 DEF Above, Walks, NextUp
    <3> QED BY <2>3, <3>1
  <2>5. \A steps \in 0 .. n :
          walk[steps] = IF steps = 0 THEN joint ELSE NextUp(body, walk[steps - 1])
    BY <2>4 DEF Walks
  <2> DEFINE T == {steps \in 0 .. n : walk[steps] \notin Joints(body)}
  <2>6. T = {}
    <3>1. SUFFICES ASSUME T # {} PROVE FALSE
      OBVIOUS
    <3>2. PICK k \in T : \A j \in T : k <= j
      <4>1. T \subseteq Nat
        OBVIOUS
      <4> HIDE DEF T
      <4> QED BY <3>1, <4>1, LeastNumber
    <3>3. k \in 0 .. n /\ walk[k] \notin Joints(body)
      OBVIOUS
    <3>4. k # 0
      BY <1>4, <2>5, <3>3
    <3>5. k - 1 \in 0 .. n /\ k - 1 \notin T
      BY <3>2, <3>3, <3>4
    <3> QED BY <2>1, <2>5, <3>3, <3>4, <3>5
  <2>7. PICK depth \in 1 .. Min({Len(body.joints), Limits.depth}) : walk[depth] = 0
    BY <1>2, <2>2 DEF WalksEnd
  <2>8. depth \in 0 .. n
    <3>1. {n, Limits.depth} \subseteq Nat /\ {n, Limits.depth} # {}
      BY LimitsAssumption
    <3>2. PICK m : m = Min({n, Limits.depth})
      OBVIOUS
    <3>3. m \in Nat /\ m <= n
      BY <3>1, <3>2, MinFacts
    <3> QED BY <1>1, <2>7, <3>2, <3>3
  <2> QED BY <1>1, <2>6, <2>7, <2>8
<1>5. roots # {}
  <2>1. n # 0
    <3>1. body.joints \in Seq(ToSet(body.joints)) /\ n = Len(body.joints)
      BY <1>1, BodyFacts DEF IsSequence
    <3> QED BY <1>2, <3>1
  <2>2. 1 \in Joints(body)
    BY <1>1, <2>1
  <2> QED BY <1>4, <2>2
<1>6. roots \subseteq Nat
  BY <1>1, <1>3
<1> QED BY <1>3, <1>5, <1>6, MinFacts

(* At every time they are the same turns.                                  *)
LEMMA ShiftedAlike ==
  ASSUME NEW clip, NEW body, Suits(clip, body), NEW root \in Joints(body), NEW turns \in Int
  PROVE  \E turned \in Motion : \A time \in Int :
           ExtendedMotion(body, clip, root, time + turns * clip.duration)
             = Compose(turned, ExtendedMotion(body, clip, root, time))
<1>1. Times(Cycle(body, clip, root), turns) \in Motion
  BY WayTypes, TimesFacts
<1>2. ASSUME NEW time \in Int
      PROVE  ExtendedMotion(body, clip, root, time + turns * clip.duration)
               = Compose(Times(Cycle(body, clip, root), turns),
                         ExtendedMotion(body, clip, root, time))
  BY ExtendedShifts
<1> QED BY <1>1, <1>2

(***************************************************************************)
(* A clock and how far it was followed                                     *)
(***************************************************************************)
(* A clock runs from the start of its clip when it runs forwards, and from *)
(* the end when it runs back.                                              *)
Onward(play) ==
  /\ play.playbackRate >= 0 => play.time >= 0
  /\ play.playbackRate <= 0 => play.time <= play.clip.duration

(* What was counted on and what the clock shows differ by whole turns, or  *)
(* both are past the end that the clock runs to.                           *)
InStep(play, to) ==
  IF play.wrapMode = "loop"
  THEN \E turns \in Int : to = play.time + turns * play.clip.duration
  ELSE \/ to = play.time
       \/ play.playbackRate >= 0 /\ play.time >= play.clip.duration /\ to >= play.clip.duration
       \/ play.playbackRate <= 0 /\ play.time <= 0 /\ to <= 0

LEMMA PlayTypes ==
  ASSUME NEW body, NEW play \in Playbacks, Suits(play.clip, body)
  PROVE  /\ play.time \in Int /\ play.playbackRate \in Int
         /\ play.wrapMode \in {"loop", "clamp"}
         /\ play.clip.duration \in Nat /\ play.clip.duration > 0
  BY ClipFacts DEF Playbacks

LEMMA SignOfStep ==
  ASSUME NEW deltaSeconds \in Nat, NEW rate \in Int
  PROVE  /\ deltaSeconds * rate \in Int
         /\ rate >= 0 => deltaSeconds * rate >= 0
         /\ rate <= 0 => deltaSeconds * rate <= 0
  OBVIOUS

LEMMA OnwardMoves ==
  ASSUME NEW body, NEW play \in Playbacks, Suits(play.clip, body), Onward(play),
         NEW deltaSeconds \in Nat
  PROVE  Onward(Moved(play, deltaSeconds))
<1>1. PICK moved : moved = Moved(play, deltaSeconds)
  OBVIOUS
<1>2. /\ moved.clip = play.clip /\ moved.playbackRate = play.playbackRate
      /\ moved.time = play.time + deltaSeconds * play.playbackRate
  BY <1>1, MovedShape
<1>3. PICK t \in Int, rate \in Int, d \in Nat :
        t = play.time /\ rate = play.playbackRate /\ d = play.clip.duration /\ d > 0
  BY PlayTypes
<1>4. PICK x \in Int : x = deltaSeconds * rate /\ (rate >= 0 => x >= 0) /\ (rate <= 0 => x <= 0)
  BY SignOfStep
<1> QED BY <1>1, <1>2, <1>3, <1>4 DEF Onward

LEMMA OnwardSettles ==
  ASSUME NEW body, NEW play \in Playbacks, Suits(play.clip, body)
  PROVE  Onward(Compacted(play))
<1>1. /\ Compacted(play).clip = play.clip
      /\ Compacted(play).time = SampleTime(play.time, play.clip.duration, play.wrapMode)
  BY CompactedShape
<1>2. play.time \in Int /\ play.clip.duration \in Int /\ play.clip.duration > 0
  BY PlayTypes
<1>3. /\ SampleTime(play.time, play.clip.duration, play.wrapMode) >= 0
      /\ SampleTime(play.time, play.clip.duration, play.wrapMode) <= play.clip.duration
  BY <1>2, SampleTimeSettles
<1> QED BY <1>1, <1>3 DEF Onward

LEMMA MovesInStep ==
  ASSUME NEW body, NEW play \in Playbacks, Suits(play.clip, body), Onward(play),
         NEW to \in Int, InStep(play, to), NEW deltaSeconds \in Nat
  PROVE  InStep(Moved(play, deltaSeconds), to + deltaSeconds * play.playbackRate)
<1>1. PICK moved : moved = Moved(play, deltaSeconds)
  OBVIOUS
<1>2. /\ moved.clip = play.clip /\ moved.playbackRate = play.playbackRate
      /\ moved.wrapMode = play.wrapMode
      /\ moved.time = play.time + deltaSeconds * play.playbackRate
  BY <1>1, MovedShape
<1>3. PICK t \in Int, rate \in Int, d \in Nat :
        t = play.time /\ rate = play.playbackRate /\ d = play.clip.duration /\ d > 0
  BY PlayTypes
<1>4. PICK x \in Int : x = deltaSeconds * rate /\ (rate >= 0 => x >= 0) /\ (rate <= 0 => x <= 0)
  BY SignOfStep
<1>5. CASE play.wrapMode = "loop"
  <2>1. PICK turns \in Int : to = t + turns * d
    BY <1>3, <1>5 DEF InStep
  <2>2. to + x = (t + x) + turns * d
    BY <2>1
  <2> QED BY <1>1, <1>2, <1>3, <1>4, <1>5, <2>2 DEF InStep
<1>6. CASE play.wrapMode # "loop"
  <2>1. \/ to = t
        \/ rate >= 0 /\ t >= d /\ to >= d
        \/ rate <= 0 /\ t <= 0 /\ to <= 0
    BY <1>3, <1>6 DEF InStep
  <2>2. \/ to + x = t + x
        \/ rate >= 0 /\ t + x >= d /\ to + x >= d
        \/ rate <= 0 /\ t + x <= 0 /\ to + x <= 0
    BY <1>4, <2>1
  <2> QED BY <1>1, <1>2, <1>3, <1>4, <1>6, <2>2 DEF InStep
<1> QED BY <1>5, <1>6

LEMMA SettlesInStep ==
  ASSUME NEW body, NEW play \in Playbacks, Suits(play.clip, body), Onward(play),
         NEW to \in Int, InStep(play, to)
  PROVE  InStep(Compacted(play), to)
<1>1. PICK settled : settled = Compacted(play)
  OBVIOUS
<1>2. /\ settled.clip = play.clip /\ settled.playbackRate = play.playbackRate
      /\ settled.wrapMode = play.wrapMode
      /\ settled.time = SampleTime(play.time, play.clip.duration, play.wrapMode)
  BY <1>1, CompactedShape
<1>3. PICK t \in Int, rate \in Int, d \in Nat :
        t = play.time /\ rate = play.playbackRate /\ d = play.clip.duration /\ d > 0
  BY PlayTypes
<1>4. CASE play.wrapMode = "loop"
  <2>1. PICK turns \in Int : to = t + turns * d
    BY <1>3, <1>4 DEF InStep
  <2>2. PICK cycles \in Int, phase \in Int : t = phase + cycles * d /\ phase = t % d
    BY <1>3, Phase
  <2>3. to = phase + (cycles + turns) * d /\ cycles + turns \in Int
    BY <2>1, <2>2
  <2>4. settled.time = phase
    BY <1>2, <1>3, <1>4, <2>2 DEF SampleTime
  <2> QED BY <1>1, <1>2, <1>3, <1>4, <2>3, <2>4 DEF InStep
<1>5. CASE play.wrapMode # "loop"
  <2>1. \/ to = t
        \/ rate >= 0 /\ t >= d /\ to >= d
        \/ rate <= 0 /\ t <= 0 /\ to <= 0
    BY <1>3, <1>5 DEF InStep
  <2>2. (rate >= 0 => t >= 0) /\ (rate <= 0 => t <= d)
    BY <1>3 DEF Onward
  <2>3. PICK s \in Int : s = IF t < 0 THEN 0 ELSE IF t > d THEN d ELSE t
    OBVIOUS
  <2>4. settled.time = s
    BY <1>2, <1>3, <1>5, <2>3 DEF SampleTime
  <2>5. \/ to = s
        \/ rate >= 0 /\ s >= d /\ to >= d
        \/ rate <= 0 /\ s <= 0 /\ to <= 0
    BY <1>3, <2>1, <2>2, <2>3
  <2> QED BY <1>1, <1>2, <1>3, <1>5, <2>4, <2>5 DEF InStep
<1> QED BY <1>4, <1>5

LEMMA ClampedAlike ==
  ASSUME NEW t \in Int, NEW to \in Int, NEW rate \in Int, NEW d \in Nat, NEW x \in Int,
         rate >= 0 => x >= 0, rate <= 0 => x <= 0,
         \/ to = t
         \/ rate >= 0 /\ t >= d /\ to >= d
         \/ rate <= 0 /\ t <= 0 /\ to <= 0
  PROVE  LET S(u) == IF u < 0 THEN 0 ELSE IF u > d THEN d ELSE u
         IN  S(t) = S(to) /\ S(t + x) = S(to + x)
<1>1. CASE to = t
  BY <1>1
<1>2. CASE t >= d /\ to >= d /\ x >= 0
  BY <1>2
<1>3. CASE t <= 0 /\ to <= 0 /\ x <= 0
  BY <1>3
<1> QED BY <1>1, <1>2, <1>3

(* One frame more adds its own motion, however the clock was wrapped.      *)
LEMMA MotionAddsUp ==
  ASSUME NEW body, NEW play \in Playbacks, Suits(play.clip, body), Onward(play),
         NEW root \in Joints(body), NEW from \in Int, NEW to \in Int, InStep(play, to),
         NEW deltaSeconds \in Nat
  PROVE  LET x == deltaSeconds * play.playbackRate
             way(until) == MotionBetween(body, play.clip, root, from, until, play.wrapMode)
             step == MotionBetween(body, play.clip, root, play.time, play.time + x,
                                   play.wrapMode)
         IN  step \in Motion /\ Compose(way(to), step) = way(to + x)
<1>1. PICK t \in Int, rate \in Int, d \in Nat :
        t = play.time /\ rate = play.playbackRate /\ d = play.clip.duration /\ d > 0
  BY PlayTypes
<1>2. PICK x \in Int : x = deltaSeconds * rate /\ (rate >= 0 => x >= 0) /\ (rate <= 0 => x <= 0)
  BY SignOfStep
<1>3. PICK clip : clip = play.clip
  OBVIOUS
<1>4. CASE play.wrapMode = "loop"
  <2>1. PICK turns \in Int : to = t + turns * d
    BY <1>1, <1>4 DEF InStep
  <2>2. \A u \in Int : ExtendedMotion(body, clip, root, u) \in Motion
    BY <1>3, ExtendedShifts
  <2>3. PICK turned \in Motion :
          /\ ExtendedMotion(body, clip, root, t + turns * d)
               = Compose(turned, ExtendedMotion(body, clip, root, t))
          /\ ExtendedMotion(body, clip, root, (t + x) + turns * d)
               = Compose(turned, ExtendedMotion(body, clip, root, t + x))
    <3>1. PICK turned \in Motion :
            \A time \in Int :
              ExtendedMotion(body, clip, root, time + turns * clip.duration)
                = Compose(turned, ExtendedMotion(body, clip, root, time))
      BY <1>3, ShiftedAlike
    <3>2. turns * clip.duration = turns * d
      BY <1>1, <1>3
    <3>3. t + x \in Int
      OBVIOUS
    <3> QED BY <3>1, <3>2, <3>3
  <2>4. to + x = (t + x) + turns * d /\ t + x \in Int /\ to + x \in Int
    BY <2>1
  <2>5. PICK a \in Motion, b \in Motion, start \in Motion, u \in Motion, v \in Motion :
          /\ a = ExtendedMotion(body, clip, root, t)
          /\ b = ExtendedMotion(body, clip, root, t + x)
          /\ start = ExtendedMotion(body, clip, root, from)
          /\ u = ExtendedMotion(body, clip, root, to)
          /\ v = ExtendedMotion(body, clip, root, to + x)
    BY <2>2, <2>4
  <2>6. u = Compose(turned, a) /\ v = Compose(turned, b)
    BY <2>1, <2>3, <2>4, <2>5
  <2>7. Relative(a, b) = Relative(u, v) /\ Relative(a, b) \in Motion
    BY <2>6, RelativeFacts
  <2>8. Compose(Relative(start, u), Relative(u, v)) = Relative(start, v)
    BY RelativeFacts
  <2>9. /\ MotionBetween(body, clip, root, from, to, "loop") = Relative(start, u)
        /\ MotionBetween(body, clip, root, from, to + x, "loop") = Relative(start, v)
        /\ MotionBetween(body, clip, root, t, t + x, "loop") = Relative(a, b)
    BY <2>5 DEF MotionBetween
  <2> QED BY <1>1, <1>2, <1>3, <1>4, <2>7, <2>8, <2>9
<1>5. CASE play.wrapMode # "loop"
  <2> DEFINE S(u) == IF u < 0 THEN 0 ELSE IF u > d THEN d ELSE u
  <2>1. \/ to = t
        \/ rate >= 0 /\ t >= d /\ to >= d
        \/ rate <= 0 /\ t <= 0 /\ to <= 0
    BY <1>1, <1>5 DEF InStep
  <2>2. S(t) = S(to) /\ S(t + x) = S(to + x)
    BY <1>2, <2>1, ClampedAlike
  <2>3. \A u \in Int : S(u) \in Int
    OBVIOUS
  <2>4. \A u : SampleTime(u, clip.duration, play.wrapMode) = S(u)
    BY <1>1, <1>3, <1>5 DEF SampleTime
  <2> HIDE DEF S
  <2>5. \A u \in Int : RootAt(body, clip, root, S(u)) \in Motion
    BY <1>3, <2>3, RootAtType
  <2>6. PICK a \in Motion, b \in Motion, start \in Motion :
          /\ a = RootAt(body, clip, root, S(t))
          /\ b = RootAt(body, clip, root, S(t + x))
          /\ start = RootAt(body, clip, root, S(from))
    BY <2>5
  <2>7. Relative(a, b) \in Motion
        /\ Compose(Relative(start, a), Relative(a, b)) = Relative(start, b)
    BY RelativeFacts
  <2>8. /\ MotionBetween(body, clip, root, from, to, play.wrapMode) = Relative(start, a)
        /\ MotionBetween(body, clip, root, from, to + x, play.wrapMode) = Relative(start, b)
        /\ MotionBetween(body, clip, root, t, t + x, play.wrapMode) = Relative(a, b)
    BY <1>5, <2>2, <2>4, <2>6 DEF MotionBetween
  <2> QED BY <1>1, <1>2, <1>3, <2>7, <2>8
<1> QED BY <1>4, <1>5

(***************************************************************************)
(* The character is followed along the clip that it plays                  *)
(***************************************************************************)
OnItsWay(body, play, root, way) ==
  /\ way \in [from : Int, to : Int, motion : Motion]
  /\ InStep(play, way.to)
  /\ root # Nothing =>
       way.motion = MotionBetween(body, play.clip, root, way.from, way.to, play.wrapMode)

Rooted ==
  /\ base # Nothing => skeleton # Nothing
  /\ skeleton # Nothing /\ rootMotionJoint # Nothing => rootMotionJoint \in Joints(skeleton)

Moving ==
  /\ base # Nothing => Onward(base)
  /\ transition # Nothing => Onward(transition.from) /\ Onward(transition.to)

Followed ==
  base # Nothing /\ transition = Nothing => OnItsWay(skeleton, base, rootMotionJoint, journey)

LEMMA MotionBetweenTwice ==
  ASSUME NEW body, NEW play \in Playbacks, Suits(play.clip, body), NEW root \in Joints(body),
         NEW time \in Int
  PROVE  MotionBetween(body, play.clip, root, time, time, play.wrapMode) = Still
<1>1. PICK clip : clip = play.clip
  OBVIOUS
<1>2. CASE play.wrapMode = "loop"
  <2>1. ExtendedMotion(body, clip, root, time) \in Motion
    BY <1>1, ExtendedShifts
  <2>2. Relative(ExtendedMotion(body, clip, root, time), ExtendedMotion(body, clip, root, time))
          = Still
    BY <2>1, RelativeFacts
  <2> QED BY <1>1, <1>2, <2>2 DEF MotionBetween
<1>3. CASE play.wrapMode # "loop"
  <2>1. PICK s : s = SampleTime(time, clip.duration, play.wrapMode)
    OBVIOUS
  <2>2. s \in Int
    BY <1>1, <1>3, <2>1, PlayTypes, SampleTimeSettles
  <2>3. RootAt(body, clip, root, s) \in Motion
    BY <1>1, <2>2, RootAtType
  <2>4. Relative(RootAt(body, clip, root, s), RootAt(body, clip, root, s)) = Still
    BY <2>3, RelativeFacts
  <2> QED BY <1>1, <1>3, <2>1, <2>4 DEF MotionBetween
<1> QED BY <1>2, <1>3

(* Whoever is followed from now on has not moved yet.                      *)
LEMMA NewJourneyFollows ==
  ASSUME Fits', Rooted', NewJourney
  PROVE  Followed'
<1> SUFFICES ASSUME base' # Nothing, transition' = Nothing
             PROVE  OnItsWay(skeleton', base', rootMotionJoint', journey')
  BY DEF Followed
<1>1. PICK body, play, root : body = skeleton' /\ play = base' /\ root = rootMotionJoint'
  OBVIOUS
<1>2. /\ play \in Playbacks /\ Suits(play.clip, body)
      /\ root # Nothing => root \in Joints(body)
  BY <1>1 DEF Fits, Rooted
<1>3. PICK time \in Int : time = play.time
  BY <1>2, PlayTypes
<1>4. journey' = [from |-> time, to |-> time, motion |-> Still]
  BY <1>1, <1>3 DEF NewJourney
<1>5. journey' \in [from : Int, to : Int, motion : Motion]
  BY <1>4, StillFacts
<1>6. InStep(play, time)
  <2>1. play.clip.duration \in Nat
    BY <1>2, PlayTypes
  <2>2. PICK d \in Nat : d = play.clip.duration
    BY <2>1
  <2>3. time = time + 0 * d
    OBVIOUS
  <2> QED BY <1>3, <2>2, <2>3 DEF InStep
<1>7. root # Nothing =>
        MotionBetween(body, play.clip, root, time, time, play.wrapMode) = Still
  BY <1>2, MotionBetweenTwice
<1> QED BY <1>1, <1>4, <1>5, <1>6, <1>7 DEF OnItsWay

LEMMA SameJourney ==
  ASSUME Rooted, Moving, Followed,
         UNCHANGED <<skeleton, base, transition, rootMotionJoint, journey>>
  PROVE  Rooted' /\ Moving' /\ Followed'
  BY DEF Rooted, Moving, Followed, Onward

(* What a frame hands out, and the way with it.                            *)
Handed(body, play, root, deltaSeconds, delta) ==
  delta = IF root = Nothing THEN Still
          ELSE MotionBetween(body, play.clip, root, play.time,
                             Moved(play, deltaSeconds).time, play.wrapMode)

Went(way, next, step, delta) ==
  next = [way EXCEPT !.to = @ + step, !.motion = Compose(@, delta)]

LEMMA WentShape ==
  ASSUME NEW way \in [from : Int, to : Int, motion : Motion], NEW step \in Int, NEW delta,
         Compose(way.motion, delta) \in Motion, NEW next, Went(way, next, step, delta)
  PROVE  /\ next \in [from : Int, to : Int, motion : Motion]
         /\ next.from = way.from /\ next.to = way.to + step
         /\ next.motion = Compose(way.motion, delta)
<1>1. PICK from \in Int, to \in Int, motion \in Motion :
        way = [from |-> from, to |-> to, motion |-> motion]
  OBVIOUS
<1>2. PICK moved : moved = Compose(motion, delta)
  OBVIOUS
<1>3. moved \in Motion /\ to + step \in Int
  BY <1>1, <1>2
<1>4. way.from = from /\ way.to = to /\ way.motion = motion
  BY <1>1
<1>5. next = [from |-> from, to |-> to + step, motion |-> moved]
  BY <1>1, <1>2, <1>4 DEF Went
<1> QED BY <1>2, <1>3, <1>4, <1>5

(* A frame takes it as far as it hands out.                                *)
LEMMA StaysOnItsWay ==
  ASSUME NEW body, NEW play \in Playbacks, Suits(play.clip, body), Onward(play),
         NEW root, root # Nothing => root \in Joints(body),
         NEW way, OnItsWay(body, play, root, way), NEW deltaSeconds \in Nat,
         NEW delta, Handed(body, play, root, deltaSeconds, delta),
         NEW next, Went(way, next, deltaSeconds * play.playbackRate, delta)
  PROVE  /\ OnItsWay(body, Moved(play, deltaSeconds), root, next)
         /\ OnItsWay(body, Compacted(Moved(play, deltaSeconds)), root, next)
<1>1. PICK moved : moved = Moved(play, deltaSeconds)
  OBVIOUS
<1>2. /\ moved \in Playbacks /\ moved.clip = play.clip /\ moved.wrapMode = play.wrapMode
      /\ moved.time = play.time + deltaSeconds * play.playbackRate
  BY <1>1, MovedShape
<1>3. PICK settled : settled = Compacted(moved)
  OBVIOUS
<1>4. settled.clip = play.clip /\ settled.wrapMode = play.wrapMode
  BY <1>2, <1>3, CompactedShape
<1>5. PICK from \in Int, to \in Int, m \in Motion : from = way.from /\ to = way.to /\ m = way.motion
  BY DEF OnItsWay
<1>6. PICK x \in Int : x = deltaSeconds * play.playbackRate
  BY PlayTypes, SignOfStep
<1>7. PICK motion : motion = Compose(m, delta)
  OBVIOUS
<1>8. InStep(moved, to + x) /\ InStep(settled, to + x)
  <2>1. InStep(play, to)
    BY <1>5 DEF OnItsWay
  <2>2. InStep(moved, to + x)
    BY <1>1, <1>6, <2>1, MovesInStep
  <2>3. Onward(moved) /\ Suits(moved.clip, body) /\ to + x \in Int
    <3>1. Onward(moved)
      BY <1>1, OnwardMoves
    <3>2. Suits(moved.clip, body) /\ to + x \in Int
      BY <1>2
    <3> QED BY <3>1, <3>2
  <2>4. InStep(settled, to + x)
    BY <1>2, <1>3, <2>2, <2>3, SettlesInStep
  <2> QED BY <2>2, <2>4
<1>9. /\ motion \in Motion
      /\ root # Nothing =>
           motion = MotionBetween(body, play.clip, root, from, to + x, play.wrapMode)
  <2>1. CASE root = Nothing
    <3>1. delta = Still
      BY <2>1 DEF Handed
    <3>2. Compose(m, Still) = m
      BY StillFacts
    <3> QED BY <1>7, <2>1, <3>1, <3>2
  <2>2. CASE root # Nothing
    <3>1. m = MotionBetween(body, play.clip, root, from, to, play.wrapMode) /\ InStep(play, to)
      BY <1>5, <2>2 DEF OnItsWay
    <3>2. delta = MotionBetween(body, play.clip, root, play.time, play.time + x, play.wrapMode)
      BY <1>1, <1>2, <1>6, <2>2 DEF Handed
    <3>3. /\ MotionBetween(body, play.clip, root, play.time, play.time + x, play.wrapMode)
               \in Motion
          /\ Compose(MotionBetween(body, play.clip, root, from, to, play.wrapMode),
                     MotionBetween(body, play.clip, root, play.time, play.time + x,
                                   play.wrapMode))
               = MotionBetween(body, play.clip, root, from, to + x, play.wrapMode)
      BY <1>6, <2>2, <3>1, MotionAddsUp
    <3>4. motion = MotionBetween(body, play.clip, root, from, to + x, play.wrapMode)
      BY <1>7, <3>1, <3>2, <3>3
    <3>5. delta \in Motion
      BY <3>2, <3>3
    <3> QED BY <1>7, <3>4, <3>5, ComposeType
  <2> QED BY <2>1, <2>2
<1>10. /\ next \in [from : Int, to : Int, motion : Motion]
       /\ next.from = from /\ next.to = to + x /\ next.motion = motion
  <2>1. way \in [from : Int, to : Int, motion : Motion]
    BY DEF OnItsWay
  <2>2. Compose(way.motion, delta) \in Motion /\ Went(way, next, x, delta)
    BY <1>5, <1>6, <1>7, <1>9
  <2>3. /\ next \in [from : Int, to : Int, motion : Motion]
        /\ next.from = way.from /\ next.to = way.to + x
        /\ next.motion = Compose(way.motion, delta)
    BY <2>1, <2>2, WentShape
  <2> QED BY <1>5, <1>7, <2>3
<1> QED BY <1>1, <1>2, <1>3, <1>4, <1>8, <1>9, <1>10 DEF OnItsWay

LEMMA RefuseKeepsTheWay ==
  ASSUME Fits', Rooted, Moving, Refuse, NewJourney
  PROVE  Rooted' /\ Moving' /\ Followed'
<1>1. UNCHANGED <<skeleton, base, transition, rootMotionJoint>>
  BY DEF Refuse, playback
<1>2. Rooted' /\ Moving'
  BY <1>1 DEF Rooted, Moving, Onward
<1> QED BY <1>2, NewJourneyFollows

LEMMA WearFollows ==
  ASSUME Fits, Fits', Rooted, Moving, NEW s \in Loaded, Wear(s)
  PROVE  Rooted' /\ Moving' /\ Followed'
<1>1. PICK body : body = assets[s].skeleton
  OBVIOUS
<1>2. body \in Bodies
  BY <1>1 DEF Fits, Loaded, Loadable, Bodies
<1>3. CASE ~ValidSkeleton(body)
  BY <1>1, <1>3, RefuseKeepsTheWay DEF Wear, SetSkeleton
<1>4. CASE ValidSkeleton(body)
  <2>1. /\ base' = Nothing /\ transition' = Nothing /\ skeleton' \in {body, Nothing}
        /\ rootMotionJoint' = Min({j \in Joints(body) : ParentOf(body, j) = 0})
    BY <1>1, <1>4 DEF Wear, SetSkeleton
  <2>2. Min({j \in Joints(body) : ParentOf(body, j) = 0}) \in Joints(body)
    BY <1>2, <1>4, RootExists
  <2> QED BY <2>1, <2>2 DEF Rooted, Moving, Followed
<1> QED BY <1>3, <1>4

LEMMA StartFollows ==
  ASSUME Fits, Fits', Rooted, Moving, Followed, NEW play \in Plays, Start(play)
  PROVE  Rooted' /\ Moving' /\ Followed'
<1>1. CASE ~Playable(Playback(play))
  BY <1>1, SameJourney DEF Start, Play, Refuse, playback
<1>2. CASE Playable(Playback(play))
  <2>1. /\ base' = Playback(play) /\ transition' = Nothing /\ skeleton # Nothing
        /\ UNCHANGED <<skeleton, rootMotionJoint>> /\ NewJourney
    BY <1>2 DEF Start, Play, Playable
  <2>2. Rooted'
    BY <2>1 DEF Rooted
  <2>3. Onward(Playback(play))
    <3>1. Playback(play).time = 0
      BY DEF Playback
    <3>2. Playback(play) \in Playbacks
      BY <1>2, AskedFor DEF Fits
    <3>3. Suits(Playback(play).clip, skeleton)
      BY <1>2, <3>2 DEF Fits, Playable, Suits, Playbacks
    <3> QED BY <3>1, <3>2, <3>3, PlayTypes DEF Onward
  <2>4. Moving'
    BY <2>1, <2>3 DEF Moving, Onward
  <2> QED BY <2>1, <2>2, <2>4, NewJourneyFollows
<1> QED BY <1>1, <1>2

LEMMA FadeFollows ==
  ASSUME Fits, Fits', Rooted, Moving, NEW play \in Plays, NEW duration, Fade(play, duration)
  PROVE  Rooted' /\ Moving' /\ Followed'
<1>1. CASE ~CanFade(Playback(play), duration)
  BY <1>1, RefuseKeepsTheWay DEF Fade, CrossFade
<1>2. CASE CanFade(Playback(play), duration)
  <2>1. /\ UNCHANGED <<skeleton, base, rootMotionJoint>> /\ NewJourney
    BY <1>2 DEF Fade, CrossFade
  <2>2. /\ base # Nothing
        /\ transition' = [from |-> base, to |-> Playback(play), elapsed |-> 0,
                          duration |-> duration]
        /\ FadeFits(transition')
    BY <1>2, FadeKeepsFits
  <2>3. Onward(Playback(play))
    <3>1. Playback(play).time = 0
      BY DEF Playback
    <3>2. Playback(play) \in Playbacks /\ Suits(Playback(play).clip, skeleton)
      BY <2>2 DEF FadeFits, Fades
    <3> QED BY <3>1, <3>2, PlayTypes DEF Onward
  <2>4. Rooted'
    BY <2>1 DEF Rooted
  <2>5. Moving'
    BY <2>1, <2>2, <2>3 DEF Moving, Onward
  <2> QED BY <2>1, <2>4, <2>5, NewJourneyFollows
<1> QED BY <1>1, <1>2

LEMMA RootFollows ==
  ASSUME Fits', Rooted, Moving, NEW joint, Root(joint)
  PROVE  Rooted' /\ Moving' /\ Followed'
<1>1. CASE SetRootMotionJoint(joint) /\ Refuse
  BY <1>1, RefuseKeepsTheWay DEF Root
<1>2. CASE ~Refuse
  <2>1. /\ UNCHANGED <<skeleton, base, transition>> /\ NewJourney
        /\ rootMotionJoint' = joint
        /\ joint = Nothing \/ (skeleton # Nothing /\ joint \in Joints(skeleton))
    BY <1>2 DEF Root, SetRootMotionJoint, playback
  <2>2. Rooted' /\ Moving'
    BY <2>1 DEF Rooted, Moving, Onward
  <2> QED BY <2>1, <2>2, NewJourneyFollows
<1> QED BY <1>1, <1>2 DEF Root

(* The clocks of an update, whether or not it can show its pose.           *)
LEMMA FrameFollows ==
  ASSUME Fits, Fits', Rooted, Moving, Followed, NEW deltaSeconds \in Steps,
         Frame(deltaSeconds)
  PROVE  Rooted' /\ Moving' /\ Followed'
<1>1. deltaSeconds \in Nat /\ Update(deltaSeconds) /\ Follow(deltaSeconds)
  BY GameAssumption DEF Frame
<1>2. CASE base = Nothing
  BY <1>1, <1>2, RefuseKeepsTheWay DEF Update, Follow
<1>3. CASE base # Nothing
  <2>1. skeleton # Nothing /\ base \in Playbacks /\ Suits(base.clip, skeleton) /\ Onward(base)
    BY <1>3 DEF Fits, Rooted, Moving
  <2>2. ~(deltaSeconds < 0)
    BY <1>1
  <2>3. PICK b : b = IF transition = Nothing THEN Moved(base, deltaSeconds) ELSE base
    OBVIOUS
  <2>4. PICK fade : fade = MovedFade(deltaSeconds)
    OBVIOUS
  <2>5. /\ UNCHANGED <<skeleton, rootMotionJoint>>
        /\ rootMotionDelta' = MotionOf(deltaSeconds)
        /\ \/ \E over : Settled(b, fade, over)
           \/ base' = b /\ transition' = fade
    BY <1>1, <1>3, <2>1, <2>2, <2>3, <2>4 DEF Update
  <2>6. ASSUME NEW play \in Playbacks, Suits(play.clip, skeleton), Onward(play)
        PROVE  /\ Moved(play, deltaSeconds) \in Playbacks
               /\ Suits(Moved(play, deltaSeconds).clip, skeleton)
               /\ Onward(Moved(play, deltaSeconds))
    <3>1. Onward(Moved(play, deltaSeconds))
      BY <1>1, <2>6, OnwardMoves
    <3>2. Moved(play, deltaSeconds) \in Playbacks /\ Moved(play, deltaSeconds).clip = play.clip
      BY <1>1, MovedShape
    <3> QED BY <2>6, <3>1, <3>2
  <2>7. ASSUME NEW play \in Playbacks, Suits(play.clip, skeleton)
        PROVE  Onward(Compacted(play))
    BY <2>7, OnwardSettles
  <2>8. Rooted'
    BY <2>1, <2>5 DEF Rooted
  <2>9. CASE transition # Nothing
    <3>1. NewJourney /\ b = base
      BY <1>1, <2>3, <2>9 DEF Follow
    <3>2. /\ transition.from \in Playbacks /\ Suits(transition.from.clip, skeleton)
          /\ transition.to \in Playbacks /\ Suits(transition.to.clip, skeleton)
          /\ Onward(transition.from) /\ Onward(transition.to)
      BY <2>9 DEF Fits, FadeFits, Fades, Moving
    <3>3. PICK from, to : from = Moved(transition.from, deltaSeconds)
                          /\ to = Moved(transition.to, deltaSeconds)
      OBVIOUS
    <3>4. /\ from \in Playbacks /\ Suits(from.clip, skeleton) /\ Onward(from)
          /\ to \in Playbacks /\ Suits(to.clip, skeleton) /\ Onward(to)
      BY <2>6, <3>2, <3>3
    <3>5. fade # Nothing /\ fade.from = from /\ fade.to = to /\ FadeFits(fade)
      BY <1>1, <2>4, <2>9, <3>3, FadeMoves DEF Fits
    <3>6. CASE base' = b /\ transition' = fade
      <4>1. Moving'
        BY <2>1, <3>1, <3>4, <3>5, <3>6 DEF Moving, Onward
      <4> QED BY <2>8, <3>1, <4>1, NewJourneyFollows
    <3>7. ASSUME NEW over, Settled(b, fade, over) PROVE Moving'
      <4>1. base' = Compacted(to) \/ base' = Compacted(base)
        BY <3>1, <3>5, <3>7 DEF Settled
      <4>2. Onward(Compacted(to)) /\ Onward(Compacted(base)) /\ Onward(Compacted(from))
        BY <2>1, <2>7, <3>4
      <4>3. \/ transition' = Nothing
            \/ transition' = [fade EXCEPT !.from = Compacted(@), !.to = Compacted(@)]
        BY <3>7 DEF Settled
      <4>4. transition' # Nothing =>
              transition'.from = Compacted(from) /\ transition'.to = Compacted(to)
        <5>1. PICK settled : settled = [fade EXCEPT !.from = Compacted(@), !.to = Compacted(@)]
          OBVIOUS
        <5>2. settled = [from |-> Compacted(fade.from), to |-> Compacted(fade.to),
                         elapsed |-> fade.elapsed, duration |-> fade.duration]
          BY <3>5, <5>1, FadeSettles
        <5> QED BY <3>5, <4>3, <5>1, <5>2
      <4> QED BY <4>1, <4>2, <4>4 DEF Moving, Onward
    <3> QED BY <2>5, <2>8, <3>1, <3>6, <3>7, NewJourneyFollows
  <2>10. CASE transition = Nothing
    <3>1. fade = Nothing /\ b = Moved(base, deltaSeconds)
      BY <2>3, <2>4, <2>10 DEF MovedFade
    <3>2. transition' = Nothing /\ base' \in {b, Compacted(b)}
      BY <2>5, <3>1 DEF Settled
    <3>3. b \in Playbacks /\ Suits(b.clip, skeleton) /\ Onward(b)
      BY <2>1, <2>6, <3>1
    <3>4. Onward(Compacted(b))
      BY <2>7, <3>3
    <3>5. Moving'
      BY <3>2, <3>3, <3>4 DEF Moving, Onward
    <3>6. PICK body, play, root, way, delta, next :
            /\ body = skeleton /\ play = base /\ root = rootMotionJoint
            /\ way = journey /\ delta = rootMotionDelta' /\ next = journey'
      OBVIOUS
    <3>7. /\ play \in Playbacks /\ Suits(play.clip, body) /\ Onward(play)
          /\ root # Nothing => root \in Joints(body)
          /\ OnItsWay(body, play, root, way)
      BY <1>3, <2>1, <2>10, <3>6 DEF Rooted, Followed
    <3>8. Handed(body, play, root, deltaSeconds, delta)
      BY <2>5, <2>10, <3>6 DEF Handed, MotionOf, RootMoves
    <3>9. Went(way, next, deltaSeconds * play.playbackRate, delta)
      BY <1>1, <1>3, <2>10, <3>6 DEF Went, Follow
    <3>10. /\ OnItsWay(body, Moved(play, deltaSeconds), root, next)
           /\ OnItsWay(body, Compacted(Moved(play, deltaSeconds)), root, next)
      BY <1>1, <3>7, <3>8, <3>9, StaysOnItsWay
    <3>11. OnItsWay(body, base', root, next)
      BY <3>1, <3>2, <3>6, <3>10
    <3> QED BY <2>5, <2>8, <3>5, <3>6, <3>11 DEF Followed
  <2> QED BY <2>9, <2>10
<1> QED BY <1>2, <1>3

(* What is counted is what the path says.                                  *)
LEMMA FollowedTelescopes ==
  ASSUME Fits, Rooted, Followed
  PROVE  RootMotionTelescopes
<1> SUFFICES ASSUME base # Nothing, transition = Nothing, rootMotionJoint # Nothing
             PROVE  RootMotionTelescopes
  BY DEF RootMotionTelescopes
<1>1. PICK body, play, root, from, to :
        /\ body = skeleton /\ play = base /\ root = rootMotionJoint
        /\ from = journey.from /\ to = journey.to
  OBVIOUS
<1>2. /\ play \in Playbacks /\ Suits(play.clip, body) /\ root \in Joints(body)
      /\ from \in Int /\ to \in Int
      /\ journey.motion = MotionBetween(body, play.clip, root, from, to, play.wrapMode)
  BY <1>1 DEF Fits, Rooted, Followed, OnItsWay
<1>3. play.wrapMode \in {"loop", "clamp"}
  BY <1>2, PlayTypes
<1>4. CASE play.wrapMode = "loop"
  <2>1. /\ PathAt(body, play.clip, root, from) = ExtendedMotion(body, play.clip, root, from)
        /\ PathAt(body, play.clip, root, to) = ExtendedMotion(body, play.clip, root, to)
    BY <1>2, PathIsExtended
  <2> QED BY <1>1, <1>2, <1>4, <2>1 DEF RootMotionTelescopes, MotionBetween
<1>5. CASE play.wrapMode = "clamp"
  BY <1>1, <1>2, <1>5 DEF RootMotionTelescopes, MotionBetween
<1> QED BY <1>3, <1>4, <1>5

-----------------------------------------------------------------------------
(* The motions handed out frame by frame are together the way of the root  *)
(* (RootMotionTelescopes): a turn of a loop is a motion of the group, so   *)
(* wrapping the clock by whole turns cancels out, and a clock that is held *)
(* at the end of its clip stands still there however far it was asked to   *)
(* run, forwards or back, by updates that fail as well.                    *)
THEOREM RootMotionAddsUp == Spec => []RootMotionTelescopes
<1> DEFINE Inv == Fits /\ PoseIsCurrent /\ Rooted /\ Moving /\ Followed
<1>1. Init => Inv
  <2>1. Init => Rooted /\ Moving /\ Followed
    BY DEF Init, RuntimeInit, Rooted, Moving, Followed
  <2> QED BY <2>1, InitFits
<1>2. Inv /\ [Next]_vars => Inv'
  <2> SUFFICES ASSUME Fits, PoseIsCurrent, Rooted, Moving, Followed, [Next]_vars
               PROVE  Fits' /\ PoseIsCurrent' /\ Rooted' /\ Moving' /\ Followed'
    OBVIOUS
  <2>1. ASSUME NEW s \in Loaded, Wear(s)
        PROVE  Fits' /\ PoseIsCurrent' /\ Rooted' /\ Moving' /\ Followed'
    BY <2>1, WearFits, WearShows, WearFollows
  <2>2. ASSUME NEW play \in Asked(Plays), Start(play)
        PROVE  Fits' /\ PoseIsCurrent' /\ Rooted' /\ Moving' /\ Followed'
    BY <2>2, StartFits, StartShows, StartFollows DEF Asked
  <2>3. ASSUME NEW play \in Asked(Plays), NEW duration \in FadeTimes, Fade(play, duration)
        PROVE  Fits' /\ PoseIsCurrent' /\ Rooted' /\ Moving' /\ Followed'
    BY <2>3, FadeKeepsFits, FadeShows, FadeFollows DEF Asked
  <2>4. ASSUME NEW slot \in 1 .. MaxRuntimeLayers + 1, NEW wanted \in Asked(LayerRoots),
               Put(slot, wanted)
        PROVE  Fits' /\ PoseIsCurrent' /\ Rooted' /\ Moving' /\ Followed'
    <3>1. slot \in Nat /\ wanted \in LayerRoots
      BY AnimationConstants DEF Asked
    <3>2. UNCHANGED <<skeleton, base, transition, rootMotionJoint, journey>>
      BY <2>4 DEF Put, SetLayer, Refuse, playback
    <3>3. Rooted' /\ Moving' /\ Followed'
      BY <3>2, SameJourney
    <3> QED BY <2>4, <3>1, <3>3, PutFits, PutShows
  <2>5. ASSUME NEW slot \in DOMAIN layers, Take(slot)
        PROVE  Fits' /\ PoseIsCurrent' /\ Rooted' /\ Moving' /\ Followed'
    <3>1. UNCHANGED <<skeleton, base, transition, rootMotionJoint, journey>>
      BY <2>5 DEF Take, ClearLayer, ClearLayers
    <3>2. Rooted' /\ Moving' /\ Followed'
      BY <3>1, SameJourney
    <3> QED BY <2>5, <3>2, TakeFits, TakeShows
  <2>6. ASSUME NEW joint \in RootJoints, Root(joint)
        PROVE  Fits' /\ PoseIsCurrent' /\ Rooted' /\ Moving' /\ Followed'
    BY <2>6, RootFits, RootShows, RootFollows
  <2>7. ASSUME NEW deltaSeconds \in Steps, Frame(deltaSeconds)
        PROVE  Fits' /\ PoseIsCurrent' /\ Rooted' /\ Moving' /\ Followed'
    <3>1. Fits' /\ PoseIsCurrent'
      BY <2>7, FrameKeepsFits
    <3> QED BY <2>7, <3>1, FrameFollows
  <2>8. CASE UNCHANGED vars
    <3>1. UNCHANGED <<assets, skeleton, base, transition, layers, poses, rootMotionJoint, journey>>
      BY <2>8 DEF vars, runtime, playback
    <3>2. Fits'
      BY <3>1 DEF Fits, FadeFits, LayerFits
    <3> QED BY <3>1, <3>2, ShownStays, SameJourney
  <2> QED BY <2>1, <2>2, <2>3, <2>4, <2>5, <2>6, <2>7, <2>8 DEF Next
<1>3. Inv => RootMotionTelescopes
  BY FollowedTelescopes
<1> QED BY <1>1, <1>2, <1>3, PTL DEF Spec

-----------------------------------------------------------------------------
(***************************************************************************)
(* Folds: what an iteration over the indices of a list gathers             *)
(***************************************************************************)
(* A set of numbers up to n that is not empty has a largest one.           *)
LEMMA MaxFacts ==
  ASSUME NEW n \in Nat, NEW T, T \subseteq 1 .. n, T # {}
  PROVE  Max(T) \in T /\ \A x \in T : x <= Max(T)
<1> DEFINE Rest == {n - x : x \in T}
<1>1. Rest \subseteq Nat /\ Rest # {}
  <2>1. \A x \in T : x \in 1 .. n /\ n - x \in Nat
    OBVIOUS
  <2> QED BY <2>1
<1>2. PICK r \in Rest : \A y \in Rest : r <= y
  BY <1>1, LeastNumber
<1>3. PICK x \in T : r = n - x
  BY <1>2
<1>4. \A y \in T : x >= y
  <2> TAKE y \in T
  <2>1. n - y \in Rest
    OBVIOUS
  <2> QED BY <1>2, <1>3, <2>1
<1> QED BY <1>4 DEF Max

(* The numbers up to n that a property holds of from 0 on are all.         *)
LEMMA UpTo ==
  ASSUME NEW n \in Nat, NEW Good, 0 \in Good,
         \A m \in 0 .. (n - 1) : m \in Good => m + 1 \in Good
  PROVE  0 .. n \subseteq Good
<1> SUFFICES ASSUME (0 .. n) \ Good # {} PROVE FALSE
  OBVIOUS
<1>1. PICK x \in (0 .. n) \ Good : \A y \in (0 .. n) \ Good : x <= y
  <2>1. (0 .. n) \ Good \subseteq Nat
    OBVIOUS
  <2> QED BY <2>1, LeastNumber
<1>2. x # 0 /\ x - 1 \in 0 .. (n - 1) /\ x - 1 \in 0 .. n
  BY <1>1
<1>3. x - 1 \in Good
  BY <1>1, <1>2
<1> QED BY <1>1, <1>2, <1>3

(* What a fold over sets of indices has to say of every set up to m: the   *)
(* empty set gives the initial value, and any other the step from the set  *)
(* without its largest index.                                              *)
FoldStep(f, initial, step, m, X) ==
  \A s \in SUBSET (1 .. m) :
    /\ s = {} => f[s] = initial
    /\ s # {} /\ f[s \ {Max(s)}] \in X => f[s] = step[<<Max(s), f[s \ {Max(s)}]>>]

(* Such a function on the sets of indices exists: each index more extends  *)
(* it.                                                                     *)
LEMMA FoldExists ==
  ASSUME NEW n \in Nat, NEW X, NEW initial \in X, NEW step \in [(1 .. n) \X X -> X]
  PROVE  \E f \in [SUBSET (1 .. n) -> X] : FoldStep(f, initial, step, n, X)
<1> DEFINE Good == {m \in 0 .. n : \E f \in [SUBSET (1 .. m) -> X] : FoldStep(f, initial, step, m, X)}
<1>1. 0 \in Good
  <2>1. SUBSET (1 .. 0) = {{}}
    OBVIOUS
  <2> DEFINE f == [s \in SUBSET (1 .. 0) |-> initial]
  <2>2. f \in [SUBSET (1 .. 0) -> X] /\ FoldStep(f, initial, step, 0, X)
    BY <2>1 DEF FoldStep
  <2> QED BY <2>2
<1>2. ASSUME NEW m \in 0 .. (n - 1), m \in Good
      PROVE  m + 1 \in Good
  <2>1. PICK f \in [SUBSET (1 .. m) -> X] : FoldStep(f, initial, step, m, X)
    BY <1>2
  <2> DEFINE k == m + 1
             g == [s \in SUBSET (1 .. k) |-> IF k \in s THEN step[<<k, f[s \ {k}]>>] ELSE f[s]]
  <2>2. k \in 1 .. n /\ k \in Nat /\ k # 0
    OBVIOUS
  <2>3. \A s \in SUBSET (1 .. k) : s \ {k} \in SUBSET (1 .. m)
    OBVIOUS
  <2>4. \A s \in SUBSET (1 .. k) : k \notin s => s \in SUBSET (1 .. m) /\ g[s] = f[s]
    OBVIOUS
  <2>5. g \in [SUBSET (1 .. k) -> X]
    <3>1. ASSUME NEW s \in SUBSET (1 .. k) PROVE g[s] \in X
      <4>1. CASE k \in s
        <5>1. f[s \ {k}] \in X
          BY <2>3
        <5>2. <<k, f[s \ {k}]>> \in (1 .. n) \X X
          BY <5>1, <2>2
        <5> QED BY <4>1, <5>2
      <4>2. CASE k \notin s
        BY <4>2, <2>4
      <4> QED BY <4>1, <4>2
    <3> QED BY <3>1
  <2>6. FoldStep(g, initial, step, k, X)
    <3>1. ASSUME NEW s \in SUBSET (1 .. k), s # {}
          PROVE  g[s] = step[<<Max(s), g[s \ {Max(s)}]>>]
      <4>1. Max(s) \in s /\ \A x \in s : x <= Max(s)
        BY <3>1, <2>2, MaxFacts
      <4>2. CASE k \in s
        <5>1. Max(s) = k
          <6>1. Max(s) \in 1 .. k /\ k <= Max(s)
            BY <4>1, <4>2
          <6> QED BY <6>1, <2>2
        <5>2. s \ {k} \in SUBSET (1 .. k) /\ k \notin s \ {k}
          OBVIOUS
        <5>3. g[s \ {k}] = f[s \ {k}]
          BY <5>2, <2>4
        <5> HIDE DEF g
        <5>4. g[s] = step[<<k, f[s \ {k}]>>]
          BY <4>2 DEF g
        <5> QED BY <5>1, <5>3, <5>4
      <4>3. CASE k \notin s
        <5>1. s \in SUBSET (1 .. m) /\ s \ {Max(s)} \in SUBSET (1 .. k) /\ k \notin s \ {Max(s)}
          BY <4>3, <2>4
        <5>2. g[s] = f[s] /\ g[s \ {Max(s)}] = f[s \ {Max(s)}]
          BY <4>3, <5>1, <2>4
        <5>3. s \ {Max(s)} \in SUBSET (1 .. m)
          BY <5>1
        <5>4. f[s \ {Max(s)}] \in X
          BY <2>1, <5>3
        <5>5. f[s] = step[<<Max(s), f[s \ {Max(s)}]>>]
          BY <2>1, <3>1, <5>1, <5>4 DEF FoldStep
        <5> HIDE DEF g
        <5> QED BY <5>2, <5>5
      <4> QED BY <4>2, <4>3
    <3>2. {} \in SUBSET (1 .. k) /\ {} \in SUBSET (1 .. m) /\ k \notin {}
      OBVIOUS
    <3>3. g[{}] = initial
      BY <3>2, <2>1, <2>4 DEF FoldStep
    <3> HIDE DEF g
    <3> QED BY <3>1, <3>3 DEF FoldStep
  <2> HIDE DEF g
  <2> QED BY <2>2, <2>5, <2>6
<1>3. 0 .. n \subseteq Good
  <2> HIDE DEF Good
  <2> QED BY <1>1, <1>2, UpTo
<1>4. n \in Good
  <2>1. n \in 0 .. n
    OBVIOUS
  <2> QED BY <1>3, <2>1
<1> QED BY <1>4

(* What an iteration over the sets of indices has gathered, index by index. *)
Gathered(acc, initial, step, n, X) ==
  /\ acc \in [0 .. n -> X]
  /\ acc[0] = initial
  /\ \A k \in 1 .. n : acc[k] = step[<<k, acc[k - 1]>>]

(* A function on the sets of indices up to n that folds the step over      *)
(* them.                                                                   *)
Folds(f, initial, step, n, X) ==
  n \in Nat /\ initial \in X /\ step \in [(1 .. n) \X X -> X] /\ FoldStep(f, initial, step, n, X)

(* On the whole range the fold is what has been gathered after its last    *)
(* index.                                                                  *)
LEMMA FoldGathers ==
  ASSUME NEW f, NEW initial, NEW step, NEW n, NEW X, Folds(f, initial, step, n, X)
  PROVE  \E acc : Gathered(acc, initial, step, n, X) /\ f[1 .. n] = acc[n]
<1> USE DEF Folds
<1> DEFINE acc == [k \in 0 .. n |-> f[1 .. k]]
           Good == {m \in 0 .. n : acc[m] \in X}
<1>0. 1 .. 0 = {}
  OBVIOUS
<1>1. acc[0] = initial
  <2>1. f[{}] = initial
    BY DEF FoldStep
  <2>2. acc[0] = f[1 .. 0]
    OBVIOUS
  <2> QED BY <2>1, <1>0, <2>2
<1>2. ASSUME NEW k \in 1 .. n, acc[k - 1] \in X PROVE acc[k] = step[<<k, acc[k - 1]>>]
  <2>1. 1 .. k \in SUBSET (1 .. n) /\ 1 .. k # {}
    OBVIOUS
  <2>2. Max(1 .. k) = k
    <3>1. Max(1 .. k) \in 1 .. k /\ \A x \in 1 .. k : x <= Max(1 .. k)
      BY <2>1, MaxFacts
    <3>2. k \in 1 .. k
      OBVIOUS
    <3> QED BY <3>1, <3>2
  <2>3. (1 .. k) \ {k} = 1 .. (k - 1)
    OBVIOUS
  <2>4. k \in 0 .. n /\ k - 1 \in 0 .. n
    OBVIOUS
  <2>5. f[1 .. (k - 1)] \in X
    BY <1>2, <2>4
  <2>6. f[1 .. k] = step[<<k, f[1 .. (k - 1)]>>]
    BY <2>1, <2>2, <2>3, <2>5 DEF FoldStep
  <2> QED BY <2>4, <2>6
<1>3. 0 .. n \subseteq Good
  <2>1. 0 \in Good
    BY <1>1
  <2>2. ASSUME NEW m \in 0 .. (n - 1), m \in Good PROVE m + 1 \in Good
    <3>1. m + 1 \in 1 .. n /\ (m + 1) - 1 = m
      OBVIOUS
    <3>2. acc[m] \in X
      BY <2>2
    <3> HIDE DEF acc
    <3>3. acc[m + 1] = step[<<m + 1, acc[m]>>]
      BY <1>2, <3>1, <3>2
    <3>4. <<m + 1, acc[m]>> \in (1 .. n) \X X
      BY <3>1, <3>2
    <3> QED BY <3>1, <3>3, <3>4
  <2> HIDE DEF Good
  <2> QED BY <2>1, <2>2, UpTo
<1>4. acc \in [0 .. n -> X]
  BY <1>3
<1>5. f[1 .. n] = acc[n]
  OBVIOUS
<1>6. \A k \in 1 .. n : acc[k] = step[<<k, acc[k - 1]>>]
  <2> TAKE k \in 1 .. n
  <2>1. k - 1 \in 0 .. n
    OBVIOUS
  <2>2. acc[k - 1] \in X
    BY <1>4, <2>1
  <2> HIDE DEF acc
  <2> QED BY <1>2, <2>2
<1> HIDE DEF acc
<1> QED BY <1>1, <1>4, <1>5, <1>6 DEF Gathered

-----------------------------------------------------------------------------
(***************************************************************************)
(* Lists of nodes                                                          *)
(***************************************************************************)
(* AppendNew keeps what is in the list where it is, adds the node unless   *)
(* it is there, and repeats nothing.                                       *)
LEMMA AppendNewFacts ==
  ASSUME NEW S, NEW nodes \in Seq(S), NEW node \in S
  PROVE  /\ AppendNew(nodes, node) \in Seq(S)
         /\ ToSet(AppendNew(nodes, node)) = ToSet(nodes) \cup {node}
         /\ IsInjective(nodes) => IsInjective(AppendNew(nodes, node))
         /\ Len(nodes) <= Len(AppendNew(nodes, node))
         /\ \A i \in 1 .. Len(nodes) : AppendNew(nodes, node)[i] = nodes[i]
<1>1. CASE node \in ToSet(nodes)
  <2>1. AppendNew(nodes, node) = nodes
    BY <1>1 DEF AppendNew
  <2> QED BY <1>1, <2>1
<1>2. CASE node \notin ToSet(nodes)
  <2>1. AppendNew(nodes, node) = Append(nodes, node)
    BY <1>2 DEF AppendNew
  <2>2. PICK long : long = Append(nodes, node)
    OBVIOUS
  <2>3. PICK n \in Nat : n = Len(nodes) /\ DOMAIN nodes = 1 .. n
    OBVIOUS
  <2>4. /\ long \in Seq(S) /\ Len(long) = n + 1 /\ DOMAIN long = 1 .. (n + 1)
        /\ long[n + 1] = node /\ \A i \in 1 .. n : long[i] = nodes[i]
    BY <2>2, <2>3
  <2>5. ToSet(long) = ToSet(nodes) \cup {node}
    <3>1. \A i \in 1 .. (n + 1) : i = n + 1 \/ i \in 1 .. n
      OBVIOUS
    <3>2. 1 .. n \subseteq 1 .. (n + 1) /\ n + 1 \in 1 .. (n + 1)
      OBVIOUS
    <3> QED BY <2>3, <2>4, <3>1, <3>2 DEF ToSet
  <2>6. ASSUME IsInjective(nodes) PROVE IsInjective(long)
    <3>1. \A i \in 1 .. n : nodes[i] # node
      BY <1>2, <2>3 DEF ToSet
    <3>2. \A i \in 1 .. (n + 1) : i = n + 1 \/ i \in 1 .. n
      OBVIOUS
    <3>3. \A a, b \in 1 .. n : nodes[a] = nodes[b] => a = b
      BY <2>6, <2>3 DEF IsInjective
    <3>4. SUFFICES ASSUME NEW a \in 1 .. (n + 1), NEW b \in 1 .. (n + 1), long[a] = long[b]
                   PROVE  a = b
      BY <2>4 DEF IsInjective
    <3> QED BY <2>4, <3>1, <3>2, <3>3, <3>4
  <2>7. Len(nodes) <= Len(long)
    BY <2>3, <2>4
  <2> QED BY <2>1, <2>2, <2>3, <2>4, <2>5, <2>6, <2>7
<1> QED BY <1>1, <1>2

(* Appending what is new of a path, one node after the other.              *)
Appending(acc, S, nodes, path) ==
  /\ acc \in [0 .. Len(path) -> Seq(S)]
  /\ acc[0] = nodes
  /\ \A k \in 1 .. Len(path) : acc[k] = AppendNew(acc[k - 1], path[k])

(* Folding AppendNew over a path appends its nodes one by one.             *)
LEMMA AppendsNew ==
  ASSUME NEW S, NEW nodes \in Seq(S), NEW path \in Seq(S)
  PROVE  \E acc : Appending(acc, S, nodes, path) /\ FoldLeft(AppendNew, nodes, path) = acc[Len(path)]
<1>1. PICK n \in Nat : n = Len(path) /\ DOMAIN path = 1 .. n
  OBVIOUS
<1> DEFINE X == Seq(S)
           step == [p \in (1 .. n) \X X |-> AppendNew(p[2], path[p[1]])]
           Iterates(f) == f = [s \in SUBSET (1 .. n) |->
                                 IF s = {} THEN nodes
                                 ELSE AppendNew(f[s \ {Max(s)}], path[Max(s)])]
           it == CHOOSE f : Iterates(f)
<1>2. FoldLeft(AppendNew, nodes, path) = it[1 .. n]
  BY <1>1 DEF FoldLeft, MapThenFoldSet
<1>3. \A i \in 1 .. n, x \in X : <<i, x>> \in (1 .. n) \X X /\ step[<<i, x>>] = AppendNew(x, path[i])
  OBVIOUS
<1>4. step \in [(1 .. n) \X X -> X]
  <2>1. \A p \in (1 .. n) \X X : AppendNew(p[2], path[p[1]]) \in X
    BY <1>1, AppendNewFacts
  <2> QED BY <2>1
<1> HIDE DEF step
<1>5. \A s \in SUBSET (1 .. n) : s # {} => Max(s) \in 1 .. n /\ s \ {Max(s)} \in SUBSET (1 .. n)
  BY MaxFacts
<1>6. \E f : Iterates(f)
  <2>1. PICK f \in [SUBSET (1 .. n) -> X] : FoldStep(f, nodes, step, n, X)
    BY <1>4, FoldExists
  <2>2. \A s \in SUBSET (1 .. n) :
          f[s] = IF s = {} THEN nodes ELSE AppendNew(f[s \ {Max(s)}], path[Max(s)])
    BY <2>1, <1>3, <1>5 DEF FoldStep
  <2>3. Iterates(f)
    BY <2>1, <2>2
  <2> QED BY <2>3
<1>7. Iterates(it)
  BY <1>6
<1> HIDE DEF it
<1>8. FoldStep(it, nodes, step, n, X)
  BY <1>7, <1>3, <1>5 DEF FoldStep
<1>9. PICK acc : Gathered(acc, nodes, step, n, X) /\ it[1 .. n] = acc[n]
  <2>1. Folds(it, nodes, step, n, X)
    BY <1>4, <1>8 DEF Folds
  <2> HIDE DEF X
  <2> QED BY <2>1, FoldGathers
<1>10. ASSUME NEW k \in 1 .. n PROVE acc[k] = AppendNew(acc[k - 1], path[k])
  <2>1. k - 1 \in 0 .. n
    OBVIOUS
  <2>2. acc[k - 1] \in X /\ acc[k] = step[<<k, acc[k - 1]>>]
    BY <1>9, <2>1 DEF Gathered
  <2> QED BY <1>3, <2>2
<1>11. Appending(acc, S, nodes, path)
  BY <1>1, <1>9, <1>10 DEF Appending, Gathered
<1> QED BY <1>1, <1>2, <1>9, <1>11

(* All of a path pushed: the nodes that were there stay in their places,   *)
(* those of the path are there too, and nothing is repeated.               *)
LEMMA AppendsAll ==
  ASSUME NEW S, NEW nodes \in Seq(S), NEW path \in Seq(S)
  PROVE  LET all == FoldLeft(AppendNew, nodes, path) IN
         /\ all \in Seq(S)
         /\ ToSet(all) = ToSet(nodes) \cup ToSet(path)
         /\ IsInjective(nodes) => IsInjective(all)
         /\ Len(nodes) <= Len(all)
         /\ \A i \in 1 .. Len(nodes) : all[i] = nodes[i]
<1>1. PICK acc : Appending(acc, S, nodes, path) /\ FoldLeft(AppendNew, nodes, path) = acc[Len(path)]
  BY AppendsNew
<1>2. PICK n \in Nat : n = Len(path) /\ DOMAIN path = 1 .. n
  OBVIOUS
<1> DEFINE Good ==
      {m \in 0 .. n : /\ ToSet(acc[m]) = ToSet(nodes) \cup {path[i] : i \in 1 .. m}
                      /\ IsInjective(nodes) => IsInjective(acc[m])
                      /\ Len(nodes) <= Len(acc[m])
                      /\ \A i \in 1 .. Len(nodes) : acc[m][i] = nodes[i]}
<1>3. 0 \in Good
  <2>1. acc[0] = nodes /\ 0 \in 0 .. n /\ 1 .. 0 = {}
    BY <1>1 DEF Appending
  <2> QED BY <2>1
<1>4. ASSUME NEW m \in 0 .. (n - 1), m \in Good PROVE m + 1 \in Good
  <2>1. m + 1 \in 1 .. n /\ m + 1 \in 0 .. n /\ m \in 0 .. n /\ (m + 1) - 1 = m /\ m \in Nat
    OBVIOUS
  <2>2. acc[m] \in Seq(S) /\ acc[m + 1] = AppendNew(acc[m], path[m + 1]) /\ path[m + 1] \in S
    BY <1>1, <1>2, <2>1 DEF Appending
  <2>3. PICK longer : longer = acc[m + 1]
    OBVIOUS
  <2>4. /\ longer \in Seq(S)
        /\ ToSet(longer) = ToSet(acc[m]) \cup {path[m + 1]}
        /\ IsInjective(acc[m]) => IsInjective(longer)
        /\ Len(acc[m]) <= Len(longer)
        /\ \A i \in 1 .. Len(acc[m]) : longer[i] = acc[m][i]
    <3>1. PICK short \in Seq(S) : short = acc[m]
      BY <2>2
    <3>2. PICK node \in S : node = path[m + 1]
      BY <2>2
    <3>3. longer = AppendNew(short, node)
      BY <2>2, <2>3, <3>1, <3>2
    <3>4. /\ longer \in Seq(S)
          /\ ToSet(longer) = ToSet(short) \cup {node}
          /\ IsInjective(short) => IsInjective(longer)
          /\ Len(short) <= Len(longer)
          /\ \A i \in 1 .. Len(short) : longer[i] = short[i]
      <4>1. /\ AppendNew(short, node) \in Seq(S)
            /\ ToSet(AppendNew(short, node)) = ToSet(short) \cup {node}
            /\ IsInjective(short) => IsInjective(AppendNew(short, node))
            /\ Len(short) <= Len(AppendNew(short, node))
            /\ \A i \in 1 .. Len(short) : AppendNew(short, node)[i] = short[i]
        BY AppendNewFacts
      <4> QED BY <3>3, <4>1
    <3> QED BY <3>1, <3>2, <3>4
  <2>5. {path[i] : i \in 1 .. (m + 1)} = {path[i] : i \in 1 .. m} \cup {path[m + 1]}
    <3>1. 1 .. (m + 1) = (1 .. m) \cup {m + 1}
      BY <2>1
    <3> QED BY <3>1
  <2>6. ToSet(longer) = ToSet(nodes) \cup {path[i] : i \in 1 .. (m + 1)}
    BY <1>4, <2>4, <2>5
  <2>7. Len(nodes) <= Len(longer) /\ 1 .. Len(nodes) \subseteq 1 .. Len(acc[m])
    BY <1>4, <2>2, <2>4
  <2>8. \A i \in 1 .. Len(nodes) : longer[i] = nodes[i]
    BY <1>4, <2>4, <2>7
  <2> QED BY <1>4, <2>1, <2>3, <2>4, <2>6, <2>7, <2>8
<1>5. n \in Good
  <2>1. n \in 0 .. n
    OBVIOUS
  <2> HIDE DEF Good
  <2> QED BY <1>3, <1>4, <2>1, UpTo
<1>6. ToSet(path) = {path[i] : i \in 1 .. n}
  BY <1>2 DEF ToSet
<1>7. acc[n] \in Seq(S)
  BY <1>1, <1>2 DEF Appending
<1> QED BY <1>1, <1>2, <1>5, <1>6, <1>7

-----------------------------------------------------------------------------
(***************************************************************************)
(* The walk up a scene                                                     *)
(***************************************************************************)
(* One step of the walk up: to the parent of the path's last node, if it   *)
(* has one and the walk has not stopped before.                            *)
OneUp(source, path, steps) ==
  LET next == Parent(source, path[Len(path)]) IN
  IF next < 0 \/ Len(path) < steps THEN path ELSE Append(path, next)

(* The walk of so many steps, as Ancestry defines it.                      *)
Climbs(f, n, source, start) ==
  f = [steps \in 0 .. n |-> IF steps = 0 THEN <<start>> ELSE OneUp(source, f[steps - 1], steps)]

(* The walk exists for every number of steps.                              *)
LEMMA ClimbExists ==
  ASSUME NEW source, NEW start, NEW n \in Nat
  PROVE  \E f : Climbs(f, n, source, start)
<1> DEFINE Good == {m \in 0 .. n : \E f : Climbs(f, m, source, start)}
<1>1. 0 \in Good
  <2>1. PICK f : f = [steps \in 0 .. 0 |-> <<start>>]
    OBVIOUS
  <2>2. f = [steps \in 0 .. 0 |-> IF steps = 0 THEN <<start>> ELSE OneUp(source, f[steps - 1], steps)]
    BY <2>1
  <2>3. Climbs(f, 0, source, start)
    BY <2>2 DEF Climbs
  <2> QED BY <2>3
<1>2. ASSUME NEW m \in 0 .. (n - 1), m \in Good PROVE m + 1 \in Good
  <2>1. PICK f : Climbs(f, m, source, start)
    BY <1>2
  <2>2. \A steps \in 0 .. m :
          f[steps] = IF steps = 0 THEN <<start>> ELSE OneUp(source, f[steps - 1], steps)
    BY <2>1 DEF Climbs
  <2>3. PICK k : k = m + 1 /\ k \in 1 .. n /\ k \in 0 .. n /\ k - 1 = m
    OBVIOUS
  <2>4. PICK g : g = [steps \in 0 .. k |-> IF steps = k THEN OneUp(source, f[m], k) ELSE f[steps]]
    OBVIOUS
  <2>5. ASSUME NEW steps \in 0 .. k
        PROVE  g[steps] = IF steps = 0 THEN <<start>> ELSE OneUp(source, g[steps - 1], steps)
    <3>1. CASE steps = k
      <4>1. g[k] = OneUp(source, f[m], k) /\ g[m] = f[m] /\ k # 0
        BY <2>3, <2>4
      <4> QED BY <2>3, <3>1, <4>1
    <3>2. CASE steps # k /\ steps # 0
      <4>1. steps \in 0 .. m /\ steps - 1 \in 0 .. k /\ steps - 1 # k
        BY <2>3, <3>2
      <4>2. g[steps] = f[steps] /\ g[steps - 1] = f[steps - 1]
        BY <2>4, <3>2, <4>1
      <4> QED BY <2>2, <3>2, <4>1, <4>2
    <3>3. CASE steps # k /\ steps = 0
      <4>1. steps \in 0 .. m /\ g[steps] = f[steps]
        BY <2>3, <2>4, <3>3
      <4> QED BY <2>2, <3>3, <4>1
    <3> QED BY <3>1, <3>2, <3>3
  <2>6. Climbs(g, k, source, start)
    BY <2>4, <2>5 DEF Climbs
  <2> QED BY <2>3, <2>6
<1>3. n \in Good
  <2>1. n \in 0 .. n
    OBVIOUS
  <2> HIDE DEF Good
  <2> QED BY <1>1, <1>2, <2>1, UpTo
<1> QED BY <1>3

(* Ancestry is the walk of as many steps as the scene has nodes.           *)
LEMMA AncestryClimbs ==
  ASSUME NEW source, NEW start, Len(source.nodes) \in Nat
  PROVE  \E f : Climbs(f, Len(source.nodes), source, start)
                /\ Ancestry(source, start) = f[Len(source.nodes)]
<1>1. PICK n \in Nat : n = Len(source.nodes)
  OBVIOUS
<1>2. PICK f : f = CHOOSE walk : Climbs(walk, n, source, start)
  OBVIOUS
<1>3. Climbs(f, n, source, start)
  BY <1>2, ClimbExists
<1>4. Ancestry(source, start) = f[n]
  BY <1>1, <1>2 DEF Ancestry, Climbs, OneUp
<1> QED BY <1>1, <1>3, <1>4

(* A document whose lists are lists and whose hierarchy agrees.            *)
Sound(source) == IsScene(source) /\ HierarchyAgrees(source)

(* A node is found by its number, and its parent is a node of the scene or *)
(* -1.                                                                     *)
LEMMA NodeFacts ==
  ASSUME NEW source, Sound(source)
  PROVE  /\ Len(source.nodes) \in Nat /\ DOMAIN source.nodes = 1 .. Len(source.nodes)
         /\ NodeIndices(source) \subseteq Nat
         /\ \A i \in DOMAIN source.nodes :
              /\ source.nodes[i].nodeIndex \in NodeIndices(source)
              /\ Node(source, source.nodes[i].nodeIndex) = source.nodes[i]
         /\ \A n \in NodeIndices(source) :
              /\ Node(source, n).nodeIndex = n
              /\ Parent(source, n) \in {-1} \cup NodeIndices(source)
<1>1. Len(source.nodes) \in Nat /\ DOMAIN source.nodes = 1 .. Len(source.nodes)
  BY SequenceFacts DEF Sound, IsScene
<1>2. NodeIndices(source) \subseteq Nat
  BY DEF Sound, IsScene, NodeIndices
<1>3. ASSUME NEW i \in DOMAIN source.nodes
      PROVE  Node(source, source.nodes[i].nodeIndex) = source.nodes[i]
  <2>1. PICK T : T = {k \in DOMAIN source.nodes : source.nodes[k].nodeIndex = source.nodes[i].nodeIndex}
    OBVIOUS
  <2>2. T = {i}
    BY <2>1 DEF Sound, HierarchyAgrees
  <2>3. Min(T) = i
    <3>1. T \subseteq Nat /\ T # {}
      BY <1>1, <2>2
    <3> QED BY <2>2, <3>1, MinFacts
  <2> QED BY <2>1, <2>3 DEF Node
<1>4. ASSUME NEW n \in NodeIndices(source)
      PROVE  /\ Node(source, n).nodeIndex = n
             /\ Parent(source, n) \in {-1} \cup NodeIndices(source)
  <2>1. PICK i \in DOMAIN source.nodes : n = source.nodes[i].nodeIndex
    BY DEF NodeIndices
  <2>2. Node(source, n) = source.nodes[i]
    BY <1>3, <2>1
  <2>3. source.nodes[i].parentNodeIndex \in {-1} \cup NodeIndices(source)
    BY <2>1 DEF Sound, HierarchyAgrees
  <2> QED BY <2>1, <2>2, <2>3 DEF Parent
<1> QED BY <1>1, <1>2, <1>3, <1>4 DEF NodeIndices

(* A walk from a node towards the root, every node the parent of the last. *)
WalkUp(source, start, path) ==
  /\ path \in Seq(NodeIndices(source))
  /\ Len(path) >= 1
  /\ path[1] = start
  /\ \A i \in 1 .. (Len(path) - 1) : Parent(source, path[i]) = path[i + 1]

(* A step of the walk keeps it a walk, and one that has stopped stands at  *)
(* a root.                                                                 *)
LEMMA OneUpFacts ==
  ASSUME NEW source, Sound(source), NEW start, NEW path, WalkUp(source, start, path),
         NEW k \in Nat, Len(path) <= k + 1,
         Len(path) <= k => Parent(source, path[Len(path)]) = -1
  PROVE  LET next == OneUp(source, path, k + 1) IN
         /\ WalkUp(source, start, next)
         /\ Len(next) <= k + 2
         /\ Len(next) <= k + 1 => Parent(source, next[Len(next)]) = -1
<1>1. PICK n \in Nat : n = Len(path) /\ DOMAIN path = 1 .. n /\ n >= 1
  BY DEF WalkUp
<1>2. path[n] \in NodeIndices(source)
  BY <1>1 DEF WalkUp
<1>3. PICK up : up = Parent(source, path[n])
  OBVIOUS
<1>4. up \in {-1} \cup NodeIndices(source) /\ NodeIndices(source) \subseteq Nat
  BY <1>2, <1>3, NodeFacts
<1>5. CASE up < 0 \/ n < k + 1
  <2>1. OneUp(source, path, k + 1) = path
    BY <1>1, <1>3, <1>5 DEF OneUp
  <2>2. n <= k + 1 => up = -1
    <3>1. CASE up < 0
      BY <1>4, <3>1
    <3>2. CASE n < k + 1
      BY <1>1, <1>3, <3>2
    <3> QED BY <1>5, <3>1, <3>2
  <2> QED BY <1>1, <1>3, <2>1, <2>2
<1>6. CASE ~(up < 0 \/ n < k + 1)
  <2>1. OneUp(source, path, k + 1) = Append(path, up)
    BY <1>1, <1>3, <1>6 DEF OneUp
  <2>2. up \in NodeIndices(source) /\ n = k + 1
    BY <1>1, <1>4, <1>6
  <2>3. PICK long : long = Append(path, up)
    OBVIOUS
  <2>4. /\ long \in Seq(NodeIndices(source)) /\ Len(long) = n + 1
        /\ long[n + 1] = up /\ \A i \in 1 .. n : long[i] = path[i]
    BY <1>1, <2>2, <2>3 DEF WalkUp
  <2>5. ASSUME NEW i \in 1 .. n PROVE Parent(source, long[i]) = long[i + 1]
    <3>1. CASE i = n
      BY <1>3, <2>4, <3>1
    <3>2. CASE i # n
      <4>1. i \in 1 .. (n - 1) /\ i + 1 \in 1 .. n
        BY <1>1, <3>2
      <4>2. Parent(source, path[i]) = path[i + 1]
        BY <1>1, <4>1 DEF WalkUp
      <4> QED BY <2>4, <4>1, <4>2
    <3> QED BY <3>1, <3>2
  <2>6. WalkUp(source, start, long)
    <3>1. 1 \in 1 .. n /\ (n + 1) - 1 = n /\ n + 1 >= 1
      BY <1>1
    <3>2. long[1] = start
      BY <2>4, <3>1 DEF WalkUp
    <3> QED BY <2>4, <2>5, <3>1, <3>2 DEF WalkUp
  <2>7. Len(long) <= k + 2 /\ ~ (Len(long) <= k + 1)
    BY <2>2, <2>4
  <2>8. OneUp(source, path, k + 1) = long
    BY <2>1, <2>3
  <2> QED BY <2>6, <2>7, <2>8
<1> QED BY <1>5, <1>6

(* Ancestry is a walk up, at most one node longer than the scene has       *)
(* nodes; a shorter one ends at a root.                                    *)
LEMMA AncestryFacts ==
  ASSUME NEW source, Sound(source), NEW start \in NodeIndices(source)
  PROVE  /\ WalkUp(source, start, Ancestry(source, start))
         /\ Len(Ancestry(source, start)) <= Len(source.nodes) + 1
         /\ Len(Ancestry(source, start)) <= Len(source.nodes) =>
              Parent(source, Ancestry(source, start)[Len(Ancestry(source, start))]) = -1
<1>1. PICK n \in Nat : n = Len(source.nodes)
  BY NodeFacts
<1>2. PICK f : Climbs(f, n, source, start) /\ Ancestry(source, start) = f[n]
  BY <1>1, AncestryClimbs
<1>3. \A k \in 0 .. n : f[k] = IF k = 0 THEN <<start>> ELSE OneUp(source, f[k - 1], k)
  BY <1>2 DEF Climbs
<1> DEFINE Good == {k \in 0 .. n : /\ WalkUp(source, start, f[k])
                                   /\ Len(f[k]) <= k + 1
                                   /\ Len(f[k]) <= k => Parent(source, f[k][Len(f[k])]) = -1}
<1>4. 0 \in Good
  <2>1. f[0] = <<start>> /\ 0 \in 0 .. n
    BY <1>3
  <2>2. Len(f[0]) = 1 /\ f[0][1] = start /\ f[0] \in Seq(NodeIndices(source))
    BY <2>1
  <2>3. WalkUp(source, start, f[0])
    BY <2>2 DEF WalkUp
  <2>4. Len(f[0]) <= 0 + 1 /\ ~ (Len(f[0]) <= 0)
    BY <2>2
  <2> QED BY <2>1, <2>3, <2>4
<1>5. ASSUME NEW k \in 0 .. (n - 1), k \in Good PROVE k + 1 \in Good
  <2>1. k + 1 \in 0 .. n /\ k + 1 # 0 /\ (k + 1) - 1 = k /\ k \in Nat
    OBVIOUS
  <2>2. f[k + 1] = OneUp(source, f[k], k + 1)
    BY <1>3, <2>1
  <2>3. PICK path : path = f[k]
    OBVIOUS
  <2>4. /\ WalkUp(source, start, path) /\ Len(path) <= k + 1
        /\ Len(path) <= k => Parent(source, path[Len(path)]) = -1
    BY <1>5, <2>3
  <2>5. PICK next : next = OneUp(source, path, k + 1)
    OBVIOUS
  <2>6. /\ WalkUp(source, start, next)
        /\ Len(next) <= k + 2
        /\ Len(next) <= k + 1 => Parent(source, next[Len(next)]) = -1
    BY <2>1, <2>4, <2>5, OneUpFacts
  <2>7. f[k + 1] = next /\ k + 2 = (k + 1) + 1
    BY <2>1, <2>2, <2>3, <2>5
  <2> QED BY <2>1, <2>6, <2>7
<1>6. n \in Good
  <2>1. n \in 0 .. n
    OBVIOUS
  <2> HIDE DEF Good
  <2> QED BY <1>4, <1>5, <2>1, UpTo
<1> QED BY <1>1, <1>2, <1>6

(* A list with more nodes than the scene has names some node twice.        *)
LEMMA Crowded ==
  ASSUME NEW source, Sound(source), NEW p \in Seq(NodeIndices(source)),
         Len(p) > Len(source.nodes)
  PROVE  \E x, y \in 1 .. Len(p) : x < y /\ p[x] = p[y]
<1>1. PICK n \in Nat : n = Len(source.nodes) /\ DOMAIN source.nodes = 1 .. n
  BY NodeFacts
<1>2. PICK m \in Nat : m = Len(p) /\ m > n
  BY <1>1
<1> DEFINE f == [i \in 1 .. m |-> CHOOSE k \in 1 .. n : source.nodes[k].nodeIndex = p[i]]
<1>3. \A i \in 1 .. m : f[i] \in 1 .. n /\ source.nodes[f[i]].nodeIndex = p[i]
  <2> TAKE i \in 1 .. m
  <2>1. p[i] \in NodeIndices(source)
    BY <1>2
  <2>2. \E k \in 1 .. n : source.nodes[k].nodeIndex = p[i]
    BY <1>1, <2>1 DEF NodeIndices
  <2> QED BY <2>2
<1>4. f \in [1 .. m -> 1 .. n]
  BY <1>3
<1>5. /\ IsFiniteSet(1 .. m) /\ Cardinality(1 .. m) = m
      /\ IsFiniteSet(1 .. n) /\ Cardinality(1 .. n) = n
  <2>1. \A k \in Nat : IsFiniteSet(1 .. k) /\ Cardinality(1 .. k) = k
    <3> TAKE k \in Nat
    <3>1. 1 \in Int /\ k \in Int
      OBVIOUS
    <3>2. IsFiniteSet(1 .. k) /\ Cardinality(1 .. k) = IF 1 > k THEN 0 ELSE k - 1 + 1
      BY <3>1, FS_Interval
    <3> QED BY <3>2
  <2> QED BY <1>1, <1>2, <2>1
<1>6. Cardinality(1 .. n) < Cardinality(1 .. m)
  BY <1>2, <1>5
<1>7. PICK x \in 1 .. m, y \in 1 .. m : x # y /\ f[x] = f[y]
  <2> HIDE DEF f
  <2> QED BY <1>4, <1>5, <1>6, FS_PigeonHole
<1>8. p[x] = p[y]
  <2> HIDE DEF f
  <2> QED BY <1>3, <1>7
<1>9. CASE x < y
  BY <1>2, <1>8, <1>9
<1>10. CASE y < x
  BY <1>2, <1>8, <1>10
<1> QED BY <1>7, <1>9, <1>10

(* A walk that comes back to a node comes back to its last one.            *)
LEMMA Repeats ==
  ASSUME NEW source, NEW start, NEW path, WalkUp(source, start, path),
         NEW n \in Nat, n = Len(path), NEW x \in 1 .. n, NEW y \in 1 .. n, x < y,
         path[x] = path[y]
  PROVE  \E z \in 1 .. (n - 1) : path[z] = path[n]
<1>1. PICK d \in Nat : d = n - y
  <2>1. n - y \in Nat
    OBVIOUS
  <2> QED BY <2>1
<1>2. \A i \in 1 .. (n - 1) : Parent(source, path[i]) = path[i + 1]
  BY DEF WalkUp
<1> DEFINE Good == {m \in 0 .. d : path[x + m] = path[y + m]}
<1>3. 0 \in Good
  BY <1>1
<1>4. ASSUME NEW m \in 0 .. (d - 1), m \in Good PROVE m + 1 \in Good
  <2>1. x + m \in 1 .. (n - 1) /\ y + m \in 1 .. (n - 1)
    BY <1>1
  <2>2. path[(x + m) + 1] = path[(y + m) + 1]
    BY <1>2, <1>4, <2>1
  <2>3. (x + m) + 1 = x + (m + 1) /\ (y + m) + 1 = y + (m + 1) /\ m + 1 \in 0 .. d
    BY <1>1
  <2> QED BY <2>2, <2>3
<1>5. d \in Good
  <2>1. d \in 0 .. d
    BY <1>1
  <2> HIDE DEF Good
  <2> QED BY <1>1, <1>3, <1>4, <2>1, UpTo
<1>6. path[x + d] = path[n] /\ x + d \in 1 .. (n - 1)
  BY <1>1, <1>5
<1> QED BY <1>6

(* Whoever is in the nodes has a parent in them or none.                   *)
ClosedUp(source, nodes) ==
  \A n \in nodes : Parent(source, n) \in {-1} \cup nodes

(* A walk up ends at a root, or it turns in a circle; either way no parent *)
(* is missing from it.                                                     *)
LEMMA AncestryClosed ==
  ASSUME NEW source, Sound(source), NEW start \in NodeIndices(source)
  PROVE  /\ Ancestry(source, start) \in Seq(NodeIndices(source))
         /\ start \in ToSet(Ancestry(source, start))
         /\ ClosedUp(source, ToSet(Ancestry(source, start)))
<1>1. PICK path : path = Ancestry(source, start)
  OBVIOUS
<1>2. /\ WalkUp(source, start, path)
      /\ Len(path) <= Len(source.nodes) + 1
      /\ Len(path) <= Len(source.nodes) => Parent(source, path[Len(path)]) = -1
  BY <1>1, AncestryFacts
<1>3. PICK n \in Nat : n = Len(path) /\ n >= 1 /\ DOMAIN path = 1 .. n
  BY <1>2 DEF WalkUp
<1>4. Len(source.nodes) \in Nat
  BY NodeFacts
<1>5. path \in Seq(NodeIndices(source)) /\ path[1] = start /\ 1 \in 1 .. n
      /\ \A i \in 1 .. (n - 1) : Parent(source, path[i]) = path[i + 1]
  BY <1>2, <1>3 DEF WalkUp
<1>6. Parent(source, path[n]) \in {-1} \cup ToSet(path)
  <2>1. CASE n <= Len(source.nodes)
    BY <1>2, <1>3, <2>1
  <2>2. CASE n > Len(source.nodes)
    <3>1. PICK x \in 1 .. n, y \in 1 .. n : x < y /\ path[x] = path[y]
      BY <1>3, <1>5, <2>2, Crowded
    <3>2. PICK z \in 1 .. (n - 1) : path[z] = path[n]
      BY <1>2, <1>3, <3>1, Repeats
    <3>3. Parent(source, path[n]) = path[z + 1] /\ z + 1 \in 1 .. n
      BY <1>3, <1>5, <3>2
    <3> QED BY <1>3, <3>3 DEF ToSet
  <2> QED BY <1>3, <1>4, <2>1, <2>2
<1>7. ASSUME NEW i \in 1 .. n PROVE Parent(source, path[i]) \in {-1} \cup ToSet(path)
  <2>1. CASE i = n
    BY <1>6, <2>1
  <2>2. CASE i # n
    <3>1. i \in 1 .. (n - 1) /\ i + 1 \in 1 .. n
      BY <1>3, <2>2
    <3> QED BY <1>3, <1>5, <3>1 DEF ToSet
  <2> QED BY <2>1, <2>2
<1>8. ClosedUp(source, ToSet(path))
  BY <1>3, <1>7 DEF ClosedUp, ToSet
<1>9. start \in ToSet(path)
  BY <1>3, <1>5 DEF ToSet
<1> QED BY <1>1, <1>5, <1>8, <1>9

(* Lists of nodes without repetitions.                                     *)
Lists(source) == {nodes \in Seq(NodeIndices(source)) : IsInjective(nodes)}

(* The node and its ancestors.                                             *)
Up(source, start) == ToSet(Ancestry(source, start))

(* includeAncestors adds the node and its ancestors, and moves nothing.    *)
LEMMA WithAncestorsFacts ==
  ASSUME NEW source, Sound(source), NEW nodes \in Lists(source),
         NEW start \in NodeIndices(source)
  PROVE  /\ WithAncestors(source, nodes, start) \in Lists(source)
         /\ ToSet(WithAncestors(source, nodes, start)) = ToSet(nodes) \cup Up(source, start)
         /\ Len(nodes) <= Len(WithAncestors(source, nodes, start))
         /\ \A i \in 1 .. Len(nodes) : WithAncestors(source, nodes, start)[i] = nodes[i]
<1>1. PICK path : path = Ancestry(source, start)
  OBVIOUS
<1>2. path \in Seq(NodeIndices(source)) /\ nodes \in Seq(NodeIndices(source)) /\ IsInjective(nodes)
  BY <1>1, AncestryClosed DEF Lists
<1>3. PICK all : all = FoldLeft(AppendNew, nodes, path)
  OBVIOUS
<1>4. /\ all \in Seq(NodeIndices(source))
      /\ ToSet(all) = ToSet(nodes) \cup ToSet(path)
      /\ IsInjective(nodes) => IsInjective(all)
      /\ Len(nodes) <= Len(all)
      /\ \A i \in 1 .. Len(nodes) : all[i] = nodes[i]
  BY <1>2, <1>3, AppendsAll
<1>5. WithAncestors(source, nodes, start) = all
  BY <1>1, <1>3 DEF WithAncestors
<1>6. all \in Lists(source)
  BY <1>2, <1>4 DEF Lists
<1>7. ToSet(all) = ToSet(nodes) \cup Up(source, start)
  BY <1>1, <1>4 DEF Up
<1> QED BY <1>4, <1>5, <1>6, <1>7

-----------------------------------------------------------------------------
(***************************************************************************)
(* The posed nodes of a skin                                               *)
(***************************************************************************)
(* Going through a list, a loop keeps what is wanted.                      *)
Keeping(acc, list, wanted) ==
  /\ acc \in [0 .. Len(list) -> Seq(ToSet(list) \cap wanted)]
  /\ acc[0] = << >>
  /\ \A k \in 1 .. Len(list) :
       acc[k] = IF list[k] \in wanted THEN Append(acc[k - 1], list[k]) ELSE acc[k - 1]

(* Those goes through the list from its first element to its last.         *)
LEMMA ThoseSteps ==
  ASSUME NEW S, NEW list \in Seq(S), NEW wanted
  PROVE  \E acc : Keeping(acc, list, wanted) /\ Those(list, wanted) = acc[Len(list)]
<1> DEFINE B == ToSet(list) \cap wanted
           X == Seq(B)
           Keep(kept, element) == IF element \in wanted THEN Append(kept, element) ELSE kept
<1>1. PICK n \in Nat : n = Len(list) /\ DOMAIN list = 1 .. n
  OBVIOUS
<1> DEFINE step == [p \in (1 .. n) \X X |-> Keep(p[2], list[p[1]])]
           Iterates(f) == f = [s \in SUBSET (1 .. n) |->
                                 IF s = {} THEN << >>
                                 ELSE Keep(f[s \ {Max(s)}], list[Max(s)])]
           it == CHOOSE f : Iterates(f)
<1>2. Those(list, wanted) = it[1 .. n]
  BY <1>1 DEF Those, FoldLeft, MapThenFoldSet
<1>3. \A i \in 1 .. n, x \in X : <<i, x>> \in (1 .. n) \X X /\ step[<<i, x>>] = Keep(x, list[i])
  OBVIOUS
<1>4. step \in [(1 .. n) \X X -> X]
  <2>1. \A i \in 1 .. n, x \in X : Keep(x, list[i]) \in X
    <3> TAKE i \in 1 .. n, x \in X
    <3>1. list[i] \in wanted => list[i] \in B
      BY <1>1 DEF ToSet
    <3> QED BY <3>1
  <2> QED BY <2>1
<1> HIDE DEF step
<1>5. \A s \in SUBSET (1 .. n) : s # {} => Max(s) \in 1 .. n /\ s \ {Max(s)} \in SUBSET (1 .. n)
  BY MaxFacts
<1>6. << >> \in X
  OBVIOUS
<1>7. \E f : Iterates(f)
  <2>1. PICK f \in [SUBSET (1 .. n) -> X] : FoldStep(f, << >>, step, n, X)
    BY <1>4, <1>6, FoldExists
  <2> HIDE DEF Keep, X
  <2>2. \A s \in SUBSET (1 .. n) :
          f[s] = IF s = {} THEN << >> ELSE Keep(f[s \ {Max(s)}], list[Max(s)])
    BY <2>1, <1>3, <1>5 DEF FoldStep
  <2>3. Iterates(f)
    BY <2>1, <2>2
  <2> QED BY <2>3
<1>8. Iterates(it)
  BY <1>7
<1> HIDE DEF it
<1>9. Folds(it, << >>, step, n, X)
  <2> HIDE DEF Keep, X
  <2>1. FoldStep(it, << >>, step, n, X)
    BY <1>8, <1>3, <1>5 DEF FoldStep
  <2> QED BY <2>1, <1>4, <1>6 DEF Folds
<1>10. PICK acc : Gathered(acc, << >>, step, n, X) /\ it[1 .. n] = acc[n]
  <2> HIDE DEF X
  <2> QED BY <1>9, FoldGathers
<1>11. ASSUME NEW k \in 1 .. n PROVE acc[k] = Keep(acc[k - 1], list[k])
  <2>1. k - 1 \in 0 .. n
    OBVIOUS
  <2> HIDE DEF Keep, X
  <2>2. acc[k - 1] \in X /\ acc[k] = step[<<k, acc[k - 1]>>]
    BY <1>10, <2>1 DEF Gathered
  <2> QED BY <1>3, <2>2
<1>12. Keeping(acc, list, wanted)
  <2>1. acc \in [0 .. n -> X] /\ acc[0] = << >>
    <3> HIDE DEF X
    <3> QED BY <1>10 DEF Gathered
  <2> QED BY <1>1, <1>11, <2>1 DEF Keeping
<1> QED BY <1>1, <1>2, <1>10, <1>12

(* What is kept are the wanted elements of the list, none of them more     *)
(* often than in the list.                                                 *)
LEMMA ThoseFacts ==
  ASSUME NEW S, NEW list \in Seq(S), NEW wanted
  PROVE  LET kept == Those(list, wanted) IN
         /\ kept \in Seq(ToSet(list) \cap wanted)
         /\ ToSet(kept) = ToSet(list) \cap wanted
         /\ IsInjective(list) => IsInjective(kept)
<1>1. PICK acc : Keeping(acc, list, wanted) /\ Those(list, wanted) = acc[Len(list)]
  BY ThoseSteps
<1>2. PICK n \in Nat : n = Len(list) /\ DOMAIN list = 1 .. n
  OBVIOUS
<1> DEFINE Good == {m \in 0 .. n : /\ ToSet(acc[m]) = {list[i] : i \in 1 .. m} \cap wanted
                                   /\ IsInjective(list) => IsInjective(acc[m])}
<1>3. 0 \in Good
  <2>1. acc[0] = << >> /\ 0 \in 0 .. n /\ 1 .. 0 = {} /\ DOMAIN << >> = {}
    BY <1>1 DEF Keeping
  <2> QED BY <2>1 DEF ToSet, IsInjective
<1>4. ASSUME NEW m \in 0 .. (n - 1), m \in Good PROVE m + 1 \in Good
  <2>1. m + 1 \in 1 .. n /\ m + 1 \in 0 .. n /\ m \in 0 .. n /\ (m + 1) - 1 = m /\ m \in Nat
    OBVIOUS
  <2>2. PICK short \in Seq(ToSet(list) \cap wanted) : short = acc[m]
    BY <1>1, <1>2, <2>1 DEF Keeping
  <2>3. PICK element : element = list[m + 1]
    OBVIOUS
  <2>4. acc[m + 1] = IF element \in wanted THEN Append(short, element) ELSE short
    BY <1>1, <1>2, <2>1, <2>2, <2>3 DEF Keeping
  <2>5. {list[i] : i \in 1 .. (m + 1)} = {list[i] : i \in 1 .. m} \cup {element}
    <3>1. 1 .. (m + 1) = (1 .. m) \cup {m + 1}
      BY <2>1
    <3> QED BY <2>3, <3>1
  <2>6. ToSet(short) = {list[i] : i \in 1 .. m} \cap wanted
        /\ (IsInjective(list) => IsInjective(short))
    BY <1>4, <2>2
  <2>7. CASE element \notin wanted
    BY <2>1, <2>4, <2>5, <2>6, <2>7
  <2>8. CASE element \in wanted
    <3>1. PICK long : long = Append(short, element)
      OBVIOUS
    <3>2. element \in ToSet(list) \cap wanted
      BY <1>2, <2>1, <2>3, <2>8 DEF ToSet
    <3>3. PICK l \in Nat : l = Len(short) /\ DOMAIN short = 1 .. l
      OBVIOUS
    <3>4. /\ Len(long) = l + 1 /\ DOMAIN long = 1 .. (l + 1)
          /\ long[l + 1] = element /\ \A i \in 1 .. l : long[i] = short[i]
      BY <3>1, <3>2, <3>3
    <3>5. ToSet(long) = ToSet(short) \cup {element}
      <4>1. \A i \in 1 .. (l + 1) : i = l + 1 \/ i \in 1 .. l
        OBVIOUS
      <4>2. 1 .. l \subseteq 1 .. (l + 1) /\ l + 1 \in 1 .. (l + 1)
        OBVIOUS
      <4> QED BY <3>3, <3>4, <4>1, <4>2 DEF ToSet
    <3>6. ASSUME IsInjective(list) PROVE IsInjective(long)
      <4>1. element \notin ToSet(short)
        <5>1. \A i \in 1 .. m : i \in 1 .. n /\ i # m + 1
          BY <2>1
        <5> QED BY <1>2, <2>1, <2>3, <2>6, <3>6, <5>1 DEF IsInjective
      <4>2. \A i \in 1 .. l : short[i] # element
        BY <3>3, <4>1 DEF ToSet
      <4>3. \A i \in 1 .. (l + 1) : i = l + 1 \/ i \in 1 .. l
        OBVIOUS
      <4>4. \A a, b \in 1 .. l : short[a] = short[b] => a = b
        BY <2>6, <3>3, <3>6 DEF IsInjective
      <4>5. SUFFICES ASSUME NEW a \in 1 .. (l + 1), NEW b \in 1 .. (l + 1), long[a] = long[b]
                     PROVE  a = b
        BY <3>4 DEF IsInjective
      <4> QED BY <3>4, <4>2, <4>3, <4>4, <4>5
    <3>7. ToSet(long) = {list[i] : i \in 1 .. (m + 1)} \cap wanted
      BY <2>5, <2>6, <2>8, <3>5
    <3> QED BY <2>1, <2>4, <2>8, <3>1, <3>6, <3>7
  <2> QED BY <2>7, <2>8
<1>5. n \in Good
  <2>1. n \in 0 .. n
    OBVIOUS
  <2> HIDE DEF Good
  <2> QED BY <1>3, <1>4, <2>1, UpTo
<1>6. ToSet(list) = {list[i] : i \in 1 .. n}
  BY <1>2 DEF ToSet
<1>7. acc[n] \in Seq(ToSet(list) \cap wanted)
  BY <1>1, <1>2 DEF Keeping
<1> QED BY <1>1, <1>2, <1>5, <1>6, <1>7

(* The sockets bound to a skin are the nodes marked as sockets that are at *)
(* or under a joint of its.                                                *)
LEMMA BoundSocketsFacts ==
  ASSUME NEW source, Sound(source), NEW skin
  PROVE  LET bound == {node \in ToSet(source.nodes) : Attached(source, skin, node)} IN
         /\ BoundSockets(source, skin) \in Seq(bound)
         /\ ToSet(BoundSockets(source, skin)) = bound
<1>1. PICK bound : bound = {node \in ToSet(source.nodes) : Attached(source, skin, node)}
  OBVIOUS
<1>2. source.nodes \in Seq(ToSet(source.nodes))
  BY DEF Sound, IsScene, IsSequence
<1>3. ToSet(source.nodes) \cap bound = bound
  BY <1>1
<1>4. BoundSockets(source, skin) = Those(source.nodes, bound)
  BY <1>1 DEF BoundSockets
<1> QED BY <1>1, <1>2, <1>3, <1>4, ThoseFacts

(* A skin whose palette names nodes of the document, each of them once.    *)
SoundSkin(source, skin) == IsSequence(skin.joints) /\ PaletteIsSound(source, skin)

(* A skin's palette is a list of nodes of the scene without repetitions,   *)
(* in the order of its joints.                                             *)
LEMMA PaletteFacts ==
  ASSUME NEW source, Sound(source), NEW skin, SoundSkin(source, skin)
  PROVE  /\ Palette(skin) \in Lists(source)
         /\ Len(Palette(skin)) = Len(skin.joints)
         /\ \A i \in 1 .. Len(skin.joints) : Palette(skin)[i] = skin.joints[i].nodeIndex
<1>1. PICK n \in Nat : n = Len(skin.joints) /\ DOMAIN skin.joints = 1 .. n
  BY SequenceFacts DEF SoundSkin
<1>2. PICK p : p = [i \in 1 .. n |-> skin.joints[i].nodeIndex]
  OBVIOUS
<1>3. Palette(skin) = p
  BY <1>1, <1>2 DEF Palette
<1>4. \A i \in 1 .. n : p[i] \in NodeIndices(source)
  BY <1>2, <1>3 DEF SoundSkin, PaletteIsSound, ToSet
<1>5. p \in Seq(NodeIndices(source)) /\ Len(p) = n
  BY <1>2, <1>4
<1>6. IsInjective(p)
  BY <1>3 DEF SoundSkin, PaletteIsSound
<1> QED BY <1>1, <1>2, <1>3, <1>5, <1>6 DEF Lists

(* Lists that begin with the palette.                                      *)
Begins(source, skin) ==
  {nodes \in Lists(source) :
     /\ Len(Palette(skin)) <= Len(nodes)
     /\ \A i \in 1 .. Len(Palette(skin)) : nodes[i] = Palette(skin)[i]}

(* With more ancestors a list still begins with the palette.               *)
LEMMA MoreBegins ==
  ASSUME NEW source, Sound(source), NEW skin, SoundSkin(source, skin),
         NEW nodes \in Begins(source, skin), NEW start \in NodeIndices(source)
  PROVE  WithAncestors(source, nodes, start) \in Begins(source, skin)
<1>1. PICK all : all = WithAncestors(source, nodes, start)
  OBVIOUS
<1>2. nodes \in Lists(source)
  BY DEF Begins
<1>3. /\ all \in Lists(source) /\ Len(nodes) <= Len(all)
      /\ \A i \in 1 .. Len(nodes) : all[i] = nodes[i]
  BY <1>1, <1>2, WithAncestorsFacts
<1>4. Len(nodes) \in Nat /\ Len(all) \in Nat /\ Len(Palette(skin)) \in Nat
  BY <1>2, <1>3, PaletteFacts DEF Lists
<1>5. Len(Palette(skin)) <= Len(nodes)
      /\ \A i \in 1 .. Len(Palette(skin)) : nodes[i] = Palette(skin)[i]
  BY DEF Begins
<1>6. Len(Palette(skin)) <= Len(all)
  BY <1>3, <1>4, <1>5
<1>7. \A i \in 1 .. Len(Palette(skin)) : i \in 1 .. Len(nodes)
  BY <1>4, <1>5
<1>8. \A i \in 1 .. Len(Palette(skin)) : all[i] = Palette(skin)[i]
  BY <1>3, <1>5, <1>7
<1> QED BY <1>1, <1>3, <1>6, <1>8 DEF Begins

(* A list that begins with the palette holds all of it.                    *)
LEMMA BeginsHasPalette ==
  ASSUME NEW source, Sound(source), NEW skin, SoundSkin(source, skin),
         NEW nodes \in Begins(source, skin)
  PROVE  ToSet(Palette(skin)) \subseteq ToSet(nodes)
<1>1. PICK n \in Nat : n = Len(Palette(skin)) /\ DOMAIN Palette(skin) = 1 .. n
  BY PaletteFacts DEF Lists
<1>2. PICK m \in Nat : m = Len(nodes) /\ DOMAIN nodes = 1 .. m
  BY DEF Begins, Lists
<1>3. n <= m /\ \A i \in 1 .. n : nodes[i] = Palette(skin)[i]
  BY <1>1, <1>2 DEF Begins
<1>4. 1 .. n \subseteq 1 .. m
  BY <1>3
<1> QED BY <1>1, <1>2, <1>3, <1>4 DEF ToSet

(* The nodes that the skin poses begin with the palette and hold every     *)
(* ancestor of theirs.                                                     *)
LEMMA PosedBySkinFacts ==
  ASSUME NEW source, Sound(source), NEW skin, SoundSkin(source, skin)
  PROVE  /\ PosedBySkin(source, skin) \in Begins(source, skin)
         /\ ClosedUp(source, ToSet(PosedBySkin(source, skin)))
<1> DEFINE X == Begins(source, skin)
           palette == Palette(skin)
<1>1. PICK n \in Nat : n = Len(palette) /\ DOMAIN palette = 1 .. n
  BY PaletteFacts DEF Lists
<1>0. \A i \in 1 .. n : palette[i] \in NodeIndices(source)
  BY <1>1, PaletteFacts DEF Lists
<1> DEFINE step == [p \in (1 .. n) \X X |-> WithAncestors(source, p[2], palette[p[1]])]
           Iterates(f) == f = [s \in SUBSET (1 .. n) |->
                                 IF s = {} THEN palette
                                 ELSE WithAncestors(source, f[s \ {Max(s)}], palette[Max(s)])]
           it == CHOOSE f : Iterates(f)
<1>2. PosedBySkin(source, skin) = it[1 .. n]
  BY <1>1 DEF PosedBySkin, FoldLeft, MapThenFoldSet
<1>3. \A i \in 1 .. n, x \in X :
        <<i, x>> \in (1 .. n) \X X /\ step[<<i, x>>] = WithAncestors(source, x, palette[i])
  OBVIOUS
<1>4. step \in [(1 .. n) \X X -> X]
  <2>1. \A p \in (1 .. n) \X X : WithAncestors(source, p[2], palette[p[1]]) \in X
    BY <1>0, MoreBegins
  <2> QED BY <2>1
<1> HIDE DEF step
<1>5. \A s \in SUBSET (1 .. n) : s # {} => Max(s) \in 1 .. n /\ s \ {Max(s)} \in SUBSET (1 .. n)
  BY MaxFacts
<1>6. palette \in X
  BY PaletteFacts DEF Begins, Lists
<1> HIDE DEF X, palette
<1>7. \E f : Iterates(f)
  <2>1. PICK f \in [SUBSET (1 .. n) -> X] : FoldStep(f, palette, step, n, X)
    BY <1>4, <1>6, FoldExists
  <2>2. \A s \in SUBSET (1 .. n) :
          f[s] = IF s = {} THEN palette ELSE WithAncestors(source, f[s \ {Max(s)}], palette[Max(s)])
    BY <2>1, <1>3, <1>5 DEF FoldStep
  <2>3. Iterates(f)
    BY <2>1, <2>2
  <2> QED BY <2>3
<1>8. Iterates(it)
  BY <1>7
<1> HIDE DEF it
<1>9. Folds(it, palette, step, n, X)
  <2>1. FoldStep(it, palette, step, n, X)
    BY <1>8, <1>3, <1>5 DEF FoldStep
  <2> QED BY <2>1, <1>4, <1>6 DEF Folds
<1>10. PICK acc : Gathered(acc, palette, step, n, X) /\ it[1 .. n] = acc[n]
  BY <1>9, FoldGathers
<1>11. \A k \in 0 .. n : acc[k] \in X
  BY <1>10 DEF Gathered
<1>12. \A k \in 0 .. n : acc[k] \in Lists(source)
  BY <1>11 DEF X, Begins
<1> DEFINE Good == {m \in 0 .. n :
                      /\ \A i \in 1 .. m : Up(source, palette[i]) \subseteq ToSet(acc[m])
                      /\ \A node \in ToSet(acc[m]) \ ToSet(palette) :
                           Parent(source, node) \in {-1} \cup ToSet(acc[m])}
<1>13. 0 \in Good
  <2>1. acc[0] = palette /\ 0 \in 0 .. n /\ 1 .. 0 = {}
    BY <1>10 DEF Gathered
  <2> QED BY <2>1
<1>14. ASSUME NEW m \in 0 .. (n - 1), m \in Good PROVE m + 1 \in Good
  <2>1. m + 1 \in 1 .. n /\ m + 1 \in 0 .. n /\ m \in 0 .. n /\ (m + 1) - 1 = m /\ m \in Nat
    OBVIOUS
  <2>2. acc[m + 1] = step[<<m + 1, acc[m]>>] /\ acc[m] \in X
    BY <1>10, <1>11, <2>1 DEF Gathered
  <2>3. acc[m + 1] = WithAncestors(source, acc[m], palette[m + 1])
    BY <1>3, <2>1, <2>2
  <2>4. PICK node : node = palette[m + 1] /\ node \in NodeIndices(source)
    BY <1>0, <2>1 DEF palette
  <2>5. ToSet(acc[m + 1]) = ToSet(acc[m]) \cup Up(source, node)
    BY <1>12, <2>1, <2>3, <2>4, WithAncestorsFacts
  <2>6. ClosedUp(source, Up(source, node))
    BY <2>4, AncestryClosed DEF Up
  <2>7. \A i \in 1 .. (m + 1) : Up(source, palette[i]) \subseteq ToSet(acc[m + 1])
    <3>1. \A i \in 1 .. (m + 1) : i = m + 1 \/ i \in 1 .. m
      BY <2>1
    <3> QED BY <1>14, <2>4, <2>5, <3>1
  <2>8. \A x \in ToSet(acc[m + 1]) \ ToSet(palette) :
          Parent(source, x) \in {-1} \cup ToSet(acc[m + 1])
    BY <1>14, <2>5, <2>6 DEF ClosedUp
  <2> QED BY <2>1, <2>7, <2>8
<1>15. n \in Good
  <2>1. n \in 0 .. n
    OBVIOUS
  <2> HIDE DEF Good
  <2> QED BY <1>13, <1>14, <2>1, UpTo
<1>16. \A i \in 1 .. n : /\ palette[i] \in Up(source, palette[i])
                         /\ ClosedUp(source, Up(source, palette[i]))
  BY <1>0, AncestryClosed DEF Up, palette
<1>17. \A x \in ToSet(palette) : Parent(source, x) \in {-1} \cup ToSet(acc[n])
  <2> TAKE x \in ToSet(palette)
  <2>1. PICK i \in 1 .. n : x = palette[i]
    BY <1>1 DEF ToSet, palette
  <2>2. Parent(source, x) \in {-1} \cup Up(source, palette[i])
    BY <1>16, <2>1 DEF ClosedUp
  <2> QED BY <1>15, <2>2
<1>18. ClosedUp(source, ToSet(acc[n]))
  BY <1>15, <1>17 DEF ClosedUp
<1>19. acc[n] \in X
  BY <1>11
<1> QED BY <1>2, <1>10, <1>18, <1>19 DEF X

(* Lists that begin with the palette and hold every ancestor of their      *)
(* nodes.                                                                  *)
Closed(source, skin) ==
  {nodes \in Begins(source, skin) : ClosedUp(source, ToSet(nodes))}

(* The step of PosedNodes: an animated or posed socket is included itself, *)
(* any other by its parent.                                                *)
IncludeSocket(source, nodes, node) ==
  IF node.nodeIndex \in AnimatedNodes(source) \cup ToSet(nodes)
  THEN WithAncestors(source, nodes, node.nodeIndex)
  ELSE WithAncestors(source, nodes, node.parentNodeIndex)

(* Including a node with its ancestors keeps a list closed.                *)
LEMMA MoreClosed ==
  ASSUME NEW source, Sound(source), NEW skin, SoundSkin(source, skin),
         NEW nodes \in Closed(source, skin), NEW start \in NodeIndices(source)
  PROVE  /\ WithAncestors(source, nodes, start) \in Closed(source, skin)
         /\ ToSet(WithAncestors(source, nodes, start)) = ToSet(nodes) \cup Up(source, start)
<1>1. PICK all : all = WithAncestors(source, nodes, start)
  OBVIOUS
<1>2. nodes \in Begins(source, skin) /\ nodes \in Lists(source) /\ ClosedUp(source, ToSet(nodes))
  BY DEF Closed, Begins
<1>3. all \in Begins(source, skin)
  BY <1>1, <1>2, MoreBegins
<1>4. ToSet(all) = ToSet(nodes) \cup Up(source, start)
  BY <1>1, <1>2, WithAncestorsFacts
<1>5. ClosedUp(source, Up(source, start))
  BY AncestryClosed DEF Up
<1>6. ClosedUp(source, ToSet(all))
  BY <1>2, <1>4, <1>5 DEF ClosedUp
<1> QED BY <1>1, <1>3, <1>4, <1>6 DEF Closed

(* A socket under a joint that is not posed itself has a parent.           *)
LEMMA SocketHasParent ==
  ASSUME NEW source, Sound(source), NEW skin, SoundSkin(source, skin),
         NEW nodes \in Closed(source, skin), NEW node \in ToSet(source.nodes),
         Attached(source, skin, node)
  PROVE  /\ node.nodeIndex \in NodeIndices(source)
         /\ node.parentNodeIndex = Parent(source, node.nodeIndex)
         /\ node.nodeIndex \notin ToSet(nodes) => node.parentNodeIndex \in NodeIndices(source)
<1>1. PICK i \in DOMAIN source.nodes : node = source.nodes[i]
  BY DEF ToSet
<1>2. /\ node.nodeIndex \in NodeIndices(source)
      /\ Node(source, node.nodeIndex) = node
  BY <1>1, NodeFacts
<1>3. node.parentNodeIndex = Parent(source, node.nodeIndex)
  BY <1>2 DEF Parent
<1>4. ASSUME node.nodeIndex \notin ToSet(nodes)
      PROVE  node.parentNodeIndex \in NodeIndices(source)
  <2>1. nodes \in Begins(source, skin)
    BY DEF Closed
  <2>2. PICK joint \in ToSet(Palette(skin)) : joint \in ToSet(Ancestry(source, node.nodeIndex))
    BY DEF Attached
  <2>3. joint # node.nodeIndex
    BY <1>4, <2>1, <2>2, BeginsHasPalette
  <2>4. PICK path : path = Ancestry(source, node.nodeIndex)
    OBVIOUS
  <2>5. WalkUp(source, node.nodeIndex, path)
    BY <1>2, <2>4, AncestryFacts
  <2>6. PICK n \in Nat : n = Len(path) /\ n >= 1 /\ DOMAIN path = 1 .. n
    BY <2>5 DEF WalkUp
  <2>7. PICK k \in 1 .. n : path[k] = joint
    BY <2>2, <2>4, <2>6 DEF ToSet
  <2>8. k # 1
    BY <2>3, <2>5, <2>7 DEF WalkUp
  <2>9. 1 \in 1 .. (n - 1) /\ 2 \in 1 .. n
    BY <2>6, <2>8
  <2>10. Parent(source, path[1]) = path[1 + 1] /\ path[1] = node.nodeIndex
    BY <2>5, <2>6, <2>9 DEF WalkUp
  <2>11. path[2] \in NodeIndices(source)
    BY <2>5, <2>6, <2>9 DEF WalkUp
  <2> QED BY <1>3, <2>10, <2>11
<1> QED BY <1>2, <1>3, <1>4

(* Every bound socket that some clip animates is posed itself, and of any  *)
(* other at least the parent is.                                           *)
SocketPosed(source, posed, node) ==
  \/ node.nodeIndex \in ToSet(posed)
  \/ /\ node.nodeIndex \notin AnimatedNodes(source)
     /\ node.parentNodeIndex \in ToSet(posed)

(* Including a socket keeps a list closed and what was in it, and the      *)
(* socket or its parent is now in it.                                      *)
LEMMA IncludeSocketFacts ==
  ASSUME NEW source, Sound(source), NEW skin, SoundSkin(source, skin),
         NEW nodes \in Closed(source, skin), NEW node \in ToSet(source.nodes),
         Attached(source, skin, node)
  PROVE  /\ IncludeSocket(source, nodes, node) \in Closed(source, skin)
         /\ ToSet(nodes) \subseteq ToSet(IncludeSocket(source, nodes, node))
         /\ SocketPosed(source, IncludeSocket(source, nodes, node), node)
<1>1. PICK more : more = IncludeSocket(source, nodes, node)
  OBVIOUS
<1>2. CASE node.nodeIndex \in AnimatedNodes(source) \cup ToSet(nodes)
  <2>1. more = WithAncestors(source, nodes, node.nodeIndex)
    BY <1>1, <1>2 DEF IncludeSocket
  <2>2. node.nodeIndex \in NodeIndices(source)
    BY SocketHasParent
  <2>3. more \in Closed(source, skin) /\ ToSet(more) = ToSet(nodes) \cup Up(source, node.nodeIndex)
    BY <2>1, <2>2, MoreClosed
  <2>4. node.nodeIndex \in Up(source, node.nodeIndex)
    BY <2>2, AncestryClosed DEF Up
  <2> QED BY <1>1, <2>3, <2>4 DEF SocketPosed
<1>3. CASE node.nodeIndex \notin AnimatedNodes(source) \cup ToSet(nodes)
  <2>1. more = WithAncestors(source, nodes, node.parentNodeIndex)
    BY <1>1, <1>3 DEF IncludeSocket
  <2>2. node.parentNodeIndex \in NodeIndices(source)
    BY <1>3, SocketHasParent
  <2>3. more \in Closed(source, skin) /\ ToSet(more) = ToSet(nodes) \cup Up(source, node.parentNodeIndex)
    BY <2>1, <2>2, MoreClosed
  <2>4. node.parentNodeIndex \in Up(source, node.parentNodeIndex)
    BY <2>2, AncestryClosed DEF Up
  <2> QED BY <1>1, <1>3, <2>3, <2>4 DEF SocketPosed
<1> QED BY <1>2, <1>3

(* The posed nodes begin with the palette, repeat nothing and hold every   *)
(* ancestor of a posed node; every bound socket is posed or its parent is. *)
LEMMA PosedNodesFacts ==
  ASSUME NEW source, Sound(source), NEW skin, SoundSkin(source, skin)
  PROVE  /\ PosedNodes(source, skin) \in Closed(source, skin)
         /\ \A node \in ToSet(BoundSockets(source, skin)) :
              SocketPosed(source, PosedNodes(source, skin), node)
<1> DEFINE X == Closed(source, skin)
           sockets == BoundSockets(source, skin)
           bySkin == PosedBySkin(source, skin)
<1>0. sockets \in Seq({node \in ToSet(source.nodes) : Attached(source, skin, node)})
  BY BoundSocketsFacts
<1>1. PICK n \in Nat : n = Len(sockets) /\ DOMAIN sockets = 1 .. n
  BY <1>0
<1>a. \A i \in 1 .. n : sockets[i] \in ToSet(source.nodes) /\ Attached(source, skin, sockets[i])
  BY <1>0, <1>1
<1> DEFINE step == [p \in (1 .. n) \X X |-> IncludeSocket(source, p[2], sockets[p[1]])]
           Iterates(f) == f = [s \in SUBSET (1 .. n) |->
                                 IF s = {} THEN bySkin
                                 ELSE IncludeSocket(source, f[s \ {Max(s)}], sockets[Max(s)])]
           it == CHOOSE f : Iterates(f)
<1>2. PosedNodes(source, skin) = it[1 .. n]
  BY <1>1 DEF PosedNodes, FoldLeft, MapThenFoldSet, IncludeSocket
<1>3. \A i \in 1 .. n, x \in X :
        <<i, x>> \in (1 .. n) \X X /\ step[<<i, x>>] = IncludeSocket(source, x, sockets[i])
  OBVIOUS
<1>4. step \in [(1 .. n) \X X -> X]
  <2>1. \A p \in (1 .. n) \X X : IncludeSocket(source, p[2], sockets[p[1]]) \in X
    BY <1>a, IncludeSocketFacts
  <2> QED BY <2>1
<1> HIDE DEF step
<1>5. \A s \in SUBSET (1 .. n) : s # {} => Max(s) \in 1 .. n /\ s \ {Max(s)} \in SUBSET (1 .. n)
  BY MaxFacts
<1>6. bySkin \in X
  BY PosedBySkinFacts DEF Closed
<1> HIDE DEF X, bySkin, sockets
<1>7. \E f : Iterates(f)
  <2>1. PICK f \in [SUBSET (1 .. n) -> X] : FoldStep(f, bySkin, step, n, X)
    BY <1>4, <1>6, FoldExists
  <2>2. \A s \in SUBSET (1 .. n) :
          f[s] = IF s = {} THEN bySkin ELSE IncludeSocket(source, f[s \ {Max(s)}], sockets[Max(s)])
    BY <2>1, <1>3, <1>5 DEF FoldStep
  <2>3. Iterates(f)
    BY <2>1, <2>2
  <2> QED BY <2>3
<1>8. Iterates(it)
  BY <1>7
<1> HIDE DEF it
<1>9. Folds(it, bySkin, step, n, X)
  <2>1. FoldStep(it, bySkin, step, n, X)
    BY <1>8, <1>3, <1>5 DEF FoldStep
  <2> QED BY <2>1, <1>4, <1>6 DEF Folds
<1>10. PICK acc : Gathered(acc, bySkin, step, n, X) /\ it[1 .. n] = acc[n]
  BY <1>9, FoldGathers
<1>11. \A k \in 0 .. n : acc[k] \in X
  BY <1>10 DEF Gathered
<1>12. \A i \in 1 .. n : sockets[i] \in ToSet(source.nodes) /\ Attached(source, skin, sockets[i])
  BY <1>a DEF sockets
<1> DEFINE Good == {m \in 0 .. n : \A i \in 1 .. m : SocketPosed(source, acc[m], sockets[i])}
<1>13. 0 \in Good
  OBVIOUS
<1>14. ASSUME NEW m \in 0 .. (n - 1), m \in Good PROVE m + 1 \in Good
  <2>1. m + 1 \in 1 .. n /\ m + 1 \in 0 .. n /\ m \in 0 .. n /\ (m + 1) - 1 = m /\ m \in Nat
    OBVIOUS
  <2>2. acc[m + 1] = step[<<m + 1, acc[m]>>] /\ acc[m] \in X
    BY <1>10, <1>11, <2>1 DEF Gathered
  <2>3. acc[m + 1] = IncludeSocket(source, acc[m], sockets[m + 1])
    BY <1>3, <2>1, <2>2
  <2>4. PICK nodes \in Closed(source, skin) : nodes = acc[m]
    BY <2>2 DEF X
  <2>5. /\ ToSet(nodes) \subseteq ToSet(acc[m + 1])
        /\ SocketPosed(source, acc[m + 1], sockets[m + 1])
    BY <1>12, <2>1, <2>3, <2>4, IncludeSocketFacts
  <2>6. \A i \in 1 .. m : SocketPosed(source, acc[m + 1], sockets[i])
    BY <1>14, <2>4, <2>5 DEF SocketPosed
  <2>7. \A i \in 1 .. (m + 1) : i = m + 1 \/ i \in 1 .. m
    BY <2>1
  <2> QED BY <2>1, <2>5, <2>6, <2>7
<1>15. n \in Good
  <2>1. n \in 0 .. n
    OBVIOUS
  <2> HIDE DEF Good
  <2> QED BY <1>13, <1>14, <2>1, UpTo
<1>16. \A node \in ToSet(sockets) : SocketPosed(source, acc[n], node)
  <2>1. ToSet(sockets) = {sockets[i] : i \in 1 .. n}
    BY <1>1 DEF ToSet, sockets
  <2> QED BY <1>15, <2>1
<1>17. acc[n] \in X
  BY <1>11
<1> QED BY <1>2, <1>10, <1>16, <1>17 DEF X, sockets

-----------------------------------------------------------------------------
(***************************************************************************)
(* The skeleton that is built for a skin                                   *)
(***************************************************************************)
(* The skeleton built for a skin has a joint for each posed node, and a    *)
(* joint's parent is the joint of its node's parent.                       *)
LEMMA BuiltBody ==
  ASSUME NEW source, Sound(source), NEW skin, SoundSkin(source, skin),
         NEW posed, posed = PosedNodes(source, skin),
         NEW body, body = BuiltSkeleton(source, skin)
  PROVE  /\ Len(posed) \in Nat /\ Joints(body) = 1 .. Len(posed) /\ Len(body.joints) = Len(posed)
         /\ IsInjective(posed) /\ DOMAIN posed = 1 .. Len(posed)
         /\ \A i \in Joints(body) : posed[i] \in NodeIndices(source)
         /\ \A i \in Joints(body) :
              \/ Parent(source, posed[i]) = -1 /\ ParentOf(body, i) = 0
              \/ /\ Parent(source, posed[i]) \in NodeIndices(source)
                 /\ ParentOf(body, i) \in Joints(body)
                 /\ posed[ParentOf(body, i)] = Parent(source, posed[i])
<1>1. posed \in Closed(source, skin)
  BY PosedNodesFacts
<1>2. posed \in Seq(NodeIndices(source)) /\ IsInjective(posed) /\ ClosedUp(source, ToSet(posed))
  BY <1>1 DEF Closed, Begins, Lists
<1>3. PICK n \in Nat : n = Len(posed) /\ DOMAIN posed = 1 .. n
  BY <1>2
<1>4. PICK joints : joints = [i \in 1 .. n |-> BuiltJoint(source, skin, posed, i)]
  OBVIOUS
<1>5. body.joints = joints
  BY <1>3, <1>4 DEF BuiltSkeleton
<1>6. joints \in Seq({BuiltJoint(source, skin, posed, i) : i \in 1 .. n})
      /\ Len(joints) = n /\ DOMAIN joints = 1 .. n
  BY <1>4
<1>7. Joints(body) = 1 .. n /\ Len(body.joints) = n
  BY <1>5, <1>6 DEF Joints
<1>8. \A i \in 1 .. n : posed[i] \in NodeIndices(source)
  BY <1>2, <1>3
<1>9. ASSUME NEW i \in 1 .. n
      PROVE  \/ Parent(source, posed[i]) = -1 /\ ParentOf(body, i) = 0
             \/ /\ Parent(source, posed[i]) \in NodeIndices(source)
                /\ ParentOf(body, i) \in 1 .. n
                /\ posed[ParentOf(body, i)] = Parent(source, posed[i])
  <2>1. PICK up : up = Parent(source, posed[i])
    OBVIOUS
  <2>2. ParentOf(body, i) = IF up < 0 THEN 0 ELSE SlotOf(posed, up)
    BY <1>4, <1>5, <2>1 DEF ParentOf, BuiltJoint
  <2>3. up \in {-1} \cup ToSet(posed) /\ up \in {-1} \cup NodeIndices(source)
    <3>1. posed[i] \in ToSet(posed)
      BY <1>3 DEF ToSet
    <3> QED BY <1>2, <1>8, <2>1, <3>1, NodeFacts DEF ClosedUp
  <2>4. CASE up = -1
    BY <2>1, <2>2, <2>4
  <2>5. CASE up # -1
    <3>1. up \in NodeIndices(source) /\ up \in Nat
      BY <2>3, <2>5, NodeFacts
    <3>2. \E k \in DOMAIN posed : posed[k] = up
      BY <2>3, <2>5 DEF ToSet
    <3>3. SlotOf(posed, up) \in DOMAIN posed /\ posed[SlotOf(posed, up)] = up
      BY <3>2 DEF SlotOf
    <3> QED BY <1>3, <2>1, <2>2, <3>1, <3>3
  <2> QED BY <2>4, <2>5
<1> QED BY <1>2, <1>3, <1>7, <1>8, <1>9

(* The walk up a skeleton goes from each joint to its parent.              *)
LEMMA AboveWalks ==
  ASSUME NEW body, NEW start, NEW n \in Nat, n = Len(body.joints)
  PROVE  \A steps \in 0 .. n :
           Above(body, start)[steps] =
             IF steps = 0 THEN start ELSE NextUp(body, Above(body, start)[steps - 1])
<1>1. PICK walk : walk = Above(body, start)
  OBVIOUS
<1>2. PICK first : Walks(first, n, body, start)
  BY WalkExists
<1>3. walk = CHOOSE f : Walks(f, n, body, start)
  BY <1>1 DEF Above, Walks, NextUp
<1>4. Walks(walk, n, body, start)
  BY <1>2, <1>3
<1> QED BY <1>1, <1>4 DEF Walks

(* Some step of a walk up a valid skeleton is the first outside it.        *)
LEMMA WalkLeaves ==
  ASSUME NEW body, ValidSkeleton(body), NEW n \in Nat, n = Len(body.joints),
         NEW joint \in Joints(body), 0 \notin Joints(body)
  PROVE  \E depth \in 1 .. n : /\ Above(body, joint)[depth] = 0
                               /\ \A k \in 0 .. (depth - 1) : Above(body, joint)[k] # 0
<1>1. PICK walk : walk = Above(body, joint)
  OBVIOUS
<1>2. PICK depth \in 1 .. Min({n, Limits.depth}) : walk[depth] = 0
  BY <1>1 DEF ValidSkeleton, WalksEnd
<1>3. depth \in 1 .. n
  <2>1. {n, Limits.depth} \subseteq Nat /\ {n, Limits.depth} # {}
    BY LimitsAssumption
  <2>2. PICK m : m = Min({n, Limits.depth})
    OBVIOUS
  <2>3. m \in Nat /\ m <= n
    BY <2>1, <2>2, MinFacts
  <2> QED BY <1>2, <2>2, <2>3
<1> DEFINE T == {k \in 0 .. n : walk[k] = 0}
<1>4. T \subseteq Nat /\ T # {}
  BY <1>2, <1>3
<1>5. PICK k \in T : \A j \in T : k <= j
  <2> HIDE DEF T
  <2> QED BY <1>4, LeastNumber
<1>6. k # 0
  BY <1>1, <1>5, AboveWalks
<1>7. k \in 1 .. n /\ walk[k] = 0
  BY <1>5, <1>6
<1>8. \A j \in 0 .. (k - 1) : walk[j] # 0
  BY <1>5, <1>7
<1> QED BY <1>1, <1>7, <1>8

(* The walk up the skeleton and the ancestry in the scene go together.     *)
LEMMA WalksTogether ==
  ASSUME NEW source, Sound(source), NEW skin, SoundSkin(source, skin),
         NEW posed, posed = PosedNodes(source, skin),
         NEW body, body = BuiltSkeleton(source, skin), NEW joint \in Joints(body),
         NEW path, path = Ancestry(source, posed[joint]),
         NEW steps \in 0 .. Len(posed), Above(body, joint)[steps] # 0
  PROVE  /\ Above(body, joint)[steps] \in Joints(body)
         /\ steps + 1 <= Len(path)
         /\ posed[Above(body, joint)[steps]] = path[steps + 1]
<1>1. PICK n \in Nat : n = Len(posed) /\ Joints(body) = 1 .. n /\ n = Len(body.joints)
                       /\ DOMAIN posed = 1 .. n
  BY BuiltBody
<1>2. PICK walk : walk = Above(body, joint)
  OBVIOUS
<1>3. \A k \in 0 .. n : walk[k] = IF k = 0 THEN joint ELSE NextUp(body, walk[k - 1])
  BY <1>1, <1>2, AboveWalks
<1>4. posed[joint] \in NodeIndices(source)
  BY BuiltBody
<1>5. /\ WalkUp(source, posed[joint], path)
      /\ Len(path) <= Len(source.nodes) =>
           Parent(source, path[Len(path)]) = -1
  BY <1>4, AncestryFacts
<1>6. PICK l \in Nat : l = Len(path) /\ l >= 1 /\ DOMAIN path = 1 .. l
  BY <1>5 DEF WalkUp
<1>7. PICK m \in Nat : m = Len(source.nodes)
  BY NodeFacts
<1>8. n <= m
  <2>1. SUFFICES ASSUME n > m PROVE FALSE
    BY <1>1, <1>7
  <2>2. posed \in Seq(NodeIndices(source))
    BY PosedNodesFacts DEF Closed, Begins, Lists
  <2>3. PICK x \in 1 .. n, y \in 1 .. n : x < y /\ posed[x] = posed[y]
    BY <1>1, <1>7, <2>1, <2>2, Crowded
  <2>4. IsInjective(posed)
    BY BuiltBody
  <2> QED BY <1>1, <2>3, <2>4 DEF IsInjective
<1> DEFINE Good == {k \in 0 .. n : walk[k] # 0 => /\ walk[k] \in Joints(body)
                                                  /\ k + 1 <= l
                                                  /\ posed[walk[k]] = path[k + 1]}
<1>9. 0 \in Good
  <2>1. walk[0] = joint /\ path[0 + 1] = posed[joint] /\ 0 \in 0 .. n
    BY <1>3, <1>5 DEF WalkUp
  <2> QED BY <1>6, <2>1
<1>10. ASSUME NEW k \in 0 .. (n - 1), k \in Good PROVE k + 1 \in Good
  <2>1. k \in Nat /\ k + 1 \in 0 .. n /\ k + 1 # 0 /\ (k + 1) - 1 = k /\ k + 1 <= m
    BY <1>1, <1>7, <1>8
  <2>2. walk[k + 1] = NextUp(body, walk[k])
    BY <1>3, <2>1
  <2>3. SUFFICES ASSUME walk[k + 1] # 0
                 PROVE  /\ walk[k + 1] \in Joints(body)
                        /\ (k + 1) + 1 <= l
                        /\ posed[walk[k + 1]] = path[(k + 1) + 1]
    BY <2>1
  <2>4. /\ walk[k] \in Joints(body) /\ ParentOf(body, walk[k]) \in Joints(body)
        /\ walk[k + 1] = ParentOf(body, walk[k])
    BY <2>2, <2>3 DEF NextUp
  <2>5. walk[k] # 0
    BY <1>1, <2>4
  <2>6. k + 1 <= l /\ posed[walk[k]] = path[k + 1]
    BY <1>10, <2>5
  <2>7. /\ Parent(source, path[k + 1]) \in NodeIndices(source)
        /\ posed[walk[k + 1]] = Parent(source, path[k + 1])
    <3>1. ParentOf(body, walk[k]) # 0
      BY <1>1, <2>4
    <3> QED BY <2>4, <2>6, <3>1, BuiltBody
  <2>8. k + 1 # l
    <3>1. SUFFICES ASSUME k + 1 = l PROVE FALSE
      OBVIOUS
    <3>2. Parent(source, path[l]) = -1
      BY <1>5, <1>6, <1>7, <2>1, <3>1
    <3>3. -1 \notin NodeIndices(source)
      BY NodeFacts
    <3> QED BY <2>7, <3>1, <3>2, <3>3
  <2>9. k + 1 \in 1 .. (l - 1) /\ (k + 1) + 1 <= l
    BY <1>6, <2>1, <2>6, <2>8
  <2>10. Parent(source, path[k + 1]) = path[(k + 1) + 1]
    BY <1>5, <1>6, <2>9 DEF WalkUp
  <2> QED BY <2>4, <2>7, <2>9, <2>10
<1>11. steps \in Good
  <2> HIDE DEF Good
  <2> QED BY <1>1, <1>9, <1>10, UpTo
<1> QED BY <1>2, <1>6, <1>11

(* A walk up the scene that ends at a root.                                *)
Grounded(source, start) ==
  LET path == Ancestry(source, start) IN Parent(source, path[Len(path)]) = -1

(* A joint of a valid skeleton: the walk up the scene ends at a root when  *)
(* the walk up the skeleton leaves it.                                     *)
LEMMA JointRooted ==
  ASSUME NEW source, Sound(source), NEW skin, SoundSkin(source, skin),
         NEW posed, posed = PosedNodes(source, skin),
         NEW body, body = BuiltSkeleton(source, skin), ValidSkeleton(body),
         NEW joint \in Joints(body)
  PROVE  /\ Grounded(source, posed[joint])
         /\ Len(Ancestry(source, posed[joint])) \in 1 .. Len(posed)
         /\ \A k \in 0 .. (Len(Ancestry(source, posed[joint])) - 1) :
              Above(body, joint)[k] # 0
<1>1. PICK n \in Nat : n = Len(posed) /\ Joints(body) = 1 .. n /\ n = Len(body.joints)
  BY BuiltBody
<1>2. PICK walk : walk = Above(body, joint)
  OBVIOUS
<1>3. PICK path : path = Ancestry(source, posed[joint])
  OBVIOUS
<1>4. posed[joint] \in NodeIndices(source)
  BY BuiltBody
<1>5. WalkUp(source, posed[joint], path)
  BY <1>3, <1>4, AncestryFacts
<1>6. PICK l \in Nat : l = Len(path) /\ l >= 1 /\ DOMAIN path = 1 .. l
  BY <1>5 DEF WalkUp
<1>7. \A k \in 0 .. n : walk[k] # 0 => /\ walk[k] \in Joints(body)
                                       /\ k + 1 <= l
                                       /\ posed[walk[k]] = path[k + 1]
  <2> TAKE k \in 0 .. n
  <2>1. k \in 0 .. Len(posed)
    BY <1>1
  <2> QED BY <1>2, <1>3, <1>6, <2>1, WalksTogether
<1>8. PICK depth \in 1 .. n : walk[depth] = 0 /\ \A k \in 0 .. (depth - 1) : walk[k] # 0
  BY <1>1, <1>2, WalkLeaves
<1>9. PICK d \in 0 .. n : d = depth - 1 /\ d + 1 = depth /\ d \in 0 .. (depth - 1)
  OBVIOUS
<1>10. walk[d] # 0 /\ walk[d] \in Joints(body) /\ depth <= l /\ posed[walk[d]] = path[depth]
  BY <1>7, <1>8, <1>9
<1>11. ParentOf(body, walk[d]) \notin Joints(body)
  <2>1. walk[depth] = NextUp(body, walk[d])
    <3>1. depth \in 0 .. n /\ depth # 0
      OBVIOUS
    <3> QED BY <1>1, <1>2, <1>9, <3>1, AboveWalks
  <2>2. 0 \notin Joints(body)
    BY <1>1
  <2> QED BY <1>8, <1>10, <2>1, <2>2 DEF NextUp
<1>12. Parent(source, path[depth]) = -1
  BY <1>10, <1>11, BuiltBody
<1>13. depth = l
  <2>1. SUFFICES ASSUME depth # l PROVE FALSE
    OBVIOUS
  <2>2. depth \in 1 .. (l - 1) /\ depth + 1 \in 1 .. l
    BY <1>6, <1>10, <2>1
  <2>3. path[depth + 1] = -1
    BY <1>5, <1>6, <1>12, <2>2 DEF WalkUp
  <2>4. path[depth + 1] \in NodeIndices(source)
    BY <1>5, <1>6, <2>2 DEF WalkUp
  <2> QED BY <2>3, <2>4, NodeFacts
<1> QED BY <1>1, <1>2, <1>3, <1>6, <1>8, <1>12, <1>13 DEF Grounded

(* A joint is covered by the mask of a root exactly if its node lies at or *)
(* under the root's node in the scene.                                     *)
LEMMA MaskFollowsTheScene ==
  ASSUME NEW source, Sound(source), NEW skin, SoundSkin(source, skin),
         NEW posed, posed = PosedNodes(source, skin),
         NEW body, body = BuiltSkeleton(source, skin), ValidSkeleton(body),
         NEW root \in Joints(body), NEW joint \in Joints(body)
  PROVE  DescendantMask(body, root)[joint]
           = IF posed[root] \in ToSet(Ancestry(source, posed[joint])) THEN Full ELSE 0
<1>1. PICK n \in Nat : n = Len(posed) /\ Joints(body) = 1 .. n /\ n = Len(body.joints)
                       /\ DOMAIN posed = 1 .. n /\ IsInjective(posed)
  BY BuiltBody
<1>2. PICK walk : walk = Above(body, joint)
  OBVIOUS
<1>3. PICK path : path = Ancestry(source, posed[joint])
  OBVIOUS
<1>4. posed[joint] \in NodeIndices(source)
  BY BuiltBody
<1>5. WalkUp(source, posed[joint], path)
  BY <1>3, <1>4, AncestryFacts
<1>6. PICK l \in Nat : l = Len(path) /\ l >= 1 /\ DOMAIN path = 1 .. l
  BY <1>5 DEF WalkUp
<1>7. \A k \in 0 .. n : walk[k] # 0 => /\ walk[k] \in Joints(body)
                                       /\ k + 1 <= l
                                       /\ posed[walk[k]] = path[k + 1]
  BY <1>1, <1>2, <1>3, <1>6, WalksTogether
<1>8. ASSUME NEW k \in 0 .. n, walk[k] = root
      PROVE  posed[root] \in ToSet(path)
  <2>1. root # 0
    BY <1>1
  <2>2. k + 1 \in 1 .. l /\ posed[root] = path[k + 1]
    BY <1>6, <1>7, <1>8, <2>1
  <2> QED BY <1>6, <2>2 DEF ToSet
<1>9. ASSUME posed[root] \in ToSet(path)
      PROVE  \E k \in 0 .. n : walk[k] = root
  <2>1. PICK i \in 1 .. l : path[i] = posed[root]
    BY <1>6, <1>9 DEF ToSet
  <2>2. l <= n /\ \A k \in 0 .. (l - 1) : walk[k] # 0
    BY <1>1, <1>2, <1>3, <1>6, JointRooted
  <2>3. PICK k \in 0 .. n : k = i - 1 /\ k + 1 = i /\ k \in 0 .. (l - 1)
    BY <2>2
  <2>4. walk[k] # 0
    BY <2>2, <2>3
  <2>5. walk[k] \in Joints(body) /\ posed[walk[k]] = posed[root]
    BY <1>7, <2>1, <2>3, <2>4
  <2>6. walk[k] = root
    BY <1>1, <2>5 DEF IsInjective
  <2> QED BY <2>6
<1>10. DescendantMask(body, root)[joint] = IF \E k \in 0 .. n : walk[k] = root THEN Full ELSE 0
  BY <1>1, <1>2 DEF DescendantMask
<1> QED BY <1>3, <1>8, <1>9, <1>10

-----------------------------------------------------------------------------
(***************************************************************************)
(* Layers over a pose                                                      *)
(***************************************************************************)
(* The poses of a skeleton: a transform for each joint.                    *)
Poses(body) == [Joints(body) -> Transform]

(* A blend of two transforms is a transform.                               *)
LEMMA BlendType ==
  ASSUME NEW from \in Transform, NEW to \in Transform, NEW weight \in Int
  PROVE  Blend(from, to, weight) \in Transform
<1>1. /\ Lerp(from.translation, to.translation, weight) \in Int
      /\ Lerp(from.scale, to.scale, weight) \in Int
  BY LerpType DEF Transform
<1>2. Slerp(from.rotation, to.rotation, weight) \in {-1, 1}
  BY DEF Slerp, Normalized, Transform
<1> QED BY <1>1, <1>2 DEF Blend, Transform

(* Every pose of whole transforms can be blended.                          *)
LEMMA PoseBlends ==
  ASSUME NEW body, NEW pose \in Poses(body)
  PROVE  Blendable(pose)
<1>1. DOMAIN pose = Joints(body) /\ \A joint \in Joints(body) : pose[joint] \in Transform
  BY DEF Poses
<1>2. \A place \in Transform : Finite(place) /\ HasRotation(place)
  BY DEF Transform, Finite, HasRotation
<1> QED BY <1>1, <1>2 DEF Blendable

(* What lies over a pose and suits the body.                               *)
Lies(body, over) ==
  over # Nothing =>
    /\ over.pose \in Poses(body)
    /\ over.weight \in Int
    /\ \A joint \in Joints(body) : MaskWeight(over.mask, joint) \in Int

(* The step of Covered: one overlay laid over the pose, none over no pose. *)
CoverWith(body, under, over) ==
  IF under = Nothing \/ over = Nothing THEN under
  ELSE BlendPoses(body, under, over.pose, over.weight, over.mask)

(* A blend of two poses of a skeleton is a pose of it, or none.            *)
LEMMA BlendPosesType ==
  ASSUME NEW body, NEW from \in Poses(body), NEW to \in Poses(body), NEW weight \in Int, NEW mask,
         \A joint \in Joints(body) : MaskWeight(mask, joint) \in Int
  PROVE  BlendPoses(body, from, to, weight, mask) \in Poses(body) \cup {Nothing}
<1>1. \A joint \in Joints(body) : (weight * MaskWeight(mask, joint)) \div Full \in Int
  <2>1. \A k \in Int : (weight * k) \div 4 \in Int
    OBVIOUS
  <2> QED BY <2>1 DEF Full
<1>2. \A joint \in Joints(body) :
        Blend(from[joint], to[joint], (weight * MaskWeight(mask, joint)) \div Full) \in Transform
  BY <1>1, BlendType DEF Poses
<1>3. DOMAIN from = Joints(body)
  BY DEF Poses
<1>4. [joint \in DOMAIN from |->
         Blend(from[joint], to[joint], (weight * MaskWeight(mask, joint)) \div Full)] \in Poses(body)
  BY <1>2, <1>3 DEF Poses
<1> QED BY <1>4 DEF BlendPoses

(* A pose with an overlay over it is a pose of the skeleton, or none.      *)
LEMMA CoverWithType ==
  ASSUME NEW body, NEW under \in Poses(body) \cup {Nothing}, NEW over, Lies(body, over)
  PROVE  CoverWith(body, under, over) \in Poses(body) \cup {Nothing}
<1>1. CASE under = Nothing \/ over = Nothing
  BY <1>1 DEF CoverWith
<1>2. CASE ~(under = Nothing \/ over = Nothing)
  <2>1. /\ under \in Poses(body) /\ over.pose \in Poses(body) /\ over.weight \in Int
        /\ \A joint \in Joints(body) : MaskWeight(over.mask, joint) \in Int
    BY <1>2 DEF Lies
  <2>2. BlendPoses(body, under, over.pose, over.weight, over.mask) \in Poses(body) \cup {Nothing}
    BY <2>1, BlendPosesType
  <2> QED BY <1>2, <2>2 DEF CoverWith
<1> QED BY <1>1, <1>2

(* The pose under the layers, layer after layer.                           *)
Covering(acc, body, pose, laid, n) ==
  /\ acc \in [0 .. n -> Poses(body) \cup {Nothing}]
  /\ acc[0] = pose
  /\ \A k \in 1 .. n : acc[k] = CoverWith(body, acc[k - 1], laid[k])

(* Covered lays one layer after the other over the pose.                   *)
LEMMA CoveredSteps ==
  ASSUME NEW body, NEW n \in Nat, NEW laid, DOMAIN laid = 1 .. n,
         \A k \in 1 .. n : Lies(body, laid[k]), NEW pose \in Poses(body) \cup {Nothing}
  PROVE  \E acc : Covering(acc, body, pose, laid, n) /\ Covered(body, pose, laid) = acc[n]
<1> DEFINE X == Poses(body) \cup {Nothing}
           step == [p \in (1 .. n) \X X |-> CoverWith(body, p[2], laid[p[1]])]
           Iterates(f) == f = [s \in SUBSET (1 .. n) |->
                                 IF s = {} THEN pose
                                 ELSE CoverWith(body, f[s \ {Max(s)}], laid[Max(s)])]
           it == CHOOSE f : Iterates(f)
<1>2. Covered(body, pose, laid) = it[1 .. n]
  BY DEF Covered, FoldLeft, MapThenFoldSet, CoverWith
<1>3. \A i \in 1 .. n, x \in X :
        <<i, x>> \in (1 .. n) \X X /\ step[<<i, x>>] = CoverWith(body, x, laid[i])
  OBVIOUS
<1>4. step \in [(1 .. n) \X X -> X]
  <2>1. \A p \in (1 .. n) \X X : CoverWith(body, p[2], laid[p[1]]) \in X
    BY CoverWithType
  <2> QED BY <2>1
<1> HIDE DEF step
<1>5. \A s \in SUBSET (1 .. n) : s # {} => Max(s) \in 1 .. n /\ s \ {Max(s)} \in SUBSET (1 .. n)
  BY MaxFacts
<1>6. pose \in X
  OBVIOUS
<1> HIDE DEF X
<1>7. \E f : Iterates(f)
  <2>1. PICK f \in [SUBSET (1 .. n) -> X] : FoldStep(f, pose, step, n, X)
    BY <1>4, <1>6, FoldExists
  <2>2. \A s \in SUBSET (1 .. n) :
          f[s] = IF s = {} THEN pose ELSE CoverWith(body, f[s \ {Max(s)}], laid[Max(s)])
    BY <2>1, <1>3, <1>5 DEF FoldStep
  <2>3. Iterates(f)
    BY <2>1, <2>2
  <2> QED BY <2>3
<1>8. Iterates(it)
  BY <1>7
<1> HIDE DEF it
<1>9. Folds(it, pose, step, n, X)
  <2>1. FoldStep(it, pose, step, n, X)
    BY <1>8, <1>3, <1>5 DEF FoldStep
  <2> QED BY <2>1, <1>4, <1>6 DEF Folds
<1>10. PICK acc : Gathered(acc, pose, step, n, X) /\ it[1 .. n] = acc[n]
  BY <1>9, FoldGathers
<1>11. ASSUME NEW k \in 1 .. n PROVE acc[k] = CoverWith(body, acc[k - 1], laid[k])
  <2>1. k - 1 \in 0 .. n
    OBVIOUS
  <2>2. acc[k - 1] \in X /\ acc[k] = step[<<k, acc[k - 1]>>]
    BY <1>10, <2>1 DEF Gathered
  <2> QED BY <1>3, <2>2
<1>12. Covering(acc, body, pose, laid, n)
  BY <1>10, <1>11 DEF Covering, Gathered, X
<1> QED BY <1>2, <1>10, <1>12

(* The same, asked of one joint and of the scene.                          *)
RootNodes(layer) ==
  {assets[scene].jointNodeIndices[wanted.root] : wanted \in
      {w \in LayerRoots : w.scene = scene /\ Layer(w).mask = layer.mask}}

(* A joint is at or under such a root in the scene.                        *)
Reaches(layer, joint) ==
  RootNodes(layer)
    \cap ToSet(Ancestry(Scenes[scene], assets[scene].jointNodeIndices[joint])) # {}

(* What a layer makes of the transform of one joint, by the scene.         *)
OverJoint(at, layer, joint) ==
  IF layer = Nothing THEN at
  ELSE IF ~ Reaches(layer, joint) THEN at
  ELSE Blend(at, Sampled(skeleton, layer)[joint], layer.weight)

(* What the layers make of it, one after the other.                        *)
FoldOver(at, joint) ==
  LET Over(under, layer) == OverJoint(under, layer, joint) IN FoldLeft(Over, at, layers)

(* LayersCoverTheirSubtrees says of every joint that its transform is what *)
(* the layers make of it by the scene.                                     *)
LEMMA CoverSubtreesSays ==
  LayersCoverTheirSubtrees
    = (Playing => \A joint \in Joints(skeleton) :
         localPose[joint] = FoldOver(FadedPose(skeleton, base, transition)[joint], joint))
  BY DEF LayersCoverTheirSubtrees, FoldOver, OverJoint, Reaches, RootNodes, FoldLeft, MapThenFoldSet

(* The transform of one joint, layer after layer.                          *)
Overlying(acc, at, joint, n) ==
  /\ acc \in [0 .. n -> Transform]
  /\ acc[0] = at
  /\ \A k \in 1 .. n : acc[k] = OverJoint(acc[k - 1], layers[k], joint)

(* FoldOver takes one layer after the other.                               *)
LEMMA OverSteps ==
  ASSUME NEW joint, NEW n \in Nat, DOMAIN layers = 1 .. n,
         \A k \in 1 .. n : layers[k] # Nothing =>
           Sampled(skeleton, layers[k])[joint] \in Transform /\ layers[k].weight \in Int,
         NEW at \in Transform
  PROVE  \E acc : Overlying(acc, at, joint, n) /\ FoldOver(at, joint) = acc[n]
<1> DEFINE X == Transform
           step == [p \in (1 .. n) \X X |-> OverJoint(p[2], layers[p[1]], joint)]
           Iterates(f) == f = [s \in SUBSET (1 .. n) |->
                                 IF s = {} THEN at
                                 ELSE OverJoint(f[s \ {Max(s)}], layers[Max(s)], joint)]
           it == CHOOSE f : Iterates(f)
<1>2. FoldOver(at, joint) = it[1 .. n]
  BY DEF FoldOver, FoldLeft, MapThenFoldSet
<1>3. \A i \in 1 .. n, x \in X :
        <<i, x>> \in (1 .. n) \X X /\ step[<<i, x>>] = OverJoint(x, layers[i], joint)
  OBVIOUS
<1>4. step \in [(1 .. n) \X X -> X]
  <2>1. \A i \in 1 .. n, x \in X : OverJoint(x, layers[i], joint) \in X
    BY BlendType DEF OverJoint
  <2> QED BY <2>1
<1> HIDE DEF step
<1>5. \A s \in SUBSET (1 .. n) : s # {} => Max(s) \in 1 .. n /\ s \ {Max(s)} \in SUBSET (1 .. n)
  BY MaxFacts
<1>6. at \in X
  OBVIOUS
<1> HIDE DEF X
<1>7. \E f : Iterates(f)
  <2>1. PICK f \in [SUBSET (1 .. n) -> X] : FoldStep(f, at, step, n, X)
    BY <1>4, <1>6, FoldExists
  <2>2. \A s \in SUBSET (1 .. n) :
          f[s] = IF s = {} THEN at ELSE OverJoint(f[s \ {Max(s)}], layers[Max(s)], joint)
    BY <2>1, <1>3, <1>5 DEF FoldStep
  <2>3. Iterates(f)
    BY <2>1, <2>2
  <2> QED BY <2>3
<1>8. Iterates(it)
  BY <1>7
<1> HIDE DEF it
<1>9. Folds(it, at, step, n, X)
  <2>1. FoldStep(it, at, step, n, X)
    BY <1>8, <1>3, <1>5 DEF FoldStep
  <2> QED BY <2>1, <1>4, <1>6 DEF Folds
<1>10. PICK acc : Gathered(acc, at, step, n, X) /\ it[1 .. n] = acc[n]
  BY <1>9, FoldGathers
<1>11. ASSUME NEW k \in 1 .. n PROVE acc[k] = OverJoint(acc[k - 1], layers[k], joint)
  <2>1. k - 1 \in 0 .. n
    OBVIOUS
  <2>2. acc[k - 1] \in X /\ acc[k] = step[<<k, acc[k - 1]>>]
    BY <1>10, <2>1 DEF Gathered
  <2> QED BY <1>3, <2>2
<1>12. Overlying(acc, at, joint, n)
  BY <1>10, <1>11 DEF Overlying, Gathered, X
<1> QED BY <1>2, <1>10, <1>12

-----------------------------------------------------------------------------
(***************************************************************************)
(* Layers cover their subtrees                                             *)
(***************************************************************************)
(* What is loaded was built from a sound scene with a sound skin, and its  *)
(* skeleton is valid.                                                      *)
LEMMA LoadedScene ==
  ASSUME NEW s \in Loadable
  PROVE  LET source == Scenes[s]
             skin == Scenes[s].skins[1]
             body == BuiltAssets[s].skeleton
         IN  /\ Sound(source) /\ SoundSkin(source, skin) /\ ValidSkeleton(body)
             /\ body = BuiltSkeleton(source, skin)
             /\ BuiltAssets[s].jointNodeIndices = PosedNodes(source, skin)
<1>1. s \in DOMAIN Scenes /\ CanBuild(Scenes[s], 1) /\ BuiltAssets[s] = Built(Scenes[s], 1)
  BY DEF Loadable, BuiltAssets
<1>2. PICK source, skin : source = Scenes[s] /\ skin = Scenes[s].skins[1]
  OBVIOUS
<1>3. /\ HierarchyAgrees(source) /\ PaletteIsSound(source, skin) /\ 1 \in DOMAIN source.skins
      /\ ValidSkeleton(BuiltSkeleton(source, skin))
  BY <1>1, <1>2 DEF CanBuild
<1>4. IsScene(source)
  BY <1>1, <1>2, GameAssumption
<1>5. IsSequence(skin.joints)
  BY <1>2, <1>3, <1>4 DEF IsScene
<1>6. /\ BuiltAssets[s].skeleton = BuiltSkeleton(source, skin)
      /\ BuiltAssets[s].jointNodeIndices = PosedNodes(source, skin)
  BY <1>1, <1>2 DEF Built
<1> QED BY <1>2, <1>3, <1>4, <1>5, <1>6 DEF Sound, SoundSkin

(* A layer is one that the game put on this character.                     *)
PutOn(layer) ==
  layer # Nothing =>
    \E wanted \in LayerRoots :
      /\ wanted.scene = scene
      /\ layer.mask = DescendantMask(BuiltAssets[scene].skeleton, wanted.root)

(* What is played is played on the skeleton of the scene that is worn, and *)
(* every layer was put on it.                                              *)
Dressed ==
  /\ skeleton # Nothing => scene \in Loadable /\ skeleton = BuiltAssets[scene].skeleton
  /\ base # Nothing => skeleton # Nothing
  /\ \E n \in Nat : DOMAIN layers = 1 .. n
  /\ \A i \in DOMAIN layers : PutOn(layers[i])

(* A layer's mask is full on exactly the joints at or under its root in    *)
(* the scene.                                                              *)
LEMMA MaskReaches ==
  ASSUME Fits, Dressed, skeleton # Nothing, NEW layer, layer # Nothing, PutOn(layer),
         NEW joint \in Joints(skeleton)
  PROVE  MaskWeight(layer.mask, joint) = IF Reaches(layer, joint) THEN Full ELSE 0
<1>1. PICK body : body = skeleton
  OBVIOUS
<1>2. PICK source, skin, posed :
        source = Scenes[scene] /\ skin = Scenes[scene].skins[1] /\ posed = PosedNodes(source, skin)
  OBVIOUS
<1>3. /\ scene \in Loadable /\ body = BuiltAssets[scene].skeleton
      /\ Sound(source) /\ SoundSkin(source, skin) /\ ValidSkeleton(body)
      /\ body = BuiltSkeleton(source, skin)
      /\ assets[scene].jointNodeIndices = posed
      /\ assets = BuiltAssets
  BY <1>1, <1>2, LoadedScene DEF Dressed, Fits
<1>4. PICK own \in LayerRoots : /\ own.scene = scene
                                /\ layer.mask = DescendantMask(body, own.root)
  BY <1>3 DEF PutOn
<1>5. \A wanted \in LayerRoots : wanted.scene = scene => wanted.root \in Joints(body)
  BY <1>3, GameAssumption
<1>6. \A wanted \in LayerRoots : wanted.scene = scene =>
        /\ Layer(wanted).mask = DescendantMask(body, wanted.root)
        /\ DescendantMask(body, wanted.root)[joint]
             = IF posed[wanted.root] \in ToSet(Ancestry(source, posed[joint])) THEN Full ELSE 0
  <2> TAKE wanted \in LayerRoots
  <2> HAVE wanted.scene = scene
  <2>1. wanted.root \in Joints(body) /\ joint \in Joints(body)
    BY <1>1, <1>5
  <2>2. Layer(wanted).mask = DescendantMask(body, wanted.root)
    BY <1>3 DEF Layer
  <2>3. DescendantMask(body, wanted.root)[joint]
          = IF posed[wanted.root] \in ToSet(Ancestry(source, posed[joint])) THEN Full ELSE 0
    BY <1>2, <1>3, <2>1, MaskFollowsTheScene
  <2> QED BY <2>2, <2>3
<1>7. MaskWeight(layer.mask, joint) = layer.mask[joint]
  <2>1. DOMAIN layer.mask # {}
    BY <1>1, <1>4 DEF DescendantMask
  <2>2. layer.mask # << >>
    BY <2>1
  <2> QED BY <2>2 DEF MaskWeight
<1>8. Reaches(layer, joint) <=>
        \E wanted \in LayerRoots : /\ wanted.scene = scene /\ Layer(wanted).mask = layer.mask
                                   /\ posed[wanted.root] \in ToSet(Ancestry(source, posed[joint]))
  BY <1>2, <1>3 DEF Reaches, RootNodes
<1>9. CASE Reaches(layer, joint)
  <2>1. PICK wanted \in LayerRoots :
          /\ wanted.scene = scene /\ Layer(wanted).mask = layer.mask
          /\ posed[wanted.root] \in ToSet(Ancestry(source, posed[joint]))
    BY <1>8, <1>9
  <2>2. layer.mask[joint] = Full
    BY <1>6, <2>1
  <2> QED BY <1>7, <1>9, <2>2
<1>10. CASE ~ Reaches(layer, joint)
  <2>1. Layer(own).mask = layer.mask
    BY <1>4, <1>6
  <2>2. posed[own.root] \notin ToSet(Ancestry(source, posed[joint]))
    BY <1>4, <1>8, <1>10, <2>1
  <2>3. layer.mask[joint] = 0
    BY <1>4, <1>6, <2>2
  <2> QED BY <1>7, <1>10, <2>3
<1> QED BY <1>9, <1>10

(* The pose under the layers is one of the skeleton, or none.              *)
LEMMA FadedType ==
  ASSUME Fits, base # Nothing
  PROVE  FadedPose(skeleton, base, transition) \in Poses(skeleton) \cup {Nothing}
<1>0. ASSUME NEW play \in Playbacks, Suits(play.clip, skeleton)
      PROVE  Sampled(skeleton, play) \in Poses(skeleton)
  <2>1. play.time \in Int
    BY DEF Playbacks
  <2>2. /\ Sampled(skeleton, play) = [joint \in Joints(skeleton) |-> Sampled(skeleton, play)[joint]]
        /\ \A joint \in Joints(skeleton) : Sampled(skeleton, play)[joint] \in Transform
    BY <1>0, <2>1, SampledType
  <2> QED BY <2>2 DEF Poses
<1>1. CASE transition = Nothing
  <2>1. base \in Playbacks /\ Suits(base.clip, skeleton)
    BY DEF Fits
  <2> QED BY <1>0, <1>1, <2>1 DEF FadedPose
<1>2. CASE transition # Nothing
  <2>1. /\ transition.from \in Playbacks /\ transition.to \in Playbacks
        /\ transition.elapsed \in Nat /\ transition.duration \in Nat /\ transition.duration # 0
        /\ Suits(transition.from.clip, skeleton) /\ Suits(transition.to.clip, skeleton)
    BY <1>2 DEF Fits, FadeFits, Fades
  <2>2. PICK weight : weight = (transition.elapsed * Full) \div transition.duration
    OBVIOUS
  <2>3. weight \in Int
    <3>1. \A e, d \in Nat : d # 0 => (e * 4) \div d \in Int
      OBVIOUS
    <3> QED BY <2>1, <2>2, <3>1 DEF Full
  <2>4. \A joint \in Joints(skeleton) : MaskWeight(<< >>, joint) \in Int
    BY DEF MaskWeight, Full
  <2>5. PICK from \in Poses(skeleton), to \in Poses(skeleton) :
          from = Sampled(skeleton, transition.from) /\ to = Sampled(skeleton, transition.to)
    BY <1>0, <2>1
  <2>6. BlendPoses(skeleton, from, to, weight, << >>) \in Poses(skeleton) \cup {Nothing}
    BY <2>3, <2>4, BlendPosesType
  <2> QED BY <1>2, <2>2, <2>5, <2>6 DEF FadedPose
<1> QED BY <1>1, <1>2

(* A layer that is there, and what it lays over the pose.                  *)
LEMMA LayerFacts ==
  ASSUME Fits, Dressed, skeleton # Nothing, NEW layer, LayerFits(layer), PutOn(layer),
         layer # Nothing
  PROVE  /\ layer.weight \in 0 .. Full /\ Sampled(skeleton, layer) \in Poses(skeleton)
         /\ layer.weight = 0 => Laid(skeleton, layer) = Nothing
         /\ layer.weight # 0 =>
              /\ Laid(skeleton, layer) # Nothing
              /\ Laid(skeleton, layer).pose = Sampled(skeleton, layer)
              /\ Laid(skeleton, layer).weight = layer.weight
              /\ Laid(skeleton, layer).mask = layer.mask
         /\ Lies(skeleton, Laid(skeleton, layer))
<1>1. layer \in LayerPlaybacks /\ Suits(layer.clip, skeleton)
  BY DEF LayerFits
<1>2. layer.weight \in 0 .. Full /\ layer.time \in Int /\ layer.mask \in LayerMasks
  BY <1>1 DEF LayerPlaybacks
<1>3. Sampled(skeleton, layer) \in Poses(skeleton)
  <2>1. /\ Sampled(skeleton, layer) = [joint \in Joints(skeleton) |-> Sampled(skeleton, layer)[joint]]
        /\ \A joint \in Joints(skeleton) : Sampled(skeleton, layer)[joint] \in Transform
    BY <1>1, <1>2, SampledType
  <2> QED BY <2>1 DEF Poses
<1>4. CASE layer.weight = 0
  <2>1. Laid(skeleton, layer) = Nothing
    BY <1>4 DEF Laid
  <2> QED BY <1>2, <1>3, <1>4, <2>1 DEF Lies
<1>5. CASE layer.weight # 0
  <2>1. PICK over : over = [pose |-> Sampled(skeleton, layer), weight |-> layer.weight,
                            mask |-> layer.mask]
    OBVIOUS
  <2>2. Laid(skeleton, layer) = over
    BY <1>5, <2>1 DEF Laid
  <2>3. over \in Overlays
    <3>1. scene \in Loadable /\ skeleton = BuiltAssets[scene].skeleton
      BY DEF Dressed
    <3>2. Poses(skeleton) \in
            {[Joints(BuiltAssets[s].skeleton) ->
                [translation : Int, rotation : {-1, 1}, scale : Int]] : s \in Loadable}
      BY <3>1 DEF Poses, Transform
    <3>3. over.pose \in UNION
            {[Joints(BuiltAssets[s].skeleton) ->
                [translation : Int, rotation : {-1, 1}, scale : Int]] : s \in Loadable}
      BY <1>3, <2>1, <3>2
    <3> QED BY <1>2, <2>1, <3>3 DEF Overlays
  <2>4. over # Nothing
    BY <2>3, GameAssumption
  <2>5. \A joint \in Joints(skeleton) : MaskWeight(layer.mask, joint) \in Int
    BY MaskReaches DEF Full
  <2>6. Lies(skeleton, over)
    BY <1>2, <1>3, <2>1, <2>5 DEF Lies, Full
  <2> QED BY <1>2, <1>3, <1>5, <2>1, <2>2, <2>4, <2>6
<1> QED BY <1>4, <1>5

(* One layer: over the whole pose and over one joint.                      *)
LEMMA OneLayer ==
  ASSUME Fits, Dressed, skeleton # Nothing, NEW layer, LayerFits(layer), PutOn(layer),
         NEW under \in Poses(skeleton), NEW joint \in Joints(skeleton),
         CoverWith(skeleton, under, Laid(skeleton, layer)) # Nothing, under # Nothing
  PROVE  CoverWith(skeleton, under, Laid(skeleton, layer))[joint]
           = OverJoint(under[joint], layer, joint)
<1>1. PICK over : over = Laid(skeleton, layer)
  OBVIOUS
<1>2. under[joint] \in Transform /\ under[joint] \in Place
  BY DEF Poses, Transform, Place
<1>3. CASE layer = Nothing
  <2>1. over = Nothing
    BY <1>1, <1>3 DEF Laid
  <2> QED BY <1>1, <1>3, <2>1 DEF CoverWith, OverJoint
<1>4. CASE layer # Nothing
  <2>1. PICK sample \in Poses(skeleton) : sample = Sampled(skeleton, layer)
    BY <1>4, LayerFacts
  <2>2. sample[joint] \in Transform /\ sample[joint] \in Place
    BY DEF Poses, Transform, Place
  <2>3. PICK w \in 0 .. Full : w = layer.weight
    BY <1>4, LayerFacts
  <2>4. CASE w = 0
    <3>1. over = Nothing
      BY <1>1, <1>4, <2>3, <2>4, LayerFacts
    <3>2. Blend(under[joint], sample[joint], 0) = under[joint]
      BY <1>2, <2>2, BlendEnds
    <3>3. OverJoint(under[joint], layer, joint) = under[joint]
      BY <1>4, <2>1, <2>3, <2>4, <3>2 DEF OverJoint
    <3> QED BY <1>1, <3>1, <3>3 DEF CoverWith
  <2>5. CASE w # 0
    <3>1. over # Nothing /\ over.pose = sample /\ over.weight = w /\ over.mask = layer.mask
      BY <1>1, <1>4, <2>1, <2>3, <2>5, LayerFacts
    <3>2. PICK covered : covered = BlendPoses(skeleton, under, sample, w, layer.mask)
      OBVIOUS
    <3>3. CoverWith(skeleton, under, over) = covered /\ covered # Nothing
      BY <1>1, <3>1, <3>2 DEF CoverWith
    <3>4. DOMAIN under = Joints(skeleton)
      BY DEF Poses
    <3>5. covered[joint] = Blend(under[joint], sample[joint],
                                 (w * MaskWeight(layer.mask, joint)) \div Full)
      BY <3>2, <3>3, <3>4 DEF BlendPoses
    <3>6. MaskWeight(layer.mask, joint) = IF Reaches(layer, joint) THEN Full ELSE 0
      BY <1>4, MaskReaches
    <3>7. (w * Full) \div Full = w /\ (w * 0) \div Full = 0
      BY DEF Full
    <3>8. CASE Reaches(layer, joint)
      <4>1. covered[joint] = Blend(under[joint], sample[joint], w)
        BY <3>5, <3>6, <3>7, <3>8
      <4> QED BY <1>1, <1>4, <2>1, <2>3, <3>3, <3>8, <4>1 DEF OverJoint
    <3>9. CASE ~ Reaches(layer, joint)
      <4>1. covered[joint] = Blend(under[joint], sample[joint], 0)
        BY <3>5, <3>6, <3>7, <3>9
      <4>2. Blend(under[joint], sample[joint], 0) = under[joint]
        BY <1>2, <2>2, BlendEnds
      <4> QED BY <1>1, <1>4, <3>3, <3>9, <4>1, <4>2 DEF OverJoint
    <3> QED BY <3>8, <3>9
  <2> QED BY <2>4, <2>5
<1> QED BY <1>3, <1>4

(* Over a dressed character the pose on show is the one that the layers    *)
(* make by the scene, joint by joint.                                      *)
LEMMA LayersLieOver ==
  ASSUME Fits, Dressed, PoseIsCurrent
  PROVE  LayersCoverTheirSubtrees
<1>1. SUFFICES ASSUME Playing, NEW joint \in Joints(skeleton)
               PROVE  localPose[joint] = FoldOver(FadedPose(skeleton, base, transition)[joint], joint)
  BY CoverSubtreesSays
<1>2. base # Nothing /\ skeleton # Nothing
  BY <1>1 DEF Playing, Dressed
<1>3. PICK n \in Nat : DOMAIN layers = 1 .. n
  BY DEF Dressed
<1>4. PICK laid : laid = [i \in DOMAIN layers |-> Laid(skeleton, layers[i])]
  OBVIOUS
<1>5. PICK pose : pose = FadedPose(skeleton, base, transition)
  OBVIOUS
<1>6. /\ localPose = PoseOf(skeleton, base, transition, layers)
      /\ localPose # Nothing
  BY <1>1 DEF PoseIsCurrent, Playing, CanShow
<1>7. \A k \in 1 .. n : LayerFits(layers[k]) /\ PutOn(layers[k])
  BY <1>3 DEF Fits, Dressed
<1>8. \A k \in 1 .. n : Lies(skeleton, laid[k])
  <2> TAKE k \in 1 .. n
  <2>1. laid[k] = Laid(skeleton, layers[k])
    BY <1>3, <1>4
  <2>2. CASE layers[k] = Nothing
    BY <2>1, <2>2 DEF Laid, Lies
  <2>3. CASE layers[k] # Nothing
    BY <1>2, <1>7, <2>1, <2>3, LayerFacts
  <2> QED BY <2>2, <2>3
<1>9. pose \in Poses(skeleton) \cup {Nothing}
  BY <1>2, <1>5, FadedType
<1>10. DOMAIN laid = 1 .. n
  BY <1>3, <1>4
<1>11. PICK acc : /\ Covering(acc, skeleton, pose, laid, n)
                  /\ Covered(skeleton, pose, laid) = acc[n]
  BY <1>8, <1>9, <1>10, CoveredSteps
<1>12. localPose = acc[n]
  BY <1>4, <1>5, <1>6, <1>11 DEF PoseOf
<1>13. \A k \in 1 .. n : acc[k] = CoverWith(skeleton, acc[k - 1], laid[k])
  BY <1>11 DEF Covering
<1>14. ASSUME NEW k \in 0 .. n PROVE acc[k] # Nothing
  <2>1. SUFFICES ASSUME acc[k] = Nothing PROVE FALSE
    OBVIOUS
  <2>2. PICK d \in Nat : d = n - k
    <3>1. n - k \in Nat
      OBVIOUS
    <3> QED BY <3>1
  <2> DEFINE Good == {m \in 0 .. d : acc[k + m] = Nothing}
  <2>3. 0 \in Good
    BY <2>1, <2>2
  <2>4. ASSUME NEW m \in 0 .. (d - 1), m \in Good PROVE m + 1 \in Good
    <3>1. k + (m + 1) \in 1 .. n /\ (k + (m + 1)) - 1 = k + m /\ m + 1 \in 0 .. d
      BY <2>2
    <3>2. acc[k + (m + 1)] = CoverWith(skeleton, acc[k + m], laid[k + (m + 1)])
      BY <1>13, <3>1
    <3>3. acc[k + (m + 1)] = Nothing
      BY <2>4, <3>2 DEF CoverWith
    <3> QED BY <3>1, <3>3
  <2>5. d \in Good
    <3>1. d \in 0 .. d
      BY <2>2
    <3> HIDE DEF Good
    <3> QED BY <2>2, <2>3, <2>4, <3>1, UpTo
  <2>6. k + d = n
    BY <2>2
  <2> QED BY <1>6, <1>12, <2>5, <2>6
<1>15. \A k \in 0 .. n : acc[k] \in Poses(skeleton)
  BY <1>11, <1>14 DEF Covering
<1>16. pose = acc[0] /\ 0 \in 0 .. n
  BY <1>11 DEF Covering
<1>17. pose[joint] \in Transform
  BY <1>15, <1>16 DEF Poses
<1>18. \A k \in 1 .. n : layers[k] # Nothing =>
         Sampled(skeleton, layers[k])[joint] \in Transform /\ layers[k].weight \in Int
  <2> TAKE k \in 1 .. n
  <2> HAVE layers[k] # Nothing
  <2>1. layers[k].weight \in 0 .. Full /\ Sampled(skeleton, layers[k]) \in Poses(skeleton)
    BY <1>2, <1>7, LayerFacts
  <2> QED BY <2>1 DEF Poses, Full
<1>19. PICK at : Overlying(at, pose[joint], joint, n) /\ FoldOver(pose[joint], joint) = at[n]
  BY <1>3, <1>17, <1>18, OverSteps
<1>20. \A k \in 1 .. n : at[k] = OverJoint(at[k - 1], layers[k], joint)
  BY <1>19 DEF Overlying
<1> DEFINE Same == {k \in 0 .. n : acc[k][joint] = at[k]}
<1>21. 0 \in Same
  BY <1>16, <1>19 DEF Overlying
<1>22. ASSUME NEW k \in 0 .. (n - 1), k \in Same PROVE k + 1 \in Same
  <2>1. k + 1 \in 1 .. n /\ (k + 1) - 1 = k /\ k + 1 \in 0 .. n /\ k \in 0 .. n
    OBVIOUS
  <2>2. acc[k + 1] = CoverWith(skeleton, acc[k], Laid(skeleton, layers[k + 1]))
    BY <1>3, <1>4, <1>13, <2>1
  <2>3. at[k + 1] = OverJoint(acc[k][joint], layers[k + 1], joint)
    BY <1>20, <1>22, <2>1
  <2>4. PICK layer : layer = layers[k + 1]
    OBVIOUS
  <2>5. PICK under \in Poses(skeleton) : under = acc[k]
    BY <1>15, <2>1
  <2>6. /\ LayerFits(layer) /\ PutOn(layer) /\ under # Nothing
        /\ CoverWith(skeleton, under, Laid(skeleton, layer)) # Nothing
    BY <1>7, <1>14, <2>1, <2>2, <2>4, <2>5
  <2>7. CoverWith(skeleton, under, Laid(skeleton, layer))[joint]
          = OverJoint(under[joint], layer, joint)
    BY <1>1, <1>2, <2>6, OneLayer
  <2> QED BY <2>1, <2>2, <2>3, <2>4, <2>5, <2>7
<1>23. n \in Same
  <2>1. n \in 0 .. n
    OBVIOUS
  <2> HIDE DEF Same
  <2> QED BY <1>21, <1>22, <2>1, UpTo
<1> QED BY <1>5, <1>12, <1>19, <1>23

(***************************************************************************)
(* Every step leaves a dressed character dressed.                          *)
(***************************************************************************)
(* Layers that were put on the skeleton which stays leave the character    *)
(* dressed.                                                                *)
LEMMA SameDress ==
  ASSUME Dressed, UNCHANGED <<skeleton, scene>>, base' # Nothing => skeleton # Nothing,
         \E n \in Nat : DOMAIN layers' = 1 .. n,
         \A i \in DOMAIN layers' : PutOn(layers'[i])
  PROVE  Dressed'
<1>1. \A i \in DOMAIN layers' : PutOn(layers[i])'
  BY DEF PutOn
<1> QED BY <1>1 DEF Dressed

(* A refused call leaves a dressed character dressed.                      *)
LEMMA RefuseDressed ==
  ASSUME Dressed, Refuse, scene' = scene
  PROVE  Dressed'
<1>1. UNCHANGED <<skeleton, base, layers>>
  BY DEF Refuse, playback
<1> QED BY <1>1, SameDress DEF Dressed

(* Loading another asset takes off what was put on the old one.            *)
LEMMA WearDressed ==
  ASSUME Fits, NEW s \in Loaded, Wear(s)
  PROVE  Dressed'
<1>1. s \in Loadable /\ assets[s].skeleton = BuiltAssets[s].skeleton /\ scene' = s
  BY DEF Wear, Fits, Loaded, Loadable
<1>2. ValidSkeleton(assets[s].skeleton)
  BY <1>1, LoadedScene
<1>3. base' = Nothing /\ layers' = << >> /\ skeleton' \in {assets[s].skeleton, Nothing}
  BY <1>2 DEF Wear, SetSkeleton
<1>4. DOMAIN layers' = 1 .. 0 /\ 0 \in Nat
  BY <1>3
<1>5. \A i \in DOMAIN layers' : FALSE
  BY <1>4
<1> QED BY <1>1, <1>3, <1>4, <1>5 DEF Dressed

(* play leaves the layers as they are.                                     *)
LEMMA StartDressed ==
  ASSUME Dressed, NEW play, Start(play)
  PROVE  Dressed'
<1>1. scene' = scene
  BY DEF Start
<1>2. CASE ~Playable(Playback(play))
  BY <1>1, <1>2, RefuseDressed DEF Start, Play
<1>3. CASE Playable(Playback(play))
  <2>1. UNCHANGED <<skeleton, layers>> /\ skeleton # Nothing
    BY <1>3 DEF Start, Play, Playable
  <2> QED BY <1>1, <2>1, SameDress DEF Dressed
<1> QED BY <1>2, <1>3

(* crossFade leaves the layers as they are.                                *)
LEMMA FadeDressed ==
  ASSUME Dressed, NEW play, NEW duration, Fade(play, duration)
  PROVE  Dressed'
<1>1. UNCHANGED <<scene, skeleton, base, layers>>
  BY DEF Fade, CrossFade, Refuse, playback
<1> QED BY <1>1, SameDress DEF Dressed

(* setLayer puts a layer with the mask of its root on the skeleton that is *)
(* worn.                                                                   *)
LEMMA PutDressed ==
  ASSUME Fits, Dressed, NEW slot \in Nat \ {0}, NEW wanted \in Asked(LayerRoots), Put(slot, wanted)
  PROVE  Dressed'
<1>1. scene' = scene
  BY DEF Put
<1>2. CASE ~CanLayer(slot, Layer(wanted))
  BY <1>1, <1>2, RefuseDressed DEF Put, SetLayer
<1>3. CASE CanLayer(slot, Layer(wanted))
  <2>1. layers' = Filled(slot, Layer(wanted)) /\ UNCHANGED <<skeleton, base>>
    BY <1>3 DEF Put, SetLayer
  <2>2. wanted \in LayerRoots /\ wanted.scene = scene
    BY DEF Asked
  <2>3. Layer(wanted).mask = DescendantMask(BuiltAssets[scene].skeleton, wanted.root)
    BY <2>2 DEF Layer, Fits
  <2>4. PutOn(Layer(wanted)) /\ PutOn(Nothing)
    BY <2>2, <2>3 DEF PutOn
  <2>5. PICK n \in Nat : DOMAIN layers = 1 .. n
    BY DEF Dressed
  <2>6. \E m \in Nat : DOMAIN layers' = 1 .. m
    <3>1. DOMAIN layers' = 1 .. (IF slot > Len(layers) THEN slot ELSE Len(layers))
      BY <2>1 DEF Filled
    <3>2. Len(layers) = n
      BY <2>5, LengthByDomain
    <3> QED BY <3>1, <3>2
  <2>7. \A i \in DOMAIN layers' : PutOn(layers'[i])
    BY <2>1, <2>4 DEF Filled, Dressed
  <2> QED BY <1>1, <2>1, <2>6, <2>7, SameDress DEF Dressed
<1> QED BY <1>2, <1>3

(* Clearing a layer, or all, leaves those that were put on.                *)
LEMMA TakeDressed ==
  ASSUME Dressed, NEW slot \in DOMAIN layers, Take(slot)
  PROVE  Dressed'
<1>1. UNCHANGED <<scene, skeleton, base>>
  BY DEF Take, ClearLayer, ClearLayers
<1>2. layers' = [layers EXCEPT ![slot] = Nothing] \/ layers' = << >>
  BY DEF Take, ClearLayer, ClearLayers, Relayer
<1>3. PutOn(Nothing)
  BY DEF PutOn
<1>4. \A i \in DOMAIN layers' : PutOn(layers'[i])
  BY <1>2, <1>3 DEF Dressed
<1>5. \E n \in Nat : DOMAIN layers' = 1 .. n
  <2>1. DOMAIN << >> = 1 .. 0
    OBVIOUS
  <2> QED BY <1>2, <2>1 DEF Dressed
<1> QED BY <1>1, <1>4, <1>5, SameDress DEF Dressed

(* Choosing the root motion joint leaves the layers as they are.           *)
LEMMA RootDressed ==
  ASSUME Dressed, NEW joint, Root(joint)
  PROVE  Dressed'
<1>1. UNCHANGED <<scene, skeleton, base, layers>>
  BY DEF Root, SetRootMotionJoint, Refuse, playback
<1> QED BY <1>1, SameDress DEF Dressed

(* Time moves a layer but not its mask.                                    *)
LEMMA MovedPutOn ==
  ASSUME NEW layer, LayerFits(layer), PutOn(layer), NEW deltaSeconds \in Nat
  PROVE  /\ PutOn(Moved(layer, deltaSeconds))
         /\ PutOn(Compacted(Moved(layer, deltaSeconds)))
<1>1. CASE layer = Nothing
  BY <1>1 DEF Moved, Compacted
<1>2. CASE layer # Nothing
  <2>1. layer \in LayerPlaybacks /\ Suits(layer.clip, skeleton) /\ deltaSeconds \in Int
    BY <1>2 DEF LayerFits
  <2>2. PICK moved : moved = Moved(layer, deltaSeconds)
    OBVIOUS
  <2>3. moved \in LayerPlaybacks /\ moved.clip = layer.clip
    BY <2>1, <2>2, MovedShape
  <2>4. moved.mask = layer.mask
    BY <1>2, <2>1, <2>2 DEF Moved, LayerPlaybacks
  <2>5. Compacted(moved).mask = moved.mask
    BY <2>1, <2>3, CompactedShape
  <2> QED BY <1>2, <2>2, <2>4, <2>5 DEF PutOn
<1> QED BY <1>1, <1>2

(* A frame moves the layers' times only.                                   *)
LEMMA FrameDressed ==
  ASSUME Fits, Dressed, NEW deltaSeconds \in Steps, Frame(deltaSeconds)
  PROVE  Dressed'
<1>1. scene' = scene /\ deltaSeconds \in Nat
  BY GameAssumption DEF Frame
<1>2. CASE skeleton = Nothing \/ base = Nothing
  <2>1. Refuse
    BY <1>2 DEF Frame, Update
  <2> QED BY <1>1, <2>1, RefuseDressed
<1>3. CASE skeleton # Nothing /\ base # Nothing
  <2>1. PICK over : over = [i \in DOMAIN layers |-> Moved(layers[i], deltaSeconds)]
    OBVIOUS
  <2>2. /\ skeleton' = skeleton
        /\ layers' = over \/ layers' = [i \in DOMAIN over |-> Compacted(over[i])]
    <3>1. Update(deltaSeconds) /\ ~(deltaSeconds < 0)
      BY <1>1 DEF Frame
    <3> QED BY <1>3, <2>1, <3>1 DEF Update, Settled
  <2>3. DOMAIN layers' = DOMAIN layers
    BY <2>1, <2>2
  <2>4. \A i \in DOMAIN layers :
          /\ PutOn(Moved(layers[i], deltaSeconds))
          /\ PutOn(Compacted(Moved(layers[i], deltaSeconds)))
    BY <1>1, MovedPutOn DEF Fits, Dressed
  <2>5. \A i \in DOMAIN layers' : PutOn(layers'[i])
    BY <2>1, <2>2, <2>4
  <2> QED BY <1>1, <1>3, <2>2, <2>3, <2>5, SameDress DEF Dressed
<1> QED BY <1>2, <1>3

(* Nothing is worn to begin with.                                          *)
LEMMA InitDressed ==
  ASSUME Init
  PROVE  Dressed
<1>1. skeleton = Nothing /\ base = Nothing /\ layers = << >>
  BY DEF Init, RuntimeInit
<1>2. DOMAIN layers = 1 .. 0 /\ 0 \in Nat
  BY <1>1
<1>3. \A i \in DOMAIN layers : FALSE
  BY <1>2
<1> QED BY <1>1, <1>2, <1>3 DEF Dressed

(* Every step leaves a dressed character dressed.                          *)
LEMMA DressedStep ==
  ASSUME Fits, Dressed, [Next]_vars
  PROVE  Dressed'
<1>1. ASSUME NEW s \in Loaded, Wear(s) PROVE Dressed'
  BY <1>1, WearDressed
<1>2. ASSUME NEW play \in Asked(Plays), Start(play) PROVE Dressed'
  BY <1>2, StartDressed
<1>3. ASSUME NEW play \in Asked(Plays), NEW duration \in FadeTimes, Fade(play, duration)
      PROVE  Dressed'
  BY <1>3, FadeDressed
<1>4. ASSUME NEW slot \in 1 .. MaxRuntimeLayers + 1, NEW wanted \in Asked(LayerRoots),
             Put(slot, wanted)
      PROVE  Dressed'
  <2>1. slot \in Nat \ {0}
    BY AnimationConstants
  <2> QED BY <1>4, <2>1, PutDressed
<1>5. ASSUME NEW slot \in DOMAIN layers, Take(slot) PROVE Dressed'
  BY <1>5, TakeDressed
<1>6. ASSUME NEW joint \in RootJoints, Root(joint) PROVE Dressed'
  BY <1>6, RootDressed
<1>7. ASSUME NEW deltaSeconds \in Steps, Frame(deltaSeconds) PROVE Dressed'
  BY <1>7, FrameDressed
<1>8. CASE UNCHANGED vars
  <2>1. UNCHANGED <<scene, skeleton, base, layers>>
    BY <1>8 DEF vars, runtime, playback
  <2> QED BY <2>1, SameDress DEF Dressed
<1> QED BY <1>1, <1>2, <1>3, <1>4, <1>5, <1>6, <1>7, <1>8 DEF Next

(* A layer moves exactly the joints at or under its root in the glTF scene *)
(* (LayersCoverTheirSubtrees): the mask is made of the skeleton, and the   *)
(* skeleton, which leaves nodes out and orders the rest anew, keeps the    *)
(* ancestry of every node that it poses.                                   *)
THEOREM LayersMoveWhatIsUnderThem == Spec => []LayersCoverTheirSubtrees
<1>1. Init => Fits /\ PoseIsCurrent /\ Dressed
  BY InitFits, InitDressed
<1>2. Fits /\ PoseIsCurrent /\ Dressed /\ [Next]_vars => Fits' /\ PoseIsCurrent' /\ Dressed'
  BY FitsStep, DressedStep
<1>3. Fits /\ PoseIsCurrent /\ Dressed => LayersCoverTheirSubtrees
  BY LayersLieOver
<1> QED BY <1>1, <1>2, <1>3, PTL DEF Spec

-----------------------------------------------------------------------------
(*****************************************************************************)
(* Walks up the scene that end                                               *)
(*****************************************************************************)
(* A walk that ends at a root names no node twice.                         *)
LEMMA RootedShort ==
  ASSUME NEW source, Sound(source), NEW start \in NodeIndices(source), Grounded(source, start)
  PROVE  Len(Ancestry(source, start)) <= Len(source.nodes)
<1>1. PICK path : path = Ancestry(source, start)
  OBVIOUS
<1>2. WalkUp(source, start, path)
  BY <1>1, AncestryFacts
<1>3. PICK n \in Nat : n = Len(path) /\ n >= 1 /\ DOMAIN path = 1 .. n
  BY <1>2 DEF WalkUp
<1>4. Parent(source, path[n]) = -1
  BY <1>1, <1>3 DEF Grounded
<1>5. Len(source.nodes) \in Nat
  BY NodeFacts
<1>6. SUFFICES ASSUME n > Len(source.nodes) PROVE FALSE
  BY <1>1, <1>3, <1>5
<1>7. PICK x \in 1 .. n, y \in 1 .. n : x < y /\ path[x] = path[y]
  BY <1>2, <1>3, <1>6, Crowded DEF WalkUp
<1>8. PICK z \in 1 .. (n - 1) : path[z] = path[n]
  BY <1>2, <1>3, <1>7, Repeats
<1>9. Parent(source, path[z]) = path[z + 1] /\ z + 1 \in 1 .. n
  BY <1>2, <1>3, <1>8 DEF WalkUp
<1>10. path[z + 1] \in NodeIndices(source)
  BY <1>2, <1>3, <1>9 DEF WalkUp
<1> QED BY <1>4, <1>8, <1>9, <1>10, NodeFacts

(* The walk up from a node is the node and the walk up from its parent.    *)
LEMMA ChildAncestry ==
  ASSUME NEW source, Sound(source), NEW start \in NodeIndices(source),
         Parent(source, start) \in NodeIndices(source), Grounded(source, Parent(source, start)),
         NEW up, up = Ancestry(source, Parent(source, start)),
         NEW path, path = Ancestry(source, start)
  PROVE  /\ Len(up) \in Nat /\ Len(path) = Len(up) + 1 /\ path[1] = start
         /\ \A i \in 1 .. Len(up) : path[i + 1] = up[i]
<1>1. PICK above : above = Parent(source, start)
  OBVIOUS
<1>2. WalkUp(source, above, up) /\ WalkUp(source, start, path)
  BY <1>1, AncestryFacts
<1>3. PICK m \in Nat : m = Len(up) /\ m >= 1 /\ DOMAIN up = 1 .. m
  BY <1>2 DEF WalkUp
<1>4. PICK n \in Nat : n = Len(path) /\ n >= 1 /\ DOMAIN path = 1 .. n
  BY <1>2 DEF WalkUp
<1>5. PICK l \in Nat : l = Len(source.nodes)
  BY NodeFacts
<1>6. up[m] \in NodeIndices(source) /\ Parent(source, up[m]) = -1 /\ m <= l
  BY <1>1, <1>2, <1>3, <1>5, RootedShort DEF Grounded, WalkUp
<1>7. n <= l => Parent(source, path[n]) = -1
  BY <1>4, <1>5, AncestryFacts
<1>8. path[1] = start /\ up[1] = above
  BY <1>2 DEF WalkUp
<1>9. n # 1
  <2>1. SUFFICES ASSUME n = 1 PROVE FALSE
    OBVIOUS
  <2>2. Parent(source, path[n]) = above /\ above \in NodeIndices(source)
    BY <1>1, <1>8, <2>1
  <2>3. n <= l
    BY <1>3, <1>6, <2>1
  <2> QED BY <1>7, <2>2, <2>3, NodeFacts
<1> DEFINE Good == {i \in 0 .. m : i \in 1 .. m /\ i < n => path[i + 1] = up[i]}
<1>10. \A i \in 1 .. (n - 1) : Parent(source, path[i]) = path[i + 1]
  BY <1>2, <1>4 DEF WalkUp
<1>11. \A i \in 1 .. (m - 1) : Parent(source, up[i]) = up[i + 1]
  BY <1>2, <1>3 DEF WalkUp
<1>12. 0 \in Good
  BY <1>3
<1>13. ASSUME NEW i \in 0 .. (m - 1), i \in Good PROVE i + 1 \in Good
  <2>1. i \in Nat /\ i + 1 \in 0 .. m /\ i + 1 \in 1 .. m
    BY <1>3
  <2>2. SUFFICES ASSUME i + 1 < n PROVE path[(i + 1) + 1] = up[i + 1]
    BY <2>1
  <2>3. i + 1 \in 1 .. (n - 1)
    BY <1>4, <2>1, <2>2
  <2>4. Parent(source, path[i + 1]) = path[(i + 1) + 1]
    BY <1>10, <2>3
  <2>5. CASE i = 0
    BY <1>1, <1>8, <2>4, <2>5
  <2>6. CASE i # 0
    <3>1. i \in 1 .. m /\ i < n /\ i \in 1 .. (m - 1)
      BY <1>4, <2>1, <2>2, <2>6
    <3>2. path[i + 1] = up[i]
      BY <1>13, <3>1
    <3>3. Parent(source, up[i]) = up[i + 1]
      BY <1>11, <3>1
    <3> QED BY <2>4, <3>2, <3>3
  <2> QED BY <2>5, <2>6
<1>14. \A i \in 1 .. m : i < n => path[i + 1] = up[i]
  <2>1. 0 .. m \subseteq Good
    <3> HIDE DEF Good
    <3> QED BY <1>12, <1>13, UpTo
  <2> QED BY <2>1
<1>15. n <= m + 1
  <2>1. SUFFICES ASSUME n > m + 1 PROVE FALSE
    BY <1>3, <1>4
  <2>2. path[m + 1] = up[m] /\ m + 1 \in 1 .. (n - 1) /\ (m + 1) + 1 \in 1 .. n
    BY <1>3, <1>4, <1>14, <2>1
  <2>3. path[(m + 1) + 1] = -1
    BY <1>6, <1>10, <2>2
  <2>4. path[(m + 1) + 1] \in NodeIndices(source)
    BY <1>2, <1>4, <2>2 DEF WalkUp
  <2> QED BY <2>3, <2>4, NodeFacts
<1>16. n = m + 1
  <2>1. SUFFICES ASSUME n < m + 1 PROVE FALSE
    BY <1>3, <1>4, <1>15
  <2>2. n <= l /\ n - 1 \in 1 .. (m - 1) /\ n - 1 < n /\ (n - 1) + 1 = n /\ n \in 1 .. m
    BY <1>3, <1>4, <1>6, <1>9, <2>1
  <2>3. path[n] = up[n - 1]
    BY <1>14, <2>2
  <2>4. Parent(source, up[n - 1]) = up[n]
    BY <1>11, <2>2
  <2>5. up[n] \in NodeIndices(source)
    BY <1>2, <1>3, <2>2 DEF WalkUp
  <2> QED BY <1>7, <2>2, <2>3, <2>4, <2>5, NodeFacts
<1> QED BY <1>3, <1>4, <1>8, <1>14, <1>16

(* The walk up from a root is the root.                                    *)
LEMMA RootAncestry ==
  ASSUME NEW source, Sound(source), NEW start \in NodeIndices(source),
         Parent(source, start) = -1
  PROVE  Len(Ancestry(source, start)) = 1 /\ Ancestry(source, start)[1] = start
<1>1. PICK path : path = Ancestry(source, start)
  OBVIOUS
<1>2. WalkUp(source, start, path)
  BY <1>1, AncestryFacts
<1>3. PICK n \in Nat : n = Len(path) /\ n >= 1 /\ DOMAIN path = 1 .. n /\ path[1] = start
  BY <1>2 DEF WalkUp
<1>4. n = 1
  <2>1. SUFFICES ASSUME n # 1 PROVE FALSE
    OBVIOUS
  <2>2. 1 \in 1 .. (n - 1) /\ 2 \in 1 .. n
    BY <1>3, <2>1
  <2>3. Parent(source, path[1]) = path[1 + 1] /\ path[2] \in NodeIndices(source)
    BY <1>2, <1>3, <2>2 DEF WalkUp
  <2> QED BY <1>3, <2>3, NodeFacts
<1> QED BY <1>1, <1>3, <1>4
-----------------------------------------------------------------------------
(* Maps of the one axis are a monoid.                                      *)
Matrices == [linear : Int, offset : Int]

LEMMA Products ==
  ASSUME NEW a \in Matrices, NEW b \in Matrices, NEW c \in Matrices
  PROVE  /\ Multiply(a, b) \in Matrices
         /\ Multiply(a, Multiply(b, c)) = Multiply(Multiply(a, b), c)
         /\ Multiply(a, IdentityMatrix) = a /\ Multiply(IdentityMatrix, a) = a
<1>1. /\ a.linear \in Int /\ a.offset \in Int /\ b.linear \in Int /\ b.offset \in Int
      /\ c.linear \in Int /\ c.offset \in Int
      /\ a = [linear |-> a.linear, offset |-> a.offset]
  BY DEF Matrices
<1>2. \A x, y, z \in Int : x * (y * z) = (x * y) * z
  OBVIOUS
<1>3. \A x, y, z \in Int : x * (y + z) = x * y + x * z
  OBVIOUS
<1>4. \A x, y, z \in Int : x + (y + z) = (x + y) + z
  OBVIOUS
<1>5. \A x, y \in Int : x * y \in Int /\ x + y \in Int
  OBVIOUS
<1>6. \A x \in Int : x * 1 = x /\ 1 * x = x /\ x * 0 = 0 /\ 0 + x = x /\ x + 0 = x
  OBVIOUS
<1>7. PICK al \in Int, ao \in Int, bl \in Int, bo \in Int, cl \in Int, co \in Int :
        /\ al = a.linear /\ ao = a.offset /\ bl = b.linear /\ bo = b.offset
        /\ cl = c.linear /\ co = c.offset
  BY <1>1
<1>8. Multiply(a, b) = [linear |-> al * bl, offset |-> al * bo + ao]
  BY <1>7 DEF Multiply
<1>9. Multiply(b, c) = [linear |-> bl * cl, offset |-> bl * co + bo]
  BY <1>7 DEF Multiply
<1>10. Multiply(a, Multiply(b, c))
         = [linear |-> al * (bl * cl), offset |-> al * (bl * co + bo) + ao]
  BY <1>7, <1>9 DEF Multiply
<1>11. Multiply(Multiply(a, b), c)
         = [linear |-> (al * bl) * cl, offset |-> (al * bl) * co + (al * bo + ao)]
  BY <1>7, <1>8 DEF Multiply
<1>12. al * (bl * co + bo) + ao = (al * bl) * co + (al * bo + ao)
  <2>1. PICK bc \in Int : bc = bl * co
    BY <1>5
  <2>2. PICK abc \in Int, ab \in Int : abc = al * bc /\ ab = al * bo
    BY <1>5
  <2>3. al * (bc + bo) = abc + ab
    BY <1>3, <2>2
  <2>4. (al * bl) * co = abc
    BY <1>2, <2>1, <2>2
  <2>5. (abc + ab) + ao = abc + (ab + ao)
    BY <1>4
  <2> QED BY <2>1, <2>2, <2>3, <2>4, <2>5
<1>13. al * (bl * cl) = (al * bl) * cl
  BY <1>2
<1>14. Multiply(a, b) \in Matrices
  BY <1>5, <1>8 DEF Matrices
<1>15. Multiply(a, IdentityMatrix) = [linear |-> al * 1, offset |-> al * 0 + ao]
  BY <1>7 DEF Multiply, IdentityMatrix
<1>16. Multiply(IdentityMatrix, a) = [linear |-> 1 * al, offset |-> 1 * ao + 0]
  BY <1>7 DEF Multiply, IdentityMatrix
<1>17. Multiply(a, IdentityMatrix) = a /\ Multiply(IdentityMatrix, a) = a
  BY <1>1, <1>6, <1>7, <1>15, <1>16
<1> QED BY <1>10, <1>11, <1>12, <1>13, <1>14, <1>17

-----------------------------------------------------------------------------
(*****************************************************************************)
(* The product along a walk                                                  *)
(*****************************************************************************)
(* The product along a walk up the scene, node after node.                 *)
Ascending(acc, source, animation, path, time) ==
  /\ acc \in [0 .. Len(path) -> Matrices]
  /\ acc[0] = IdentityMatrix
  /\ \A k \in 1 .. Len(path) :
       acc[k] = Multiply(Matrix(SceneTransform(source, animation, path[k], time)), acc[k - 1])

(* SceneMatrix is the product along the walk up from a node.               *)
LEMMA SceneSteps ==
  ASSUME NEW source, NEW animation, NEW time, NEW index,
         NEW path, path = Ancestry(source, index), NEW S, path \in Seq(S),
         \A i \in DOMAIN path : Matrix(SceneTransform(source, animation, path[i], time)) \in Matrices
  PROVE  \E acc : /\ Ascending(acc, source, animation, path, time)
                  /\ SceneMatrix(source, animation, index, time) = acc[Len(path)]
<1>1. PICK n \in Nat : n = Len(path) /\ DOMAIN path = 1 .. n
  OBVIOUS
<1> DEFINE X == Matrices
           Under(matrix, node) ==
             Multiply(Matrix(SceneTransform(source, animation, node, time)), matrix)
           step == [p \in (1 .. n) \X X |-> Under(p[2], path[p[1]])]
           Iterates(f) == f = [s \in SUBSET (1 .. n) |->
                                 IF s = {} THEN IdentityMatrix
                                 ELSE Under(f[s \ {Max(s)}], path[Max(s)])]
           it == CHOOSE f : Iterates(f)
<1>2. SceneMatrix(source, animation, index, time) = it[1 .. n]
  BY <1>1 DEF SceneMatrix, FoldLeft, MapThenFoldSet
<1>3. \A i \in 1 .. n, x \in X : <<i, x>> \in (1 .. n) \X X /\ step[<<i, x>>] = Under(x, path[i])
  OBVIOUS
<1>4. step \in [(1 .. n) \X X -> X]
  <2>1. \A p \in (1 .. n) \X X : Under(p[2], path[p[1]]) \in X
    BY <1>1, Products
  <2> QED BY <2>1
<1> HIDE DEF step
<1>5. \A s \in SUBSET (1 .. n) : s # {} => Max(s) \in 1 .. n /\ s \ {Max(s)} \in SUBSET (1 .. n)
  BY MaxFacts
<1>6. IdentityMatrix \in X
  BY DEF IdentityMatrix, Matrices
<1> HIDE DEF X, Under
<1>7. \E f : Iterates(f)
  <2>1. PICK f \in [SUBSET (1 .. n) -> X] : FoldStep(f, IdentityMatrix, step, n, X)
    BY <1>4, <1>6, FoldExists
  <2>2. \A s \in SUBSET (1 .. n) :
          f[s] = IF s = {} THEN IdentityMatrix ELSE Under(f[s \ {Max(s)}], path[Max(s)])
    BY <2>1, <1>3, <1>5 DEF FoldStep
  <2>3. Iterates(f)
    BY <2>1, <2>2
  <2> QED BY <2>3
<1>8. Iterates(it)
  BY <1>7
<1> HIDE DEF it
<1>9. Folds(it, IdentityMatrix, step, n, X)
  <2>1. FoldStep(it, IdentityMatrix, step, n, X)
    BY <1>8, <1>3, <1>5 DEF FoldStep
  <2> QED BY <2>1, <1>4, <1>6 DEF Folds
<1>10. PICK acc : Gathered(acc, IdentityMatrix, step, n, X) /\ it[1 .. n] = acc[n]
  BY <1>9, FoldGathers
<1>11. ASSUME NEW k \in 1 .. n PROVE acc[k] = Under(acc[k - 1], path[k])
  <2>1. k - 1 \in 0 .. n
    OBVIOUS
  <2>2. acc[k - 1] \in X /\ acc[k] = step[<<k, acc[k - 1]>>]
    BY <1>10, <2>1 DEF Gathered
  <2> QED BY <1>3, <2>2
<1>12. Ascending(acc, source, animation, path, time)
  BY <1>1, <1>10, <1>11 DEF Ascending, Gathered, X, Under
<1> QED BY <1>1, <1>2, <1>10, <1>12

(* Nodes whose transforms are numbers, with every ancestor of theirs.      *)
Placed(source, animation, time, nodes) ==
  /\ nodes \subseteq NodeIndices(source)
  /\ ClosedUp(source, nodes)
  /\ \A node \in nodes :
       Matrix(SceneTransform(source, animation, node, time)) \in Matrices

(* A walk up from such a node meets such nodes only.                       *)
LEMMA WalkPlaced ==
  ASSUME NEW source, Sound(source), NEW nodes, nodes \subseteq NodeIndices(source),
         ClosedUp(source, nodes), NEW start \in nodes
  PROVE  Ancestry(source, start) \in Seq(nodes)
<1>1. PICK path : path = Ancestry(source, start)
  OBVIOUS
<1>2. WalkUp(source, start, path)
  BY <1>1, AncestryFacts
<1>3. PICK n \in Nat : n = Len(path) /\ n >= 1 /\ DOMAIN path = 1 .. n
  BY <1>2 DEF WalkUp
<1> DEFINE Good == {k \in 0 .. n : \A i \in 1 .. k : path[i] \in nodes}
<1>4. 0 \in Good
  OBVIOUS
<1>5. ASSUME NEW k \in 0 .. (n - 1), k \in Good PROVE k + 1 \in Good
  <2>1. k \in Nat /\ k + 1 \in 1 .. n /\ k + 1 \in 0 .. n
    OBVIOUS
  <2>2. path[k + 1] \in nodes
    <3>1. CASE k = 0
      BY <1>2, <3>1 DEF WalkUp
    <3>2. CASE k # 0
      <4>1. k \in 1 .. (n - 1) /\ k \in 1 .. k
        BY <2>1, <3>2
      <4>2. Parent(source, path[k]) = path[k + 1] /\ path[k] \in nodes
        BY <1>2, <1>3, <1>5, <4>1 DEF WalkUp
      <4>3. path[k + 1] \in NodeIndices(source)
        BY <1>2, <1>3, <2>1 DEF WalkUp
      <4> QED BY <4>2, <4>3, NodeFacts DEF ClosedUp
    <3> QED BY <3>1, <3>2
  <2>3. \A i \in 1 .. (k + 1) : i = k + 1 \/ i \in 1 .. k
    BY <2>1
  <2> QED BY <1>5, <2>1, <2>2, <2>3
<1>6. n \in Good
  <2>1. n \in 0 .. n
    OBVIOUS
  <2> HIDE DEF Good
  <2> QED BY <1>4, <1>5, <2>1, UpTo
<1>7. path \in Seq(nodes)
  <2>1. \A i \in 1 .. n : path[i] \in nodes
    BY <1>6
  <2>2. path \in Seq(NodeIndices(source))
    BY <1>2 DEF WalkUp
  <2>3. path = [i \in 1 .. n |-> path[i]]
    BY <1>3, <2>2
  <2> QED BY <2>1, <2>3
<1> QED BY <1>1, <1>7

(* A node without a parent is where its transform puts it, and any other   *)
(* where its parent puts that.                                             *)
LEMMA SceneUp ==
  ASSUME NEW source, Sound(source), NEW animation, NEW time, NEW nodes,
         Placed(source, animation, time, nodes), NEW node \in nodes
  PROVE  LET own == Matrix(SceneTransform(source, animation, node, time))
             above == Parent(source, node)
         IN  /\ SceneMatrix(source, animation, node, time) \in Matrices
             /\ above = -1 => SceneMatrix(source, animation, node, time) = own
             /\ above # -1 /\ Grounded(source, above) =>
                  SceneMatrix(source, animation, node, time)
                    = Multiply(SceneMatrix(source, animation, above, time), own)
<1>1. PICK own, above : /\ own = Matrix(SceneTransform(source, animation, node, time))
                        /\ above = Parent(source, node)
  OBVIOUS
<1>2. own \in Matrices /\ node \in NodeIndices(source)
  BY <1>1 DEF Placed
<1>3. PICK path : path = Ancestry(source, node)
  OBVIOUS
<1>4. path \in Seq(nodes)
  BY <1>3, WalkPlaced DEF Placed
<1>5. PICK acc : /\ Ascending(acc, source, animation, path, time)
                 /\ SceneMatrix(source, animation, node, time) = acc[Len(path)]
  <2>1. \A i \in DOMAIN path : Matrix(SceneTransform(source, animation, path[i], time)) \in Matrices
    BY <1>4 DEF Placed
  <2> QED BY <1>3, <1>4, <2>1, SceneSteps
<1>6. PICK n \in Nat : n = Len(path) /\ n >= 1 /\ path[1] = node
  <2>1. WalkUp(source, node, path)
    BY <1>2, <1>3, AncestryFacts
  <2> QED BY <1>4, <2>1 DEF WalkUp
<1>7. acc[0] = IdentityMatrix /\ acc \in [0 .. n -> Matrices]
      /\ \A k \in 1 .. n :
           acc[k] = Multiply(Matrix(SceneTransform(source, animation, path[k], time)), acc[k - 1])
  BY <1>5, <1>6 DEF Ascending
<1>8. acc[1] = own
  <2>1. 1 \in 1 .. n /\ 1 - 1 = 0
    BY <1>6
  <2>2. acc[1] = Multiply(own, IdentityMatrix)
    BY <1>1, <1>6, <1>7, <2>1
  <2> QED BY <1>2, <2>2, Products
<1>9. ASSUME above = -1 PROVE acc[n] = own
  <2>1. n = 1
    BY <1>1, <1>2, <1>3, <1>6, <1>9, RootAncestry
  <2> QED BY <1>8, <2>1
<1>10. ASSUME above # -1, Grounded(source, above)
       PROVE  acc[n] = Multiply(SceneMatrix(source, animation, above, time), own)
  <2>1. above \in nodes /\ above \in NodeIndices(source)
    BY <1>1, <1>10 DEF Placed, ClosedUp
  <2>2. PICK up : up = Ancestry(source, above)
    OBVIOUS
  <2>3. PICK m \in Nat : m = Len(up) /\ n = m + 1 /\ \A i \in 1 .. m : path[i + 1] = up[i]
    BY <1>1, <1>2, <1>3, <1>6, <1>10, <2>1, <2>2, ChildAncestry
  <2>4. up \in Seq(nodes)
    BY <2>1, <2>2, WalkPlaced DEF Placed
  <2>5. PICK high : /\ Ascending(high, source, animation, up, time)
                    /\ SceneMatrix(source, animation, above, time) = high[m]
    <3>1. \A i \in DOMAIN up : Matrix(SceneTransform(source, animation, up[i], time)) \in Matrices
      BY <2>4 DEF Placed
    <3> QED BY <2>2, <2>3, <2>4, <3>1, SceneSteps
  <2>6. /\ high[0] = IdentityMatrix /\ high \in [0 .. m -> Matrices]
        /\ \A k \in 1 .. m :
             high[k] = Multiply(Matrix(SceneTransform(source, animation, up[k], time)), high[k - 1])
    BY <2>3, <2>5 DEF Ascending
  <2> DEFINE Good == {k \in 0 .. m : acc[k + 1] = Multiply(high[k], own)}
  <2>7. 0 \in Good
    <3>1. acc[0 + 1] = own /\ Multiply(IdentityMatrix, own) = own
      BY <1>2, <1>8, Products
    <3> QED BY <2>6, <3>1
  <2>8. ASSUME NEW k \in 0 .. (m - 1), k \in Good PROVE k + 1 \in Good
    <3>1. /\ k + 1 \in 1 .. m /\ k + 1 \in 0 .. m /\ k \in 0 .. m
          /\ (k + 1) + 1 \in 1 .. n /\ ((k + 1) + 1) - 1 = k + 1 /\ (k + 1) - 1 = k
      BY <2>3
    <3>2. PICK here : here = Matrix(SceneTransform(source, animation, up[k + 1], time))
      OBVIOUS
    <3>3. path[(k + 1) + 1] = up[k + 1]
      BY <2>3, <3>1
    <3>4. acc[(k + 1) + 1] = Multiply(here, acc[k + 1])
      BY <1>7, <3>1, <3>2, <3>3
    <3>5. high[k + 1] = Multiply(here, high[k])
      BY <2>6, <3>1, <3>2
    <3>6. here \in Matrices /\ high[k] \in Matrices
      <4>1. up[k + 1] \in nodes
        BY <2>3, <2>4, <3>1
      <4> QED BY <2>6, <3>1, <3>2, <4>1 DEF Placed
    <3>7. acc[k + 1] = Multiply(high[k], own)
      BY <2>8
    <3>8. Multiply(here, Multiply(high[k], own)) = Multiply(Multiply(here, high[k]), own)
      BY <1>2, <3>6, Products
    <3> QED BY <3>1, <3>4, <3>5, <3>7, <3>8
  <2>9. m \in Good
    <3>1. m \in 0 .. m
      OBVIOUS
    <3> HIDE DEF Good
    <3> QED BY <2>7, <2>8, <3>1, UpTo
  <2> QED BY <2>3, <2>5, <2>9
<1>11. acc[n] \in Matrices
  BY <1>6, <1>7
<1> QED BY <1>1, <1>5, <1>6, <1>9, <1>10, <1>11

-----------------------------------------------------------------------------
(*****************************************************************************)
(* One global pose                                                           *)
(*****************************************************************************)
(* What evaluateGlobalPose finds is all that its recursion allows: any     *)
(* matrices that stand to each other as it says are the global pose.       *)
Globally(g, body, pose) ==
  g = [joint \in Joints(body) |->
         IF ParentOf(body, joint) = 0 THEN Matrix(pose[joint])
         ELSE Multiply(g[ParentOf(body, joint)], Matrix(pose[joint]))]

LEMMA OneGlobalPose ==
  ASSUME NEW body, ValidSkeleton(body), NEW n \in Nat, n = Len(body.joints),
         Joints(body) = 1 .. n, NEW pose, NEW g, Globally(g, body, pose)
  PROVE  GlobalPose(body, pose) = g
<1> DEFINE it == CHOOSE f : Globally(f, body, pose)
<1>1. GlobalPose(body, pose) = [joint \in Joints(body) |-> it[joint]]
  BY DEF GlobalPose, Globally
<1>2. Globally(it, body, pose)
  OBVIOUS
<1> HIDE DEF it
<1>3. \A joint \in Joints(body) :
        /\ ParentOf(body, joint) \in {0} \cup Joints(body)
        /\ it[joint] = IF ParentOf(body, joint) = 0 THEN Matrix(pose[joint])
                       ELSE Multiply(it[ParentOf(body, joint)], Matrix(pose[joint]))
        /\ g[joint] = IF ParentOf(body, joint) = 0 THEN Matrix(pose[joint])
                      ELSE Multiply(g[ParentOf(body, joint)], Matrix(pose[joint]))
  BY <1>2 DEF Globally, ValidSkeleton
<1>4. ASSUME NEW joint \in Joints(body) PROVE it[joint] = g[joint]
  <2>1. SUFFICES ASSUME it[joint] # g[joint] PROVE FALSE
    OBVIOUS
  <2>2. PICK walk : walk = Above(body, joint)
    OBVIOUS
  <2>3. \A k \in 0 .. n : walk[k] = IF k = 0 THEN joint ELSE NextUp(body, walk[k - 1])
    BY <2>2, AboveWalks
  <2>4. PICK depth \in 1 .. n : walk[depth] = 0 /\ \A k \in 0 .. (depth - 1) : walk[k] # 0
    BY <2>2, WalkLeaves
  <2> DEFINE Good == {k \in 0 .. depth : walk[k] \in Joints(body) /\ it[walk[k]] # g[walk[k]]}
  <2>5. 0 \in Good
    BY <2>1, <2>3
  <2>6. ASSUME NEW k \in 0 .. (depth - 1), k \in Good PROVE k + 1 \in Good
    <3>1. k + 1 \in 0 .. n /\ k + 1 # 0 /\ (k + 1) - 1 = k /\ k + 1 \in 0 .. depth
      OBVIOUS
    <3>2. PICK here \in Joints(body) : here = walk[k]
      BY <2>6
    <3>3. it[here] # g[here]
      BY <2>6, <3>2
    <3>4. PICK up : up = ParentOf(body, here)
      OBVIOUS
    <3>5. up \in Joints(body) /\ it[up] # g[up]
      BY <1>3, <3>3, <3>4
    <3>6. walk[k + 1] = up
      BY <2>3, <3>1, <3>2, <3>4, <3>5 DEF NextUp
    <3> QED BY <3>1, <3>5, <3>6
  <2>7. depth \in Good
    <3>1. depth \in 0 .. depth /\ depth \in Nat
      OBVIOUS
    <3> HIDE DEF Good
    <3> QED BY <2>5, <2>6, <3>1, UpTo
  <2> QED BY <2>4, <2>7
<1>5. g = [joint \in Joints(body) |-> g[joint]]
  BY DEF Globally
<1> QED BY <1>1, <1>4, <1>5

-----------------------------------------------------------------------------
(*****************************************************************************)
(* What a clip does to a node                                                *)
(*****************************************************************************)
(* The nodes that an animation moves.                                     *)
Targets(animation) == {animation.channels[i].targetNodeIndex : i \in DOMAIN animation.channels}

(* A clip has one track for each posed node that its animation targets,    *)
(* and none for the others.                                                *)
LEMMA BuiltTracks ==
  ASSUME NEW posed, NEW n \in Nat, DOMAIN posed = 1 .. n, NEW animation,
         NEW clip, clip = BuiltClip(animation, posed), NEW slot \in 1 .. n
  PROVE  /\ posed[slot] \notin Targets(animation) => TracksOf(clip, slot) = {}
         /\ posed[slot] \in Targets(animation) =>
              \E i \in Nat :
                /\ TracksOf(clip, slot) = {i}
                /\ clip.tracks[i] =
                     [joint |-> slot,
                      translation |-> Imported(animation.channels, posed, slot, "translation"),
                      rotation |-> Imported(animation.channels, posed, slot, "rotation"),
                      scale |-> Imported(animation.channels, posed, slot, "scale")]
<1>1. PICK all, moving : /\ all = [i \in 1 .. n |-> i]
                         /\ moving = {i \in 1 .. n : posed[i] \in Targets(animation)}
  OBVIOUS
<1>2. PICK slots : slots = Those(all, moving)
  OBVIOUS
<1>3. all \in Seq(Nat) /\ ToSet(all) = 1 .. n /\ IsInjective(all)
  BY <1>1 DEF ToSet, IsInjective
<1>4. /\ slots \in Seq(ToSet(all) \cap moving) /\ ToSet(slots) = ToSet(all) \cap moving
      /\ IsInjective(slots)
  BY <1>2, <1>3, ThoseFacts
<1>5. PICK m \in Nat : m = Len(slots) /\ DOMAIN slots = 1 .. m
  BY <1>4
<1>6. ToSet(slots) = moving
  BY <1>1, <1>3, <1>4
<1> DEFINE Track(at) ==
      [joint |-> at,
       translation |-> Imported(animation.channels, posed, at, "translation"),
       rotation |-> Imported(animation.channels, posed, at, "rotation"),
       scale |-> Imported(animation.channels, posed, at, "scale")]
<1>7. clip.tracks = [i \in DOMAIN slots |-> Track(slots[i])]
  BY <1>1, <1>2 DEF BuiltClip, Targets
<1>8. \A i \in DOMAIN slots : Track(slots[i]).joint = slots[i]
  OBVIOUS
<1> HIDE DEF Track
<1>9. TracksOf(clip, slot) = {i \in 1 .. m : slots[i] = slot}
  BY <1>5, <1>7, <1>8 DEF TracksOf
<1>10. ASSUME posed[slot] \notin Targets(animation) PROVE TracksOf(clip, slot) = {}
  <2>1. slot \notin ToSet(slots)
    BY <1>1, <1>6, <1>10
  <2> QED BY <1>5, <1>9, <2>1 DEF ToSet
<1>11. ASSUME posed[slot] \in Targets(animation)
       PROVE  \E i \in Nat : TracksOf(clip, slot) = {i} /\ clip.tracks[i] = Track(slot)
  <2>1. slot \in ToSet(slots)
    BY <1>1, <1>6, <1>11
  <2>2. PICK i \in 1 .. m : slots[i] = slot
    BY <1>5, <2>1 DEF ToSet
  <2>3. TracksOf(clip, slot) = {i}
    BY <1>4, <1>5, <1>9, <2>2 DEF IsInjective
  <2>4. clip.tracks[i] = Track(slot) /\ i \in Nat
    BY <1>5, <1>7, <2>2
  <2> QED BY <2>3, <2>4
<1> QED BY <1>10, <1>11 DEF Track

(* Sampling a channel without keys gives the fallback.                     *)
LEMMA NoKeys ==
  ASSUME NEW channel, channel.keys = << >>, NEW time, NEW fallback
  PROVE  /\ SampleVec3(channel, time, fallback) = fallback
         /\ SampleQuat(channel, time, fallback) = Normalized(fallback)
  BY DEF SampleVec3, SampleQuat, SampleWith

(* A node that an animation does not target stays where it is bound.       *)
LEMMA Untargeted ==
  ASSUME NEW source, NEW animation, NEW node, node \notin Targets(animation), NEW time
  PROVE  LET bind == Node(source, node).localTransform IN
         SceneTransform(source, animation, node, time)
           = [translation |-> bind.translation, rotation |-> Normalized(bind.rotation),
              scale |-> bind.scale]
<1>1. \A path : Imported(animation.channels, <<node>>, 1, path)
                  = [interpolation |-> "linear", keys |-> << >>]
  <2> TAKE path
  <2>1. {i \in DOMAIN animation.channels :
           animation.channels[i].targetNodeIndex = <<node>>[1]
           /\ animation.channels[i].targetPath = path} = {}
    BY DEF Targets
  <2> QED BY <2>1 DEF Imported
<1>2. PICK none : none = [interpolation |-> "linear", keys |-> << >>]
  OBVIOUS
<1>3. none.keys = << >>
  BY <1>2
<1>4. PICK bind : bind = Node(source, node).localTransform
  OBVIOUS
<1>5. SceneTransform(source, animation, node, time)
        = [translation |-> SampleVec3(none, time, bind.translation),
           rotation |-> SampleQuat(none, time, bind.rotation),
           scale |-> SampleVec3(none, time, bind.scale)]
  BY <1>1, <1>2, <1>4 DEF SceneTransform
<1>6. /\ SampleVec3(none, time, bind.translation) = bind.translation
      /\ SampleQuat(none, time, bind.rotation) = Normalized(bind.rotation)
      /\ SampleVec3(none, time, bind.scale) = bind.scale
  BY <1>3, NoKeys
<1> QED BY <1>4, <1>5, <1>6

(* A joint is sampled as the scene would have its node sampled.            *)
LEMMA SampledAsScene ==
  ASSUME NEW source, NEW posed, \E n \in Nat : DOMAIN posed = 1 .. n, NEW animation,
         NEW slot \in DOMAIN posed, NEW time
  PROVE  Matrix(SampleJoint(BuiltClip(animation, posed),
                            Node(source, posed[slot]).localTransform, slot, time))
           = Matrix(SceneTransform(source, animation, posed[slot], time))
<1>0. PICK n \in Nat : DOMAIN posed = 1 .. n
  OBVIOUS
<1> PICK clip, bind : /\ clip = BuiltClip(animation, posed)
                     /\ bind = Node(source, posed[slot]).localTransform
  OBVIOUS
<1>1. PICK node : node = posed[slot]
  OBVIOUS
<1>2. CASE node \notin Targets(animation)
  <2>1. TracksOf(clip, slot) = {}
    BY <1>1, <1>2, BuiltTracks
  <2>2. SampleJoint(clip, bind, slot, time) = bind
    BY <2>1 DEF SampleJoint
  <2>3. SceneTransform(source, animation, node, time)
          = [translation |-> bind.translation, rotation |-> Normalized(bind.rotation),
             scale |-> bind.scale]
    BY <1>1, <1>2, Untargeted
  <2>4. Normalized(Normalized(bind.rotation)) = Normalized(bind.rotation)
    BY DEF Normalized
  <2>5. PICK turn : turn = Normalized(bind.rotation)
    OBVIOUS
  <2>6. PICK place : place = SceneTransform(source, animation, node, time)
    OBVIOUS
  <2>7. place.translation = bind.translation /\ place.rotation = turn /\ place.scale = bind.scale
    BY <2>3, <2>5, <2>6
  <2>8. Matrix(place) = [linear |-> turn * bind.scale, offset |-> bind.translation]
    BY <2>4, <2>5, <2>7 DEF Matrix
  <2>9. Matrix(bind) = [linear |-> turn * bind.scale, offset |-> bind.translation]
    BY <2>5 DEF Matrix
  <2> QED BY <1>1, <2>2, <2>6, <2>8, <2>9
<1>3. CASE node \in Targets(animation)
  <2>1. PICK i \in Nat :
          /\ TracksOf(clip, slot) = {i}
          /\ clip.tracks[i] =
               [joint |-> slot,
                translation |-> Imported(animation.channels, posed, slot, "translation"),
                rotation |-> Imported(animation.channels, posed, slot, "rotation"),
                scale |-> Imported(animation.channels, posed, slot, "scale")]
    BY <1>1, <1>3, BuiltTracks
  <2>2. Min(TracksOf(clip, slot)) = i
    <3>1. {i} \subseteq Nat /\ {i} # {}
      OBVIOUS
    <3> QED BY <2>1, <3>1, MinFacts
  <2>3. \A path : Imported(animation.channels, posed, slot, path)
                    = Imported(animation.channels, <<node>>, 1, path)
    <3>1. <<node>>[1] = posed[slot]
      BY <1>1
    <3> QED BY <3>1 DEF Imported
  <2>4. PICK track : track = clip.tracks[i]
    OBVIOUS
  <2>5. /\ track.translation = Imported(animation.channels, <<node>>, 1, "translation")
        /\ track.rotation = Imported(animation.channels, <<node>>, 1, "rotation")
        /\ track.scale = Imported(animation.channels, <<node>>, 1, "scale")
    BY <2>1, <2>3, <2>4
  <2>6. SampleJoint(clip, bind, slot, time)
          = [translation |-> SampleVec3(track.translation, time, bind.translation),
             rotation |-> SampleQuat(track.rotation, time, bind.rotation),
             scale |-> SampleVec3(track.scale, time, bind.scale)]
    BY <2>1, <2>2, <2>4 DEF SampleJoint
  <2>7. SceneTransform(source, animation, node, time)
          = [translation |-> SampleVec3(track.translation, time, bind.translation),
             rotation |-> SampleQuat(track.rotation, time, bind.rotation),
             scale |-> SampleVec3(track.scale, time, bind.scale)]
    BY <1>1, <2>5 DEF SceneTransform
  <2> QED BY <1>1, <2>6, <2>7
<1> QED BY <1>2, <1>3

-----------------------------------------------------------------------------
(*****************************************************************************)
(* Joints follow the scene                                                   *)
(*****************************************************************************)
(* With nothing laid over it, the pose on show is the one of the base clip. *)
LEMMA BarePose ==
  ASSUME Fits, Dressed, PoseIsCurrent, Playing, transition = Nothing,
         \A i \in DOMAIN layers : layers[i] = Nothing
  PROVE  /\ skeleton # Nothing /\ Suits(base.clip, skeleton) /\ base.time \in Int
         /\ localPose = Sampled(skeleton, base)
         /\ globalPose = GlobalPose(skeleton, localPose)
<1>1. base # Nothing /\ skeleton # Nothing /\ Suits(base.clip, skeleton) /\ base.time \in Int
  BY DEF Playing, Fits, Dressed, Playbacks
<1>2. PICK n \in Nat : DOMAIN layers = 1 .. n
  BY DEF Dressed
<1>3. PICK laid : laid = [i \in DOMAIN layers |-> Laid(skeleton, layers[i])]
  OBVIOUS
<1>4. DOMAIN laid = 1 .. n /\ \A k \in 1 .. n : laid[k] = Nothing
  BY <1>2, <1>3 DEF Laid
<1>5. PICK pose : pose = Sampled(skeleton, base)
  OBVIOUS
<1>6. pose \in Poses(skeleton)
  <2>1. /\ pose = [joint \in Joints(skeleton) |-> pose[joint]]
        /\ \A joint \in Joints(skeleton) : pose[joint] \in Transform
    BY <1>1, <1>5, SampledType
  <2> QED BY <2>1 DEF Poses
<1>7. PICK acc : Covering(acc, skeleton, pose, laid, n) /\ Covered(skeleton, pose, laid) = acc[n]
  <2>1. \A k \in 1 .. n : Lies(skeleton, laid[k])
    BY <1>4 DEF Lies
  <2> QED BY <1>4, <1>6, <2>1, CoveredSteps
<1> DEFINE Good == {k \in 0 .. n : acc[k] = pose}
<1>8. 0 \in Good
  BY <1>7 DEF Covering
<1>9. ASSUME NEW k \in 0 .. (n - 1), k \in Good PROVE k + 1 \in Good
  <2>1. k + 1 \in 1 .. n /\ k + 1 \in 0 .. n /\ (k + 1) - 1 = k
    OBVIOUS
  <2>2. acc[k + 1] = CoverWith(skeleton, acc[k], laid[k + 1]) /\ laid[k + 1] = Nothing
    BY <1>4, <1>7, <2>1 DEF Covering
  <2> QED BY <1>9, <2>1, <2>2 DEF CoverWith
<1>10. n \in Good
  <2>1. n \in 0 .. n
    OBVIOUS
  <2> HIDE DEF Good
  <2> QED BY <1>8, <1>9, <2>1, UpTo
<1>11. PoseOf(skeleton, base, transition, layers) = pose
  BY <1>3, <1>5, <1>7, <1>10 DEF PoseOf, FadedPose
<1> QED BY <1>1, <1>5, <1>11 DEF PoseIsCurrent

(* A clip that was built was made of an animation of the document.         *)
LEMMA ClipIsAnimation ==
  ASSUME NEW source, IsScene(source), NEW posed, posed = PosedNodes(source, source.skins[1]),
         NEW i \in DOMAIN BuiltClips(source, source.skins[1]),
         NEW clip, clip = BuiltClips(source, source.skins[1])[i]
  PROVE  \E k \in DOMAIN source.animations :
           /\ AnimationOf(source, clip) = source.animations[k]
           /\ BuiltClip(source.animations[k], posed) = clip
<1>1. PICK n \in Nat : n = Len(source.animations) /\ DOMAIN source.animations = 1 .. n
  BY SequenceFacts DEF IsScene
<1>2. PICK clips : clips = [k \in 1 .. n |-> BuiltClip(source.animations[k], posed)]
  OBVIOUS
<1>3. PICK valid : valid = {c \in ToSet(clips) : ValidClip(c, BuiltSkeleton(source, source.skins[1]))}
  OBVIOUS
<1>4. PICK kept : kept = Those(clips, valid)
  OBVIOUS
<1>5. BuiltClips(source, source.skins[1]) = kept
  BY <1>1, <1>2, <1>3, <1>4 DEF BuiltClips
<1>6. clips \in Seq(ToSet(clips))
  <2>1. \A k \in 1 .. n : clips[k] \in ToSet(clips)
    BY <1>2 DEF ToSet
  <2>2. clips = [k \in 1 .. n |-> clips[k]]
    BY <1>2
  <2> QED BY <2>1, <2>2
<1>7. kept \in Seq(ToSet(clips) \cap valid)
  BY <1>4, <1>6, ThoseFacts
<1>8. clip \in ToSet(clips)
  BY <1>5, <1>7
<1>9. PICK made : made = {k \in DOMAIN source.animations :
                            BuiltClip(source.animations[k], posed) = clip}
  OBVIOUS
<1>10. made # {} /\ made \subseteq Nat
  BY <1>1, <1>2, <1>8, <1>9 DEF ToSet
<1>11. Min(made) \in made
  BY <1>10, MinFacts
<1>12. AnimationOf(source, clip) = source.animations[Min(made)]
  BY <1>9 DEF AnimationOf
<1> QED BY <1>9, <1>11, <1>12

(* A clip at one time, over the bind pose of a skeleton.                   *)
Posing(body, clip, at) ==
  [joint \in Joints(body) |-> SampleJoint(clip, body.joints[joint].bindLocal, joint, at)]

(* Every joint's transform is the one of its node in the animated scene.   *)
LEMMA JointsPlaced ==
  ASSUME NEW source, Sound(source), NEW skin, SoundSkin(source, skin),
         NEW posed, posed = PosedNodes(source, skin),
         NEW body, body = BuiltSkeleton(source, skin), ValidSkeleton(body),
         NEW animation, NEW clip, clip = BuiltClip(animation, posed), NEW at,
         NEW pose, pose = Posing(body, clip, at), pose \in Poses(body)
  PROVE  /\ Placed(source, animation, at, ToSet(posed))
         /\ \A joint \in Joints(body) :
              Matrix(pose[joint]) = Matrix(SceneTransform(source, animation, posed[joint], at))
<1>1. PICK n \in Nat : n = Len(posed) /\ Joints(body) = 1 .. n /\ DOMAIN posed = 1 .. n
  BY BuiltBody
<1>2. \A joint \in 1 .. n : posed[joint] \in NodeIndices(source)
  BY <1>1, BuiltBody
<1>3. ASSUME NEW joint \in 1 .. n
      PROVE  /\ Matrix(pose[joint]) = Matrix(SceneTransform(source, animation, posed[joint], at))
             /\ Matrix(pose[joint]) \in Matrices
  <2>1. PICK bind : bind = Node(source, posed[joint]).localTransform
    OBVIOUS
  <2>2. body.joints[joint].bindLocal = bind
    BY <1>1, <2>1 DEF BuiltSkeleton, BuiltJoint
  <2>3. pose[joint] = SampleJoint(clip, bind, joint, at)
    BY <1>1, <2>2 DEF Posing
  <2>4. Matrix(pose[joint]) = Matrix(SceneTransform(source, animation, posed[joint], at))
    <3>1. n \in Nat /\ DOMAIN posed = 1 .. n /\ joint \in 1 .. n
      BY <1>1
    <3>2. Matrix(SampleJoint(clip, bind, joint, at))
            = Matrix(SceneTransform(source, animation, posed[joint], at))
      BY <2>1, <3>1, SampledAsScene
    <3> QED BY <2>3, <3>2
  <2>5. pose[joint] \in Transform
    BY <1>1 DEF Poses
  <2>6. PICK t \in Int, r \in {-1, 1}, s \in Int :
          pose[joint].translation = t /\ pose[joint].rotation = r /\ pose[joint].scale = s
    BY <2>5 DEF Transform
  <2>7. Normalized(r) = r /\ r * s \in Int
    BY DEF Normalized
  <2> QED BY <2>4, <2>6, <2>7 DEF Matrix, Matrices
<1>4. ToSet(posed) = {posed[joint] : joint \in 1 .. n}
  BY <1>1 DEF ToSet
<1>5. ClosedUp(source, ToSet(posed))
  BY PosedNodesFacts DEF Closed
<1>6. Placed(source, animation, at, ToSet(posed))
  BY <1>2, <1>3, <1>4, <1>5 DEF Placed
<1> QED BY <1>1, <1>3, <1>6

(* Every joint is where the animated scene puts its node.                  *)
LEMMA GlobalFollows ==
  ASSUME NEW source, Sound(source), NEW skin, SoundSkin(source, skin),
         NEW posed, posed = PosedNodes(source, skin),
         NEW body, body = BuiltSkeleton(source, skin), ValidSkeleton(body),
         NEW animation, NEW clip, clip = BuiltClip(animation, posed), NEW at,
         NEW pose, pose = Posing(body, clip, at), pose \in Poses(body)
  PROVE  GlobalPose(body, pose)
           = [joint \in Joints(body) |-> SceneMatrix(source, animation, posed[joint], at)]
<1>1. PICK n \in Nat : n = Len(posed) /\ Joints(body) = 1 .. n /\ n = Len(body.joints)
                       /\ DOMAIN posed = 1 .. n
  BY BuiltBody
<1>2. PICK g : g = [joint \in Joints(body) |-> SceneMatrix(source, animation, posed[joint], at)]
  OBVIOUS
<1>3. Placed(source, animation, at, ToSet(posed))
  BY JointsPlaced
<1>4. \A joint \in Joints(body) : posed[joint] \in ToSet(posed)
  BY <1>1 DEF ToSet
<1>5. ASSUME NEW joint \in Joints(body)
      PROVE  g[joint] = IF ParentOf(body, joint) = 0 THEN Matrix(pose[joint])
                        ELSE Multiply(g[ParentOf(body, joint)], Matrix(pose[joint]))
  <2>1. PICK own : own = Matrix(SceneTransform(source, animation, posed[joint], at))
    OBVIOUS
  <2>2. Matrix(pose[joint]) = own
    BY <2>1, JointsPlaced
  <2>3. PICK above : above = Parent(source, posed[joint])
    OBVIOUS
  <2>4. PICK here : here = SceneMatrix(source, animation, posed[joint], at)
    OBVIOUS
  <2>5. /\ above = -1 => here = own
        /\ above # -1 /\ Grounded(source, above) =>
             here = Multiply(SceneMatrix(source, animation, above, at), own)
    BY <1>3, <1>4, <2>1, <2>3, <2>4, SceneUp
  <2>6. CASE above = -1 /\ ParentOf(body, joint) = 0
    BY <1>2, <2>2, <2>4, <2>5, <2>6
  <2>7. CASE /\ above \in NodeIndices(source) /\ ParentOf(body, joint) \in Joints(body)
             /\ posed[ParentOf(body, joint)] = above
    <3>1. above # -1 /\ ParentOf(body, joint) # 0
      BY <1>1, <2>7, NodeFacts
    <3>2. Grounded(source, above)
      BY <2>7, JointRooted
    <3> QED BY <1>2, <2>2, <2>4, <2>5, <2>7, <3>1, <3>2
  <2> QED BY <2>3, <2>6, <2>7, BuiltBody
<1>6. g = [joint \in Joints(body) |->
             IF ParentOf(body, joint) = 0 THEN Matrix(pose[joint])
             ELSE Multiply(g[ParentOf(body, joint)], Matrix(pose[joint]))]
  BY <1>2, <1>5
<1>7. Globally(g, body, pose)
  BY <1>6 DEF Globally
<1> QED BY <1>1, <1>2, <1>7, OneGlobalPose

-----------------------------------------------------------------------------
(*****************************************************************************)
(* Sockets follow the scene                                                  *)
(*****************************************************************************)
(* A socket is found by its name, on a joint there is.                     *)
LEMMA SocketFound ==
  ASSUME NEW source, Sound(source), NEW skin, SoundSkin(source, skin),
         NEW posed, posed = PosedNodes(source, skin),
         NEW body, body = BuiltSkeleton(source, skin), ValidSkeleton(body),
         NEW i \in DOMAIN BoundSockets(source, skin),
         NEW node, node = BoundSockets(source, skin)[i],
         NEW global, DOMAIN global = Joints(body)
  PROVE  LET socket == BuiltSocket(posed, node) IN
         /\ socket.joint \in Joints(body) /\ ValidTransform(socket.local)
         /\ SocketEvaluates(body, global, node.name)
         /\ SocketMatrix(body, global, node.name)
              = Multiply(global[socket.joint], Matrix(socket.local))
<1>1. PICK sockets : sockets = BoundSockets(source, skin)
  OBVIOUS
<1>2. PICK n \in Nat : DOMAIN sockets = 1 .. n
  <2>1. \E bound : sockets \in Seq(bound)
    BY <1>1, BoundSocketsFacts
  <2>2. PICK bound : sockets \in Seq(bound)
    BY <2>1
  <2> QED BY <2>2
<1>3. PICK built : built = [k \in DOMAIN sockets |-> BuiltSocket(posed, sockets[k])]
  OBVIOUS
<1>4. body.sockets = built
  BY <1>1, <1>3 DEF BuiltSkeleton
<1>5. PICK socket : socket = BuiltSocket(posed, node)
  OBVIOUS
<1>6. body.sockets[i] = socket /\ i \in DOMAIN body.sockets /\ socket.name = node.name
  BY <1>1, <1>3, <1>4, <1>5 DEF BuiltSocket
<1>7. socket.joint \in Joints(body) /\ ValidTransform(socket.local)
  BY <1>6 DEF ValidSkeleton
<1>8. SocketsNamed(body, node.name) = {i}
  <2>1. \A k \in DOMAIN body.sockets : body.sockets[k].name = node.name => k = i
    BY <1>6 DEF ValidSkeleton, Distinct
  <2> QED BY <1>6, <2>1 DEF SocketsNamed
<1>9. Min(SocketsNamed(body, node.name)) = i
  <2>1. {i} \subseteq Nat /\ {i} # {}
    BY <1>1, <1>2
  <2> QED BY <1>8, <2>1, MinFacts
<1>10. SocketEvaluates(body, global, node.name)
  BY <1>6, <1>7, <1>8, <1>9 DEF SocketEvaluates
<1>11. SocketMatrix(body, global, node.name) = Multiply(global[socket.joint], Matrix(socket.local))
  BY <1>6, <1>9 DEF SocketMatrix
<1> QED BY <1>5, <1>7, <1>10, <1>11

(* A node that no clip animates may be added to placed nodes under which   *)
(* it lies.                                                                *)
LEMMA PlacedUnder ==
  ASSUME NEW source, Sound(source), NEW animation, NEW at, NEW nodes,
         Placed(source, animation, at, nodes), NEW node \in NodeIndices(source),
         Parent(source, node) \in nodes, Grounded(source, Parent(source, node)),
         node \notin Targets(animation),
         NEW bind, bind = Node(source, node).localTransform, ValidTransform(bind)
  PROVE  SceneMatrix(source, animation, node, at)
           = Multiply(SceneMatrix(source, animation, Parent(source, node), at), Matrix(bind))
<1>1. PICK own : own = Matrix(SceneTransform(source, animation, node, at))
  OBVIOUS
<1>2. PICK t \in Int, r \in Int, s \in Int :
        t = bind.translation /\ r = bind.rotation /\ s = bind.scale /\ r # 0
  BY DEF ValidTransform, Finite, HasRotation
<1>3. SceneTransform(source, animation, node, at)
        = [translation |-> t, rotation |-> Normalized(r), scale |-> s]
  BY <1>2, Untargeted
<1>4. Normalized(r) = r /\ r * s \in Int
  BY <1>2 DEF Normalized
<1>5. own = [linear |-> r * s, offset |-> t] /\ Matrix(bind) = [linear |-> r * s, offset |-> t]
  BY <1>1, <1>2, <1>3, <1>4 DEF Matrix
<1>6. own \in Matrices /\ own = Matrix(bind)
  BY <1>4, <1>5 DEF Matrices
<1>7. PICK more : more = nodes \cup {node}
  OBVIOUS
<1>8. Placed(source, animation, at, more)
  <2>1. more \subseteq NodeIndices(source)
    BY <1>7 DEF Placed
  <2>2. ClosedUp(source, more)
    BY <1>7 DEF Placed, ClosedUp
  <2>3. \A k \in more : Matrix(SceneTransform(source, animation, k, at)) \in Matrices
    BY <1>1, <1>6, <1>7 DEF Placed
  <2> QED BY <2>1, <2>2, <2>3 DEF Placed
<1>9. node \in more /\ Parent(source, node) # -1
  BY <1>7, NodeFacts DEF Placed
<1> QED BY <1>1, <1>6, <1>8, <1>9, SceneUp

(* Every bound socket is where the animated scene puts its node.           *)
LEMMA SocketFollows ==
  ASSUME NEW source, Sound(source), NEW skin, SoundSkin(source, skin),
         NEW posed, posed = PosedNodes(source, skin),
         NEW body, body = BuiltSkeleton(source, skin), ValidSkeleton(body),
         NEW animation, Targets(animation) \subseteq AnimatedNodes(source), NEW at,
         Placed(source, animation, at, ToSet(posed)),
         NEW global,
         global = [joint \in Joints(body) |-> SceneMatrix(source, animation, posed[joint], at)],
         NEW node \in ToSet(BoundSockets(source, skin)),
         BuiltSocket(posed, node).joint \in Joints(body),
         ValidTransform(BuiltSocket(posed, node).local)
  PROVE  Multiply(global[BuiltSocket(posed, node).joint], Matrix(BuiltSocket(posed, node).local))
           = SceneMatrix(source, animation, node.nodeIndex, at)
<1>1. PICK index, above : index = node.nodeIndex /\ above = node.parentNodeIndex
  OBVIOUS
<1>2. PICK socket : socket = BuiltSocket(posed, node)
  OBVIOUS
<1>3. \A k \in ToSet(posed) : SlotOf(posed, k) \in DOMAIN posed /\ posed[SlotOf(posed, k)] = k
  BY DEF SlotOf, ToSet
<1>4. DOMAIN posed = Joints(body)
  BY BuiltBody
<1>5. node \in ToSet(source.nodes) /\ Attached(source, skin, node)
  BY BoundSocketsFacts
<1>6. posed \in Closed(source, skin)
  BY PosedNodesFacts
<1>7. /\ index \in NodeIndices(source)
      /\ above = Parent(source, index)
      /\ index \notin ToSet(posed) => above \in NodeIndices(source)
  BY <1>1, <1>5, <1>6, SocketHasParent
<1>8. Node(source, index) = node
  <2>1. PICK i \in DOMAIN source.nodes : node = source.nodes[i]
    BY <1>5 DEF ToSet
  <2> QED BY <1>1, <2>1, NodeFacts
<1>9. CASE index \in ToSet(posed)
  <2>1. socket.joint = SlotOf(posed, index) /\ socket.local = Identity
    BY <1>1, <1>2, <1>9 DEF BuiltSocket
  <2>2. socket.joint \in Joints(body) /\ posed[socket.joint] = index
    BY <1>3, <1>4, <1>9, <2>1
  <2>3. Matrix(socket.local) = IdentityMatrix
    BY <2>1 DEF Matrix, Identity, IdentityMatrix, Normalized
  <2>4. PICK here : here = SceneMatrix(source, animation, index, at)
    OBVIOUS
  <2>5. here \in Matrices
    BY <1>9, <2>4, SceneUp
  <2>6. Multiply(here, IdentityMatrix) = here
    BY <2>5, Products
  <2> QED BY <1>1, <1>2, <2>2, <2>3, <2>4, <2>6
<1>10. CASE index \notin ToSet(posed)
  <2>1. socket.joint = SlotOf(posed, above) /\ socket.local = node.localTransform
    BY <1>1, <1>2, <1>10 DEF BuiltSocket
  <2>2. index \notin AnimatedNodes(source) /\ above \in ToSet(posed)
    BY <1>1, <1>10, PosedNodesFacts DEF SocketPosed
  <2>3. socket.joint \in Joints(body) /\ posed[socket.joint] = above
    BY <1>3, <1>4, <2>1, <2>2
  <2>4. Grounded(source, above)
    BY <2>3, JointRooted
  <2>5. index \notin Targets(animation)
    BY <2>2
  <2>6. SceneMatrix(source, animation, index, at)
          = Multiply(SceneMatrix(source, animation, above, at), Matrix(node.localTransform))
    <3>1. PICK bind : bind = node.localTransform
      OBVIOUS
    <3>2. ValidTransform(bind) /\ bind = Node(source, index).localTransform
      BY <1>2, <1>8, <2>1, <3>1
    <3> QED BY <1>7, <2>2, <2>4, <2>5, <3>1, <3>2, PlacedUnder
  <2> QED BY <1>1, <1>2, <2>1, <2>3, <2>6
<1> QED BY <1>9, <1>10

-----------------------------------------------------------------------------
(*****************************************************************************)
(* The whole pose follows the scene                                          *)
(*****************************************************************************)
(* Over a dressed character the pose of a clip of the scene, alone, puts   *)
(* joints and sockets where the scene has their nodes.                     *)
LEMMA AloneAsInTheScene ==
  ASSUME Fits, Dressed, PoseIsCurrent
  PROVE  PoseFollowsTheScene
<1> SUFFICES ASSUME Playing, transition = Nothing, \A i \in DOMAIN layers : layers[i] = Nothing,
                    NEW c \in DOMAIN assets[scene].clips, assets[scene].clips[c] = base.clip
             PROVE  LET source == Scenes[scene]
                        At(index) == SceneMatrix(source, AnimationOf(source, base.clip), index,
                                       SampleTime(base.time, base.clip.duration, base.wrapMode))
                        joints == source.skins[1].joints
                        sockets == BoundSockets(source, source.skins[1])
                    IN  /\ \A i \in DOMAIN joints : globalPose[i] = At(joints[i].nodeIndex)
                        /\ \A i \in DOMAIN sockets :
                             /\ SocketEvaluates(skeleton, globalPose, sockets[i].name)
                             /\ SocketMatrix(skeleton, globalPose, sockets[i].name)
                                  = At(sockets[i].nodeIndex)
  BY DEF PoseFollowsTheScene
<1>1. /\ skeleton # Nothing /\ Suits(base.clip, skeleton) /\ base.time \in Int
      /\ localPose = Sampled(skeleton, base)
      /\ globalPose = GlobalPose(skeleton, localPose)
  BY BarePose
<1>2. scene \in Loadable /\ skeleton = BuiltAssets[scene].skeleton /\ assets = BuiltAssets
  BY <1>1 DEF Fits, Dressed
<1>3. PICK source, skin : source = Scenes[scene] /\ skin = Scenes[scene].skins[1]
  OBVIOUS
<1>4. PICK posed : posed = PosedNodes(source, skin)
  OBVIOUS
<1>5. /\ Sound(source) /\ SoundSkin(source, skin) /\ ValidSkeleton(skeleton)
      /\ skeleton = BuiltSkeleton(source, skin)
  BY <1>2, <1>3, LoadedScene
<1>6. PICK clip, at : /\ clip = base.clip
                      /\ at = SampleTime(base.time, base.clip.duration, base.wrapMode)
  OBVIOUS
<1>7. PICK animation :
        /\ animation = AnimationOf(source, clip)
        /\ clip = BuiltClip(animation, posed)
        /\ Targets(animation) \subseteq AnimatedNodes(source)
  <2>1. assets[scene].clips = BuiltClips(source, skin)
    BY <1>2, <1>3 DEF BuiltAssets, Loadable, Built
  <2>2. PICK k \in DOMAIN source.animations :
          /\ AnimationOf(source, clip) = source.animations[k]
          /\ BuiltClip(source.animations[k], posed) = clip
    <3>1. skin = source.skins[1] /\ IsScene(source)
      BY <1>3, <1>5 DEF Sound
    <3>2. c \in DOMAIN BuiltClips(source, source.skins[1])
          /\ clip = BuiltClips(source, source.skins[1])[c]
      BY <1>6, <2>1, <3>1
    <3> QED BY <1>4, <3>1, <3>2, ClipIsAnimation
  <2>3. Targets(source.animations[k]) \subseteq AnimatedNodes(source)
    BY DEF Targets, AnimatedNodes
  <2> QED BY <2>2, <2>3
<1>8. localPose = Posing(skeleton, clip, at)
  BY <1>1, <1>6 DEF Sampled, SampleClip, Posing
<1>9. localPose \in Poses(skeleton)
  <2>1. /\ localPose = [joint \in Joints(skeleton) |-> localPose[joint]]
        /\ \A joint \in Joints(skeleton) : localPose[joint] \in Transform
    BY <1>1, SampledType
  <2> QED BY <2>1 DEF Poses
<1>10. PICK body, pose, global :
         body = skeleton /\ pose = localPose /\ global = globalPose
  OBVIOUS
<1>11. /\ body = BuiltSkeleton(source, skin) /\ ValidSkeleton(body)
       /\ pose = Posing(body, clip, at) /\ pose \in Poses(body)
       /\ global = GlobalPose(body, pose)
  BY <1>1, <1>5, <1>8, <1>9, <1>10
<1>12. global = [joint \in Joints(body) |-> SceneMatrix(source, animation, posed[joint], at)]
  BY <1>4, <1>5, <1>7, <1>11, GlobalFollows
<1>13. Placed(source, animation, at, ToSet(posed))
  BY <1>4, <1>5, <1>7, <1>11, JointsPlaced
<1>14. ASSUME NEW i \in DOMAIN skin.joints
       PROVE  global[i] = SceneMatrix(source, animation, skin.joints[i].nodeIndex, at)
  <2>1. PICK n \in Nat : n = Len(posed) /\ Joints(body) = 1 .. n
    BY <1>4, <1>5, <1>11, BuiltBody
  <2>2. posed \in Begins(source, skin)
    BY <1>4, <1>5, PosedNodesFacts DEF Closed
  <2>3. PICK m \in Nat : m = Len(skin.joints) /\ DOMAIN skin.joints = 1 .. m
    BY <1>5, SequenceFacts DEF SoundSkin
  <2>4. m = Len(Palette(skin)) /\ Palette(skin)[i] = skin.joints[i].nodeIndex
    BY <1>5, <2>3, PaletteFacts
  <2>5. m <= n /\ posed[i] = Palette(skin)[i]
    BY <2>1, <2>2, <2>3, <2>4 DEF Begins
  <2> QED BY <1>12, <2>1, <2>3, <2>4, <2>5
<1>15. ASSUME NEW i \in DOMAIN BoundSockets(source, skin)
       PROVE  LET node == BoundSockets(source, skin)[i] IN
              /\ SocketEvaluates(body, global, node.name)
              /\ SocketMatrix(body, global, node.name)
                   = SceneMatrix(source, animation, node.nodeIndex, at)
  <2>1. PICK node : node = BoundSockets(source, skin)[i]
    OBVIOUS
  <2>2. PICK socket : socket = BuiltSocket(posed, node)
    OBVIOUS
  <2>3. DOMAIN global = Joints(body)
    BY <1>12
  <2>4. /\ socket.joint \in Joints(body) /\ ValidTransform(socket.local)
        /\ SocketEvaluates(body, global, node.name)
        /\ SocketMatrix(body, global, node.name)
             = Multiply(global[socket.joint], Matrix(socket.local))
    BY <1>4, <1>5, <1>11, <2>1, <2>2, <2>3, SocketFound
  <2>5. node \in ToSet(BoundSockets(source, skin))
    BY <2>1 DEF ToSet
  <2>6. Multiply(global[socket.joint], Matrix(socket.local))
          = SceneMatrix(source, animation, node.nodeIndex, at)
    BY <1>4, <1>5, <1>7, <1>11, <1>12, <1>13, <2>2, <2>4, <2>5, SocketFollows
  <2> QED BY <2>1, <2>4, <2>6
<1> QED BY <1>3, <1>6, <1>7, <1>10, <1>14, <1>15

(* While one clip of the scene plays alone, every joint and every bound    *)
(* socket is where the glTF scene puts its node (PoseFollowsTheScene): the *)
(* products along the skeleton are those along the scene, and a node that  *)
(* is left out moves nothing.                                              *)
THEOREM PosesFollowTheScene == Spec => []PoseFollowsTheScene
<1>1. Init => Fits /\ PoseIsCurrent /\ Dressed
  BY InitFits, InitDressed
<1>2. Fits /\ PoseIsCurrent /\ Dressed /\ [Next]_vars => Fits' /\ PoseIsCurrent' /\ Dressed'
  BY FitsStep, DressedStep
<1>3. Fits /\ PoseIsCurrent /\ Dressed => PoseFollowsTheScene
  BY AloneAsInTheScene
<1> QED BY <1>1, <1>2, <1>3, PTL DEF Spec
=============================================================================
