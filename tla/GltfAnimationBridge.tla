------------------------- MODULE GltfAnimationBridge -------------------------
(* From glTF animation data to a skeleton with clips, and from a pose to a    *)
(* skinned mesh (GltfAnimationBridge.cpp). The data is                        *)
(*   nodes : Seq([nodeIndex, name, socket, parentNodeIndex, children,         *)
(*                localTransform])  socket: the name starts with "socket_"    *)
(*   skins : Seq([joints : Seq([nodeIndex, name, inverseBindMatrix])])        *)
(*   animations : Seq([name, durationSeconds, channels :                      *)
(*                Seq([targetNodeIndex, targetPath, interpolation, keys])]),  *)
(* a name that the code makes up is a tuple, distinct from every authored     *)
(* one, and a result with errors is a FALSE from the guard operators.         *)
EXTENDS AnimationClip, SequencesExt

NodeIndices(source) == {source.nodes[i].nodeIndex : i \in DOMAIN source.nodes}

Node(source, index) ==
    source.nodes[Min({i \in DOMAIN source.nodes : source.nodes[i].nodeIndex = index})]

Parent(source, index) == Node(source, index).parentNodeIndex

\* The nodes and their lists of children agree: no index twice, every parent is
\* there, every listed child is listed once and names its lister as its parent.
HierarchyAgrees(source) ==
    /\ \A i, j \in DOMAIN source.nodes :
        source.nodes[i].nodeIndex = source.nodes[j].nodeIndex => i = j
    /\ \A i \in DOMAIN source.nodes :
        source.nodes[i].parentNodeIndex \in {-1} \cup NodeIndices(source)
    /\ \A i \in DOMAIN source.nodes : \A k \in DOMAIN source.nodes[i].children :
        LET child == source.nodes[i].children[k] IN
        /\ child \in NodeIndices(source)
        /\ Parent(source, child) = source.nodes[i].nodeIndex
        /\ \A j \in DOMAIN source.nodes : \A l \in DOMAIN source.nodes[j].children :
            source.nodes[j].children[l] = child => i = j /\ k = l

Palette(skin) == [i \in DOMAIN skin.joints |-> skin.joints[i].nodeIndex]

PaletteIsSound(source, skin) ==
    /\ ToSet(Palette(skin)) \subseteq NodeIndices(source)
    /\ IsInjective(Palette(skin))

\* A node and its ancestors up to the root; the walk is cut when it comes back.
Ancestry(source, start) ==
    LET walk[steps \in 0 .. Len(source.nodes)] ==
            IF steps = 0 THEN <<start>>
            ELSE LET path == walk[steps - 1]
                     next == Parent(source, path[Len(path)])
                 IN  IF next < 0 \/ Len(path) < steps THEN path ELSE Append(path, next)
    IN  walk[Len(source.nodes)]

Circular(source, start) == ~ IsInjective(Ancestry(source, start))

AppendNew(nodes, node) == IF node \in ToSet(nodes) THEN nodes ELSE Append(nodes, node)

WithAncestors(source, nodes, start) == FoldLeft(AppendNew, nodes, Ancestry(source, start))

\* Palette slots first and unchanged, then the ancestors that do not deform.
PosedBySkin(source, skin) ==
    LET Include(nodes, joint) == WithAncestors(source, nodes, joint)
    IN  FoldLeft(Include, Palette(skin), Palette(skin))

AnimatedNodes(source) ==
    UNION {{source.animations[i].channels[k].targetNodeIndex :
                k \in DOMAIN source.animations[i].channels} : i \in DOMAIN source.animations}

\* What a loop that skips the others keeps of a list, in its order.
Those(list, wanted) ==
    LET Keep(kept, element) ==
            IF element \in wanted THEN Append(kept, element) ELSE kept
    IN  FoldLeft(Keep, << >>, list)

\* A socket is bound when a joint of the skin is above it or is it.
Attached(source, skin, node) ==
    node.socket /\ ToSet(Ancestry(source, node.nodeIndex)) \cap ToSet(Palette(skin)) # {}

BoundSockets(source, skin) ==
    Those(source.nodes, {node \in ToSet(source.nodes) : Attached(source, skin, node)})

\* A socket that is animated, or is posed already, is posed itself; of any other
\* only the parent is.
PosedNodes(source, skin) ==
    LET Include(nodes, node) ==
            IF node.nodeIndex \in AnimatedNodes(source) \cup ToSet(nodes)
            THEN WithAncestors(source, nodes, node.nodeIndex)
            ELSE WithAncestors(source, nodes, node.parentNodeIndex)
    IN  FoldLeft(Include, PosedBySkin(source, skin), BoundSockets(source, skin))

SlotOf(posed, node) == CHOOSE i \in DOMAIN posed : posed[i] = node

JointName(skin, posed, i) ==
    IF i > Len(skin.joints) THEN <<"gltf_node", posed[i]>>
    ELSE IF skin.joints[i].name = Unnamed THEN <<"joint", i>>
    ELSE <<"authored", skin.joints[i].name>>

BuiltJoint(source, skin, posed, i) ==
    [name |-> JointName(skin, posed, i),
     parent |-> IF Parent(source, posed[i]) < 0 THEN 0
                ELSE SlotOf(posed, Parent(source, posed[i])),
     bindLocal |-> Node(source, posed[i]).localTransform]

\* Variant for BuiltSocket: a posed socket keeps its own transform as well.
BuiltSocketTwice(posed, node) ==
    [name |-> node.name, local |-> node.localTransform,
     joint |-> SlotOf(posed, IF node.nodeIndex \in ToSet(posed) THEN node.nodeIndex
                             ELSE node.parentNodeIndex)]

BuiltSocket(posed, node) ==
    IF node.nodeIndex \in ToSet(posed)
    THEN [name |-> node.name, joint |-> SlotOf(posed, node.nodeIndex), local |-> Identity]
    ELSE [name |-> node.name, joint |-> SlotOf(posed, node.parentNodeIndex),
          local |-> node.localTransform]

BuiltSkeleton(source, skin) ==
    LET posed == PosedNodes(source, skin)
        sockets == BoundSockets(source, skin)
    IN  [joints |-> [i \in DOMAIN posed |-> BuiltJoint(source, skin, posed, i)],
         sockets |-> [i \in DOMAIN sockets |-> BuiltSocket(posed, sockets[i])]]

\* importChannel: a later channel for the same path replaces an earlier one, and
\* a cubic spline is sampled as if it were linear.
Imported(channels, posed, slot, path) ==
    LET mine == {i \in DOMAIN channels :
                    channels[i].targetNodeIndex = posed[slot] /\ channels[i].targetPath = path}
    IN  IF mine = {} THEN [interpolation |-> "linear", keys |-> << >>]
        ELSE [interpolation |-> IF channels[Max(mine)].interpolation = "step"
                                THEN "step" ELSE "linear",
              keys |-> channels[Max(mine)].keys]

BuiltClip(animation, posed) ==
    LET targets == {animation.channels[i].targetNodeIndex : i \in DOMAIN animation.channels}
        slots == Those([i \in DOMAIN posed |-> i], {i \in DOMAIN posed : posed[i] \in targets})
        Track(slot) ==
            [joint |-> slot,
             translation |-> Imported(animation.channels, posed, slot, "translation"),
             rotation |-> Imported(animation.channels, posed, slot, "rotation"),
             scale |-> Imported(animation.channels, posed, slot, "scale")]
    IN  [name |-> animation.name, duration |-> animation.durationSeconds,
         tracks |-> [i \in DOMAIN slots |-> Track(slots[i])]]

\* A clip that does not suit the skeleton is left out with a warning.
BuiltClips(source, skin) ==
    LET posed == PosedNodes(source, skin)
        body == BuiltSkeleton(source, skin)
        clips == [i \in DOMAIN source.animations |-> BuiltClip(source.animations[i], posed)]
    IN  Those(clips, {clip \in ToSet(clips) : ValidClip(clip, body)})

\* buildGltfAnimationAsset: what it accepts, and the asset it then hands out.
CanBuild(source, skinIndex) ==
    /\ skinIndex \in DOMAIN source.skins
    /\ LET skin == source.skins[skinIndex] IN
        /\ skin.joints # << >>
        /\ HierarchyAgrees(source)
        /\ PaletteIsSound(source, skin)
        /\ \A i \in DOMAIN skin.joints : ~ Circular(source, skin.joints[i].nodeIndex)
        /\ \A i \in DOMAIN source.nodes :
            source.nodes[i].socket =>
                \/ Attached(source, skin, source.nodes[i])
                \/ ~ Circular(source, source.nodes[i].nodeIndex)
        /\ ValidSkeleton(BuiltSkeleton(source, skin))
        /\ source.animations # << >> => BuiltClips(source, skin) # << >>

Built(source, skinIndex) ==
    LET skin == source.skins[skinIndex]
        posed == PosedNodes(source, skin)
    IN  [skinIndex |-> skinIndex,
         skeleton |-> BuiltSkeleton(source, skin),
         jointNodeIndices |-> posed,
         inverseBindMatrices |-> [i \in DOMAIN posed |->
            IF i =< Len(skin.joints) THEN skin.joints[i].inverseBindMatrix ELSE IdentityMatrix],
         clips |-> BuiltClips(source, skin)]

(***************************************************************************)
(* skinGltfMesh. A mesh is a sequence of primitives                         *)
(*   [skin, positions, normals, joints, weights],                           *)
(* joints and weights giving every vertex its influences; skin 0 is none. A *)
(* normal is 1 or -1. The output of an earlier frame is reused when it has   *)
(* the source's sizes: only positions and normals are written again.        *)
(***************************************************************************)
CanSkin(asset, pose) ==
    /\ Len(asset.inverseBindMatrices) = Len(asset.skeleton.joints)
    /\ DOMAIN pose = DOMAIN asset.skeleton.joints

SameSizes(out, source) ==
    /\ DOMAIN out = DOMAIN source
    /\ \A i \in DOMAIN source :
        /\ DOMAIN out[i].positions = DOMAIN source[i].positions
        /\ DOMAIN out[i].normals = DOMAIN source[i].normals

SkinMatrices(asset, pose) ==
    [i \in DOMAIN pose |-> Multiply(pose[i], asset.inverseBindMatrices[i])]

\* The influences of a vertex that count: weighted, and by a joint there is.
Influences(primitive, vertex, slots) ==
    {k \in DOMAIN primitive.weights[vertex] :
        primitive.weights[vertex][k] > 0 /\ primitive.joints[vertex][k] \in slots}

SumOf(parts) == FoldFunction(+, 0, parts)

WeightSum(primitive, vertex, slots) ==
    SumOf([k \in Influences(primitive, vertex, slots) |-> primitive.weights[vertex][k]])

SkinnedVertex(primitive, vertex, from, matrices) ==
    LET Part(k) == primitive.weights[vertex][k]
                   * TransformPoint(matrices[primitive.joints[vertex][k]], from.positions[vertex])
        slots == DOMAIN matrices
    IN  IF WeightSum(primitive, vertex, slots) = 0 THEN primitive.positions[vertex]
        ELSE SumOf([k \in Influences(primitive, vertex, slots) |-> Part(k)])
                \div WeightSum(primitive, vertex, slots)

SkinnedNormal(primitive, vertex, from, matrices) ==
    LET Part(k) == primitive.weights[vertex][k]
                   * TransformDirection(matrices[primitive.joints[vertex][k]], from.normals[vertex])
        slots == DOMAIN matrices
        normal == SumOf([k \in Influences(primitive, vertex, slots) |-> Part(k)])
    IN  IF WeightSum(primitive, vertex, slots) = 0 THEN primitive.normals[vertex]
        ELSE IF normal = 0 THEN from.normals[vertex]
        ELSE IF normal > 0 THEN 1 ELSE -1

\* Variant for SkinnedPrimitive: skins what the last frame left.
SkinnedInPlace(primitive, from, asset, matrices) ==
    IF primitive.skin # asset.skinIndex THEN primitive
    ELSE [primitive EXCEPT
            !.positions = [v \in DOMAIN @ |-> SkinnedVertex(primitive, v, primitive, matrices)]]

Deforms(primitive, asset) ==
    /\ primitive.skin = asset.skinIndex
    /\ Len(primitive.joints) = Len(primitive.positions)
    /\ Len(primitive.weights) = Len(primitive.positions)

SkinnedPrimitive(primitive, from, asset, matrices) ==
    IF ~ Deforms(primitive, asset) THEN primitive
    ELSE [primitive EXCEPT
            !.positions = [v \in DOMAIN @ |-> SkinnedVertex(primitive, v, from, matrices)],
            !.normals = [v \in DOMAIN @ |-> SkinnedNormal(primitive, v, from, matrices)]]

SkinnedMesh(source, asset, pose, out) ==
    IF ~ CanSkin(asset, pose) THEN out
    ELSE LET start == IF SameSizes(out, source) THEN out ELSE source IN
         [i \in DOMAIN start |->
            SkinnedPrimitive(start[i], source[i], asset, SkinMatrices(asset, pose))]
==============================================================================
