------------------------------ MODULE Skeleton ------------------------------
(* Joints in a hierarchy (Skeleton.cpp). A skeleton is                        *)
(*   [joints : Seq([name, parent, bindLocal]), sockets : Seq([name, joint,    *)
(*   local])];                                                                *)
(* joint k of the code is joint k + 1 here and a parent of -1 is 0. A pose    *)
(* gives every joint a transform (local) or a matrix (global).                *)
(*                                                                            *)
(* The values it is made of (AnimationTypes.cpp) are on one axis: a           *)
(* translation and a scale are whole numbers, a rotation is a half turn (-1)  *)
(* or none (1), a matrix is the map x |-> linear * x + offset. Rotation and   *)
(* translation do not commute, products of matrices are as ordered as in      *)
(* space. A weight of 1.0F is Full, and what falls between two whole numbers  *)
(* is rounded down. A rotation of 0 is a quaternion of length zero, and a     *)
(* component that is no integer is one that is not finite.                    *)
EXTENDS Integers, Sequences, FiniteSetsExt

CONSTANTS
    Limits,   \* the configured maxima: joints, sockets, depth, tracks, keys, duration
    Unnamed   \* the empty name

ASSUME LimitsAssumption ==
    Limits \in [joints : Nat, sockets : Nat, depth : Nat, tracks : Nat, keys : Nat, duration : Nat]

Full == 4

Identity == [translation |-> 0, rotation |-> 1, scale |-> 1]

Finite(transform) ==
    {transform.translation, transform.rotation, transform.scale} \subseteq Int

HasRotation(transform) == transform.rotation # 0

\* Skeleton.cpp's validateTransform: what a joint, a socket and a pose need.
ValidTransform(transform) ==
    /\ Finite(transform)
    /\ HasRotation(transform)
    /\ transform.scale # 0

Normalized(rotation) == IF rotation = 0 THEN 1 ELSE rotation

Lerp(from, to, weight) == from + ((to - from) * weight) \div Full

\* Between two half turns lies nothing this axis can show.
Slerp(from, to, weight) == Normalized(IF weight = Full THEN to ELSE from)

Blend(from, to, weight) ==
    [translation |-> Lerp(from.translation, to.translation, weight),
     rotation |-> Slerp(from.rotation, to.rotation, weight),
     scale |-> Lerp(from.scale, to.scale, weight)]

IdentityMatrix == [linear |-> 1, offset |-> 0]

Matrix(transform) ==
    [linear |-> Normalized(transform.rotation) * transform.scale,
     offset |-> transform.translation]

Multiply(lhs, rhs) ==
    [linear |-> lhs.linear * rhs.linear,
     offset |-> lhs.linear * rhs.offset + lhs.offset]

TransformPoint(matrix, point) == matrix.linear * point + matrix.offset

TransformDirection(matrix, direction) == matrix.linear * direction
------------------------------------------------------------------------------
Joints(skeleton) == DOMAIN skeleton.joints

ParentOf(skeleton, joint) == skeleton.joints[joint].parent

\* Where a walk towards the root stands after some steps: 0 once it has left.
Above(skeleton, start) ==
    LET up[steps \in 0 .. Len(skeleton.joints)] ==
            IF steps = 0 THEN start
            ELSE LET here == up[steps - 1] IN
                 IF here \notin Joints(skeleton) THEN 0
                 ELSE IF ParentOf(skeleton, here) \in Joints(skeleton)
                      THEN ParentOf(skeleton, here) ELSE 0
    IN  up

Distinct(names) ==
    /\ \A i \in DOMAIN names : names[i] # Unnamed
    /\ \A i, j \in DOMAIN names : names[i] = names[j] => i = j

\* Every walk towards the root leaves the skeleton, within the allowed depth: none
\* comes back to a joint.
WalksEnd(skeleton) ==
    \A joint \in Joints(skeleton) :
        \E depth \in 1 .. Min({Len(skeleton.joints), Limits.depth}) :
            Above(skeleton, joint)[depth] = 0

ValidSkeleton(skeleton) ==
    /\ skeleton.joints # << >>
    /\ Len(skeleton.joints) =< Limits.joints
    /\ Len(skeleton.sockets) =< Limits.sockets
    /\ Distinct([joint \in Joints(skeleton) |-> skeleton.joints[joint].name])
    /\ \A joint \in Joints(skeleton) :
        /\ ParentOf(skeleton, joint) \in {0} \cup Joints(skeleton)
        /\ ParentOf(skeleton, joint) # joint
        /\ ValidTransform(skeleton.joints[joint].bindLocal)
    /\ WalksEnd(skeleton)
    /\ Distinct([i \in DOMAIN skeleton.sockets |-> skeleton.sockets[i].name])
    /\ \A i \in DOMAIN skeleton.sockets :
        /\ skeleton.sockets[i].joint \in Joints(skeleton)
        /\ ValidTransform(skeleton.sockets[i].local)

BindPose(skeleton) ==
    [joint \in Joints(skeleton) |-> skeleton.joints[joint].bindLocal]

ValidPose(skeleton, pose) ==
    /\ DOMAIN pose = Joints(skeleton)
    /\ \A joint \in DOMAIN pose : ValidTransform(pose[joint])

\* evaluateGlobalPose: whether it succeeds, and what it yields. A hierarchy that
\* was just validated has no cycle for the evaluation to run into.
Evaluates(skeleton, pose) == ValidSkeleton(skeleton) /\ ValidPose(skeleton, pose)

GlobalPose(skeleton, pose) ==
    LET global[joint \in Joints(skeleton)] ==
            IF ParentOf(skeleton, joint) = 0
            THEN Matrix(pose[joint])
            ELSE Multiply(global[ParentOf(skeleton, joint)], Matrix(pose[joint]))
    IN  [joint \in Joints(skeleton) |-> global[joint]]

\* evaluateSocket, by name: whether it succeeds, and where the socket is.
SocketsNamed(skeleton, name) ==
    {i \in DOMAIN skeleton.sockets : skeleton.sockets[i].name = name}

SocketEvaluates(skeleton, global, name) ==
    /\ SocketsNamed(skeleton, name) # {}
    /\ DOMAIN global = Joints(skeleton)
    /\ LET socket == skeleton.sockets[Min(SocketsNamed(skeleton, name))] IN
        /\ socket.joint \in DOMAIN global
        /\ ValidTransform(socket.local)

SocketMatrix(skeleton, global, name) ==
    LET socket == skeleton.sockets[Min(SocketsNamed(skeleton, name))] IN
    Multiply(global[socket.joint], Matrix(socket.local))
=============================================================================
