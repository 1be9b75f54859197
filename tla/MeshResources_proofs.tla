------------------------ MODULE MeshResources_proofs ------------------------
(***************************************************************************)
(* No GPU buffer is destroyed under a command buffer that refers to it     *)
(* (NothingDrawnIsDestroyed of MeshResources), for any number of frames in *)
(* flight, meshes, assets and uploads per frame.  The argument counts      *)
(* frames: a submitted slot comes round again after Distance(slot) more    *)
(* submissions, and a released mesh that it draws is kept for longer.      *)
(***************************************************************************)
EXTENDS MeshResources, SequenceTheorems, TLAPS

(* How many more frames are submitted before the CPU waits for a slot.     *)
Distance(s) ==
  IF s >= currentFrame THEN s - currentFrame ELSE s - currentFrame + FramesInFlight

(* What a slot draws is resident, or is deferred for more than n frames.   *)
Kept(s, n) ==
  \A h \in drawn[s] : h \in In("resident") \/ (h \in DOMAIN deferred /\ deferred[h] > n)

(* The fields of a mesh, whatever their values are.                        *)
IsMesh(mesh) ==
  mesh = [state |-> mesh.state, dynamic |-> mesh.dynamic, poses |-> mesh.poses]

FramesType ==
  /\ phase \in {"outside", "waiting", "active"}
  /\ currentFrame \in FrameSlots
  /\ signaled \subseteq FrameSlots
  /\ queue \in Seq(FrameSlots)
  /\ drawn \in [FrameSlots -> SUBSET Handles]

MeshesType ==
  /\ DOMAIN gpuMeshes \subseteq Handles
  /\ \A h \in DOMAIN gpuMeshes : IsMesh(gpuMeshes[h])
  /\ uploads \in Seq(Handles)
  /\ \A h \in DOMAIN deferred : deferred[h] \in Nat

RegistryType == issued \subseteq Handles /\ \A a \in DOMAIN byAsset : byAsset[a] \in Handles

(* A slot is submitted once, and not finished while its fence is signaled. *)
OrderInv ==
  /\ \A i, j \in DOMAIN queue : queue[i] = queue[j] => i = j
  /\ InFlight \cap signaled = {}
  /\ phase = "active" => currentFrame \notin InFlight \cup signaled

(* A mesh is queued for upload once, and only while it is pending.         *)
UploadsInv ==
  /\ \A i \in DOMAIN uploads : uploads[i] \in In("pending")
  /\ \A i, j \in DOMAIN uploads : uploads[i] = uploads[j] => i = j

AgesInv ==
  /\ \A s \in InFlight : Kept(s, Distance(s))
  /\ phase = "active" => Kept(currentFrame, FramesInFlight)

MeshesInv == MeshesType /\ UploadsInv
FramesInv == FramesType /\ OrderInv
IInv == FramesInv /\ MeshesInv /\ RegistryType /\ AgesInv

-----------------------------------------------------------------------------
(* The next slot, without division.                                        *)
LEMMA NextFrameIs ==
  ASSUME currentFrame \in FrameSlots
  PROVE  /\ NextFrame \in FrameSlots
         /\ NextFrame = IF currentFrame + 1 = FramesInFlight THEN 0 ELSE currentFrame + 1
<1> DEFINE F == FramesInFlight
           n == currentFrame + 1
<1>1. F \in Nat \ {0} /\ n \in 1 .. F
  BY FramesAssumption DEF FrameSlots
<1>2. CASE n = F
  <2>1. n % F = 0
    BY <1>1, <1>2
  <2> QED BY <1>1, <1>2, <2>1 DEF NextFrame, FrameSlots
<1>3. CASE n # F
  <2>1. n \in 0 .. F - 1
    BY <1>1, <1>3
  <2>2. n % F = n
    BY <1>1, <2>1
  <2> QED BY <1>1, <1>3, <2>1, <2>2 DEF NextFrame, FrameSlots
<1> QED BY <1>2, <1>3

LEMMA DistanceType ==
  ASSUME NEW s \in FrameSlots, currentFrame \in FrameSlots
  PROVE  /\ Distance(s) \in 0 .. FramesInFlight - 1
         /\ Distance(s) = 0 <=> s = currentFrame
  BY FramesAssumption DEF Distance, FrameSlots

(* With every submission the other slots come closer, and the one that was *)
(* submitted is the farthest.                                              *)
LEMMA DistanceShrinks ==
  ASSUME NEW s \in FrameSlots, currentFrame \in FrameSlots, currentFrame' = NextFrame
  PROVE  /\ s # currentFrame => Distance(s)' = Distance(s) - 1
         /\ s = currentFrame => Distance(s)' = FramesInFlight - 1
  BY NextFrameIs, FramesAssumption DEF Distance, FrameSlots

LEMMA InitInv == FullInit => IInv
<1> SUFFICES ASSUME FullInit PROVE IInv
  OBVIOUS
<1>1. InFlight = {}
  BY DEF FullInit, Init, InFlight
<1>2. FramesInv
  BY <1>1, FramesAssumption DEF FramesInv, FramesType, OrderInv, FullInit, Init, FrameSlots
<1>3. MeshesInv /\ RegistryType
  BY DEF MeshesInv, MeshesType, UploadsInv, RegistryType, FullInit, Init, Nowhere
<1>4. AgesInv
  BY <1>1 DEF AgesInv, FullInit, Init
<1> QED BY <1>2, <1>3, <1>4 DEF IInv

-----------------------------------------------------------------------------
(***************************************************************************)
(* The mesh calls of the game.                                             *)
(***************************************************************************)

(* What a call leaves of resident and deferred meshes.                     *)
Retained ==
  /\ \A h \in In("resident") :
       h \in In("resident")' \/ (h \in DOMAIN deferred' /\ deferred'[h] = RetireAfter)
  /\ \A h \in DOMAIN deferred :
       h \in DOMAIN deferred' /\ (deferred'[h] = deferred[h] \/ deferred'[h] = RetireAfter)

LEMMA RetainedIsKept ==
  ASSUME Retained, NEW s, NEW n \in Nat, n <= FramesInFlight, Kept(s, n), drawn' = drawn,
         MeshesType
  PROVE  \A h \in drawn'[s] : h \in In("resident")' \/ (h \in DOMAIN deferred' /\ deferred'[h] > n)
<1> TAKE h \in drawn'[s]
<1>1. RetireAfter > n
  BY FramesAssumption DEF RetireAfter
<1>2. CASE h \in In("resident")
  BY <1>1, <1>2 DEF Retained
<1>3. CASE h \in DOMAIN deferred /\ deferred[h] > n
  BY <1>1, <1>3 DEF Retained
<1> QED BY <1>2, <1>3 DEF Kept

LEMMA CallKeepsAges ==
  ASSUME FramesInv, MeshesInv, AgesInv, Retained, UNCHANGED frameVars
  PROVE  AgesInv'
<1>1. UNCHANGED <<phase, currentFrame, queue, drawn>>
  BY DEF frameVars
<1>2. InFlight' = InFlight /\ \A s : Distance(s)' = Distance(s)
  BY <1>1 DEF InFlight, Distance
<1>3. ASSUME NEW s \in InFlight' PROVE Kept(s, Distance(s))'
  <2>1. s \in FrameSlots
    BY <1>2, <1>3 DEF InFlight, FramesInv, FramesType
  <2>2. Distance(s) \in Nat /\ Distance(s) <= FramesInFlight
    BY <2>1, DistanceType, FramesAssumption DEF FramesInv, FramesType
  <2>3. Kept(s, Distance(s))
    BY <1>2, <1>3 DEF AgesInv
  <2> QED BY <1>1, <1>2, <2>2, <2>3, RetainedIsKept DEF Kept, MeshesInv
<1>4. ASSUME phase' = "active" PROVE Kept(currentFrame, FramesInFlight)'
  <2>1. Kept(currentFrame, FramesInFlight)
    BY <1>1, <1>4 DEF AgesInv
  <2> QED BY <1>1, <2>1, RetainedIsKept, FramesAssumption DEF Kept, MeshesInv
<1> QED BY <1>3, <1>4 DEF AgesInv

LEMMA RegisterMeshEffect ==
  ASSUME MeshesInv, NEW h \in Handles, NEW dynamic, RegisterMesh(h, dynamic)
  PROVE  Retained /\ MeshesInv'
<1>1. CASE h \in DOMAIN gpuMeshes \ In("failed")
  BY <1>1 DEF RegisterMesh, meshVars, Retained, MeshesInv, MeshesType, UploadsInv, In
<1>2. CASE h \notin DOMAIN gpuMeshes \ In("failed")
  <2>1. /\ gpuMeshes' = With(gpuMeshes, h, NewMesh(dynamic))
        /\ uploads' = Append(uploads, h)
        /\ deferred' = deferred
    BY <1>2 DEF RegisterMesh
  <2>2. /\ DOMAIN gpuMeshes' = DOMAIN gpuMeshes \cup {h}
        /\ \A x \in DOMAIN gpuMeshes \ {h} : gpuMeshes'[x] = gpuMeshes[x]
        /\ gpuMeshes'[h].state = "pending" /\ IsMesh(gpuMeshes'[h])
    <3>1. /\ DOMAIN gpuMeshes' = DOMAIN gpuMeshes \cup {h}
          /\ \A x \in DOMAIN gpuMeshes \ {h} : gpuMeshes'[x] = gpuMeshes[x]
          /\ gpuMeshes'[h] = NewMesh(dynamic)
      BY <2>1 DEF With
    <3>2. NewMesh(dynamic).state = "pending" /\ IsMesh(NewMesh(dynamic))
      BY DEF NewMesh, IsMesh
    <3> QED BY <3>1, <3>2
  <2>3. h \notin In("pending") /\ h \notin In("resident")
    BY <1>2 DEF In
  <2>4. In("resident") \subseteq In("resident")' /\ In("pending") \cup {h} \subseteq In("pending")'
    BY <2>2, <2>3 DEF In
  <2>5. Retained
    BY <2>1, <2>4 DEF Retained
  <2>6. MeshesType'
    BY <2>1, <2>2 DEF MeshesType, MeshesInv
  <2>7. UploadsInv'
    <3>1. /\ uploads' \in Seq(Handles) /\ DOMAIN uploads' = 1 .. Len(uploads) + 1
          /\ uploads'[Len(uploads) + 1] = h
          /\ \A i \in 1 .. Len(uploads) : uploads'[i] = uploads[i]
      BY <2>1 DEF MeshesInv, MeshesType
    <3>2. \A i \in 1 .. Len(uploads) : uploads[i] \in In("pending") /\ uploads[i] # h
      BY <2>3 DEF MeshesInv, MeshesType, UploadsInv
    <3>3. \A i, j \in 1 .. Len(uploads) : uploads[i] = uploads[j] => i = j
      BY DEF MeshesInv, MeshesType, UploadsInv
    <3>4. Len(uploads) \in Nat
      BY DEF MeshesInv, MeshesType
    <3> QED BY <2>4, <3>1, <3>2, <3>3, <3>4 DEF UploadsInv
  <2> QED BY <2>5, <2>6, <2>7 DEF MeshesInv
<1> QED BY <1>1, <1>2

(* A mesh taken from the upload queue leaves the others there once.        *)
LEMMA DequeuedEffect ==
  ASSUME MeshesInv, NEW h
  PROVE  /\ Dequeued(h) \in Seq(Handles)
         /\ \A i \in DOMAIN Dequeued(h) : Dequeued(h)[i] \in In("pending") \ {h}
         /\ \A i, j \in DOMAIN Dequeued(h) : Dequeued(h)[i] = Dequeued(h)[j] => i = j
<1>1. /\ uploads \in Seq(Handles) /\ Len(uploads) \in Nat /\ DOMAIN uploads = 1 .. Len(uploads)
      /\ \A i \in 1 .. Len(uploads) : uploads[i] \in Handles /\ uploads[i] \in In("pending")
      /\ \A i, j \in 1 .. Len(uploads) : uploads[i] = uploads[j] => i = j
  BY DEF MeshesInv, MeshesType, UploadsInv
<1>2. CASE ~\E i \in DOMAIN uploads : uploads[i] = h
  BY <1>1, <1>2 DEF Dequeued
<1>3. CASE \E i \in DOMAIN uploads : uploads[i] = h
  <2>1. PICK i \in 1 .. Len(uploads) : /\ uploads[i] = h
           /\ i = CHOOSE j \in DOMAIN uploads : uploads[j] = h
    BY <1>1, <1>3
  <2> DEFINE left == [k \in 1 .. Len(uploads) - 1 |-> uploads[IF k < i THEN k ELSE k + 1]]
  <2>2. Dequeued(h) = left
    BY <1>3, <2>1 DEF Dequeued
  <2>3. \A k \in 1 .. Len(uploads) - 1 : /\ left[k] = uploads[IF k < i THEN k ELSE k + 1]
           /\ (IF k < i THEN k ELSE k + 1) \in (1 .. Len(uploads)) \ {i}
    BY <1>1
  <2>4. \A k \in 1 .. Len(uploads) - 1 : left[k] \in Handles /\ left[k] \in In("pending") \ {h}
    BY <1>1, <2>1, <2>3
  <2>5. left \in Seq(Handles) /\ DOMAIN left = 1 .. Len(uploads) - 1
    <3>1. left \in [1 .. Len(uploads) - 1 -> Handles] /\ Len(uploads) - 1 \in Nat
      BY <1>1, <2>1, <2>4
    <3> HIDE DEF left
    <3> QED BY <3>1, SeqDef
  <2>6. \A k, l \in 1 .. Len(uploads) - 1 : left[k] = left[l] => k = l
    <3> SUFFICES ASSUME NEW k \in 1 .. Len(uploads) - 1, NEW l \in 1 .. Len(uploads) - 1,
                        left[k] = left[l]
                 PROVE  k = l
      OBVIOUS
    <3>1. (IF k < i THEN k ELSE k + 1) = (IF l < i THEN l ELSE l + 1)
      BY <1>1, <2>3
    <3> QED BY <1>1, <3>1
  <2> QED BY <2>2, <2>4, <2>5, <2>6
<1> QED BY <1>2, <1>3

LEMMA ReleaseMeshEffect ==
  ASSUME MeshesInv, NEW h \in Handles, ReleaseMesh(h)
  PROVE  Retained /\ MeshesInv'
<1>1. /\ uploads' = Dequeued(h)
      /\ deferred' = IF h \in In("resident") THEN With(deferred, h, RetireAfter) ELSE deferred
      /\ gpuMeshes' = Without(gpuMeshes, h)
  BY DEF ReleaseMesh
<1>2. /\ DOMAIN gpuMeshes' = DOMAIN gpuMeshes \ {h}
      /\ \A x \in DOMAIN gpuMeshes' : gpuMeshes'[x] = gpuMeshes[x]
  BY <1>1 DEF Without
<1>3. /\ In("resident") \ {h} \subseteq In("resident")'
      /\ In("pending") \ {h} \subseteq In("pending")'
  BY <1>2 DEF In
<1>4. Retained /\ \A x \in DOMAIN deferred' : deferred'[x] \in Nat
  <2>1. RetireAfter \in Nat /\ \A x \in DOMAIN deferred : deferred[x] \in Nat
    BY FramesAssumption DEF RetireAfter, MeshesInv, MeshesType
  <2>2. CASE h \in In("resident")
    <3>1. /\ DOMAIN deferred' = DOMAIN deferred \cup {h}
          /\ \A x \in DOMAIN deferred' :
               deferred'[x] = IF x = h THEN RetireAfter ELSE deferred[x]
      BY <1>1, <2>2 DEF With
    <3> QED BY <1>3, <2>1, <3>1 DEF Retained
  <2>3. CASE h \notin In("resident")
    BY <1>1, <1>3, <2>1, <2>3 DEF Retained
  <2> QED BY <2>2, <2>3
<1>5. MeshesType' /\ UploadsInv'
  BY <1>1, <1>2, <1>3, <1>4, DequeuedEffect DEF MeshesType, UploadsInv, MeshesInv
<1> QED BY <1>4, <1>5 DEF MeshesInv

LEMMA NoCallEffect ==
  ASSUME MeshesInv, UNCHANGED <<gpuMeshes, uploads, deferred>>
  PROVE  Retained /\ MeshesInv'
  BY DEF Retained, MeshesInv, MeshesType, UploadsInv, In

(* A call of the game keeps the invariant when it keeps these parts of it. *)
LEMMA CallKeepsInv ==
  ASSUME IInv, UNCHANGED frameVars, Retained /\ MeshesInv', RegistryType'
  PROVE  IInv'
<1>1. AgesInv'
  BY CallKeepsAges DEF IInv
<1>2. FramesInv'
  <2>1. FramesInv /\ UNCHANGED <<phase, currentFrame, signaled, queue, drawn>>
    BY DEF IInv, frameVars
  <2> QED BY <2>1 DEF FramesInv, FramesType, OrderInv, InFlight
<1> QED BY <1>1, <1>2 DEF IInv

LEMMA RegisterKeepsInv ==
  ASSUME IInv, NEW a \in Assets, Register(a)
  PROVE  IInv'
<1>1. MeshesInv /\ RegistryType
  BY DEF IInv
<1>2. PICK h \in Handles : /\ byAsset' = With(byAsset, a, h)
         /\ issued' = issued \cup {h}
         /\ IF ready THEN RegisterMesh(h, a \in DynamicAssets) ELSE UNCHANGED meshVars
  BY DEF Register
<1>3. Retained /\ MeshesInv'
  <2>1. CASE ready
    BY <1>1, <1>2, <2>1, RegisterMeshEffect
  <2>2. CASE ~ready
    BY <1>1, <1>2, <2>2, NoCallEffect DEF meshVars
  <2> QED BY <2>1, <2>2
<1>4. RegistryType'
  <2>1. /\ DOMAIN byAsset' = DOMAIN byAsset \cup {a}
        /\ \A x \in DOMAIN byAsset' : byAsset'[x] = IF x = a THEN h ELSE byAsset[x]
    BY <1>2 DEF With
  <2> QED BY <1>1, <1>2, <2>1 DEF RegistryType
<1> QED BY <1>3, <1>4, CallKeepsInv DEF Register, Calling

LEMMA RegisterAgainKeepsInv ==
  ASSUME IInv, NEW a \in Assets, RegisterAgain(a)
  PROVE  IInv'
<1>1. MeshesInv /\ RegistryType
  BY DEF IInv
<1>2. PICK h \in Handles :
         IF ready THEN RegisterMesh(h, a \in DynamicAssets) ELSE UNCHANGED meshVars
  BY <1>1 DEF RegisterAgain, RegistryType
<1>3. Retained /\ MeshesInv'
  <2>1. CASE ready
    BY <1>1, <1>2, <2>1, RegisterMeshEffect
  <2>2. CASE ~ready
    BY <1>1, <1>2, <2>2, NoCallEffect DEF meshVars
  <2> QED BY <2>1, <2>2
<1>4. RegistryType'
  BY <1>1 DEF RegistryType, RegisterAgain, registryVars
<1> QED BY <1>3, <1>4, CallKeepsInv DEF RegisterAgain, Calling

LEMMA ReleaseKeepsInv ==
  ASSUME IInv, NEW h \in issued, Release(h)
  PROVE  IInv'
<1>1. MeshesInv /\ RegistryType
  BY DEF IInv
<1>2. h \in Handles /\ IF ready THEN ReleaseMesh(h) ELSE UNCHANGED meshVars
  BY <1>1 DEF Release, RegistryType
<1>3. Retained /\ MeshesInv'
  <2>1. CASE ready
    BY <1>1, <1>2, <2>1, ReleaseMeshEffect
  <2>2. CASE ~ready
    BY <1>1, <1>2, <2>2, NoCallEffect DEF meshVars
  <2> QED BY <2>1, <2>2
<1>4. RegistryType'
  BY <1>1 DEF RegistryType, Release
<1> QED BY <1>3, <1>4, CallKeepsInv DEF Release, Calling

LEMMA UpdateKeepsInv ==
  ASSUME IInv, NEW h \in issued, NEW pose, Update(h, pose)
  PROVE  IInv'
<1>1. UNCHANGED <<gpuMeshes, uploads, deferred>>
  BY DEF Update, QueuePose, meshVars
<1>2. Retained /\ MeshesInv'
  BY <1>1, NoCallEffect DEF IInv
<1>3. RegistryType'
  BY DEF IInv, RegistryType, Update, registryVars
<1> QED BY <1>2, <1>3, CallKeepsInv DEF Update, Calling

-----------------------------------------------------------------------------
(***************************************************************************)
(* The frame loop.                                                         *)
(***************************************************************************)

(* A step that draws nothing new and leaves the meshes alone.              *)
LEMMA NothingNewKeepsInv ==
  ASSUME IInv, FramesInv', InFlight' \subseteq InFlight,
         phase' = "active" => phase = "active",
         UNCHANGED <<currentFrame, drawn, gpuMeshes, uploads, deferred, issued, byAsset>>
  PROVE  IInv'
<1>1. MeshesInv' /\ RegistryType'
  BY DEF IInv, MeshesInv, MeshesType, UploadsInv, In, RegistryType
<1>2. \A s, n : Kept(s, n) => \A h \in drawn'[s] :
         h \in In("resident")' \/ (h \in DOMAIN deferred' /\ deferred'[h] > n)
  BY DEF Kept, In
<1>3. AgesInv'
  <2>1. \A s \in InFlight' : Kept(s, Distance(s))'
    BY <1>2 DEF IInv, AgesInv, Kept, Distance
  <2>2. phase' = "active" => Kept(currentFrame, FramesInFlight)'
    BY <1>2 DEF IInv, AgesInv, Kept
  <2> QED BY <2>1, <2>2 DEF AgesInv
<1> QED BY <1>1, <1>3 DEF IInv

LEMMA RecreateEffect ==
  ASSUME NEW submitted \in Seq(FrameSlots), RecreateSwapchain(submitted),
         signaled \subseteq FrameSlots
  PROVE  queue' = <<>> /\ InFlight' = {} /\ signaled' \subseteq FrameSlots
  BY DEF RecreateSwapchain, InFlight

LEMMA BeginFrameKeepsInv ==
  ASSUME IInv, BeginFrame, Unrelated
  PROVE  IInv'
<1>1. FramesType /\ OrderInv
  BY DEF IInv, FramesInv
<1>2. phase' \in {"outside", "waiting"} /\ UNCHANGED <<currentFrame, drawn>>
  BY DEF BeginFrame
<1>3. FramesInv' /\ InFlight' \subseteq InFlight
  <2>1. CASE surface = "same"
    BY <1>1, <1>2, <2>1 DEF BeginFrame, FramesInv, FramesType, OrderInv, InFlight
  <2>2. CASE surface # "same"
    <3>1. queue' = <<>> /\ InFlight' = {} /\ signaled' \subseteq FrameSlots
      BY <1>1, <2>2, RecreateEffect DEF BeginFrame, FramesType
    <3> QED BY <1>1, <1>2, <3>1 DEF FramesInv, FramesType, OrderInv
  <2> QED BY <2>1, <2>2
<1> QED BY <1>2, <1>3, NothingNewKeepsInv DEF BeginFrame, meshVars, Unrelated, registryVars

LEMMA SubmitFailsKeepsInv ==
  ASSUME IInv, SubmitFails, UNCHANGED registryVars
  PROVE  IInv'
<1>1. FramesInv' /\ InFlight' = InFlight
  BY DEF IInv, SubmitFails, FramesInv, FramesType, OrderInv, InFlight
<1> QED BY <1>1, NothingNewKeepsInv DEF SubmitFails, meshVars, registryVars

LEMMA ResizeKeepsInv ==
  ASSUME IInv, Resize, Unrelated
  PROVE  IInv'
<1>1. FramesInv' /\ InFlight' = InFlight
  BY DEF IInv, Resize, FramesInv, FramesType, OrderInv, InFlight
<1> QED BY <1>1, NothingNewKeepsInv DEF Resize, meshVars, Unrelated, registryVars

LEMMA FinishKeepsInv ==
  ASSUME IInv, Finish, Unrelated
  PROVE  IInv'
<1>1. /\ FramesType /\ OrderInv /\ queue \in Seq(FrameSlots) /\ queue # <<>>
      /\ Len(queue) \in Nat \ {0}
  BY EmptySeq DEF IInv, FramesInv, FramesType, Finish
<1>2. /\ queue' \in Seq(FrameSlots) /\ Len(queue') = Len(queue) - 1
      /\ \A i \in 1 .. Len(queue) - 1 : queue'[i] = queue[i + 1]
      /\ Head(queue) = queue[1]
  BY <1>1, HeadTailProperties DEF Finish
<1>3. /\ DOMAIN queue = 1 .. Len(queue) /\ DOMAIN queue' = 1 .. Len(queue) - 1
      /\ \A i, j \in 1 .. Len(queue) : queue[i] = queue[j] => i = j
  BY <1>1, <1>2 DEF OrderInv
<1>4. InFlight' \subseteq InFlight \ {queue[1]} /\ queue[1] \in InFlight
  <2>1. \A i \in 1 .. Len(queue) - 1 : i + 1 \in 1 .. Len(queue) /\ i + 1 # 1
    BY <1>1
  <2> QED BY <1>1, <1>2, <1>3, <2>1 DEF InFlight
<1>5. \A i, j \in DOMAIN queue' : queue'[i] = queue'[j] => i = j
  <2>1. \A i, j \in 1 .. Len(queue) - 1 : queue[i + 1] = queue[j + 1] => i + 1 = j + 1
    BY <1>1, <1>3
  <2> QED BY <1>1, <1>2, <1>3, <2>1
<1>6. OrderInv'
  BY <1>1, <1>2, <1>4, <1>5 DEF OrderInv, Finish
<1>7. FramesType'
  BY <1>1, <1>2, HeadTailProperties DEF FramesType, Finish
<1> QED BY <1>4, <1>6, <1>7, NothingNewKeepsInv
        DEF Finish, FramesInv, meshVars, Unrelated, registryVars

LEMMA ShutdownKeepsInv ==
  ASSUME IInv, Shutdown, Unrelated
  PROVE  IInv'
<1>1. InFlight' = {}
  BY DEF Shutdown, InFlight
<1>2. FramesInv'
  BY <1>1, FramesAssumption DEF FramesInv, FramesType, OrderInv, Shutdown, FrameSlots
<1>3. MeshesInv' /\ RegistryType'
  BY DEF IInv, MeshesInv, MeshesType, UploadsInv, RegistryType, Shutdown, Nowhere,
         Unrelated, registryVars
<1>4. AgesInv'
  BY <1>1 DEF AgesInv, Shutdown
<1> QED BY <1>2, <1>3, <1>4 DEF IInv

(* The slot submitted joins the others, which are one frame nearer.        *)
LEMMA EndFrameKeepsInv ==
  ASSUME IInv, NEW present, EndFrame(present), Unrelated
  PROVE  IInv'
<1>1. /\ FramesType /\ OrderInv /\ MeshesInv /\ AgesInv
      /\ phase = "active" /\ phase' = "outside" /\ currentFrame' = NextFrame /\ drawn' = drawn
      /\ UNCHANGED <<gpuMeshes, uploads>>
  BY DEF IInv, FramesInv, EndFrame
<1>2. /\ Submitted \in Seq(FrameSlots)
      /\ {Submitted[i] : i \in DOMAIN Submitted} = InFlight \cup {currentFrame}
  <2>1. /\ Submitted \in Seq(FrameSlots) /\ Len(queue) \in Nat
        /\ DOMAIN queue = 1 .. Len(queue) /\ DOMAIN Submitted = 1 .. Len(queue) + 1
        /\ \A i \in 1 .. Len(queue) : Submitted[i] = queue[i]
        /\ Submitted[Len(queue) + 1] = currentFrame
    BY <1>1 DEF Submitted, FramesType
  <2> QED BY <2>1 DEF InFlight
<1>3. FramesInv' /\ InFlight' \subseteq InFlight \cup {currentFrame}
  <2>1. CASE present = "stale"
    <3>1. queue' = <<>> /\ InFlight' = {} /\ signaled' \subseteq FrameSlots
      BY <1>1, <1>2, <2>1, RecreateEffect DEF EndFrame, FramesType
    <3> QED BY <1>1, <3>1, NextFrameIs DEF FramesInv, FramesType, OrderInv
  <2>2. CASE present # "stale"
    <3>1. queue' = Submitted /\ signaled' = signaled
      BY <2>2 DEF EndFrame
    <3>2. InFlight' = InFlight \cup {currentFrame}
      BY <1>2, <3>1 DEF InFlight
    <3>3. /\ Len(queue) \in Nat
          /\ DOMAIN queue = 1 .. Len(queue) /\ DOMAIN queue' = 1 .. Len(queue) + 1
          /\ \A i \in 1 .. Len(queue) : queue'[i] = queue[i] /\ queue[i] \in InFlight
          /\ queue'[Len(queue) + 1] = currentFrame
      BY <1>1, <3>1 DEF Submitted, FramesType, InFlight
    <3>4. \A i, j \in DOMAIN queue' : queue'[i] = queue'[j] => i = j
      <4>1. \A i, j \in 1 .. Len(queue) : queue[i] = queue[j] => i = j
        BY <1>1, <3>3 DEF OrderInv
      <4>2. currentFrame \notin InFlight
        BY <1>1 DEF OrderInv
      <4> QED BY <3>3, <4>1, <4>2
    <3>5. OrderInv'
      BY <1>1, <3>1, <3>2, <3>4 DEF OrderInv
    <3>6. FramesType'
      BY <1>1, <1>2, <3>1, NextFrameIs DEF FramesType
    <3> QED BY <3>2, <3>5, <3>6 DEF FramesInv
  <2> QED BY <2>1, <2>2
<1>4. DOMAIN deferred' = DOMAIN deferred /\ \A h \in DOMAIN deferred :
        deferred'[h] = IF deferred[h] > 0 THEN deferred[h] - 1 ELSE 0
  BY DEF EndFrame
<1>5. MeshesInv' /\ RegistryType'
  <2>1. MeshesType'
    BY <1>1, <1>4 DEF MeshesInv, MeshesType
  <2> QED BY <1>1, <2>1 DEF IInv, MeshesInv, UploadsInv, In, RegistryType, Unrelated, registryVars
<1>6. ASSUME NEW s \in InFlight' PROVE Kept(s, Distance(s))'
  <2>1. PICK n \in Nat : Kept(s, n) /\ n > 0 /\ Distance(s)' = n - 1
    <3>1. s \in FrameSlots
      <4>1. InFlight \subseteq FrameSlots /\ currentFrame \in FrameSlots
        BY <1>1 DEF FramesType, InFlight
      <4> QED BY <1>3, <1>6, <4>1
    <3>2. CASE s = currentFrame
      BY <1>1, <3>1, <3>2, DistanceShrinks, FramesAssumption DEF AgesInv, FramesType
    <3>3. CASE s # currentFrame
      <4>1. Kept(s, Distance(s))
        BY <1>1, <1>3, <3>3 DEF AgesInv
      <4>2. Distance(s) \in Nat /\ Distance(s) > 0
        BY <1>1, <3>1, <3>3, DistanceType, FramesAssumption DEF FramesType
      <4> QED BY <1>1, <3>1, <3>3, <4>1, <4>2, DistanceShrinks DEF FramesType
    <3> QED BY <3>2, <3>3
  <2>2. ASSUME NEW h \in drawn'[s]
        PROVE  h \in In("resident")' \/ (h \in DOMAIN deferred' /\ deferred'[h] > n - 1)
    <3>1. CASE h \in In("resident")
      BY <1>1, <3>1 DEF In
    <3>2. CASE h \in DOMAIN deferred /\ deferred[h] > n
      <4>1. deferred[h] \in Nat
        BY <1>1, <3>2 DEF MeshesInv, MeshesType
      <4> QED BY <1>4, <2>1, <3>2, <4>1
    <3> QED BY <1>1, <2>1, <2>2, <3>1, <3>2 DEF Kept
  <2> QED BY <2>1, <2>2 DEF Kept
<1>7. AgesInv'
  BY <1>1, <1>6 DEF AgesInv
<1> QED BY <1>3, <1>5, <1>7 DEF IInv

-----------------------------------------------------------------------------
(***************************************************************************)
(* beginFrame after the fence of its slot.                                 *)
(***************************************************************************)

LEMMA UploadedEffect ==
  ASSUME MeshesInv, NEW failed
  PROVE  /\ DOMAIN Uploaded(failed) = DOMAIN gpuMeshes
         /\ \A h \in DOMAIN gpuMeshes : IsMesh(Uploaded(failed)[h])
         /\ \A h \in DOMAIN gpuMeshes \ Batch : Uploaded(failed)[h] = gpuMeshes[h]
<1>1. \A h \in DOMAIN gpuMeshes : IsMesh(gpuMeshes[h])
  BY DEF MeshesInv, MeshesType
<1>2. \A mesh, state : IsMesh(mesh) => IsMesh([mesh EXCEPT !.state = state])
  <2> SUFFICES ASSUME NEW mesh, NEW state, IsMesh(mesh)
               PROVE  IsMesh([mesh EXCEPT !.state = state])
    OBVIOUS
  <2>1. [mesh EXCEPT !.state = state]
          = [state |-> state, dynamic |-> mesh.dynamic, poses |-> mesh.poses]
    BY DEF IsMesh
  <2> QED BY <2>1 DEF IsMesh
<1> QED BY <1>1, <1>2 DEF Uploaded

LEMMA WrittenEffect ==
  ASSUME NEW meshes, NEW outcome, \A h \in DOMAIN meshes : IsMesh(meshes[h])
  PROVE  /\ DOMAIN Written(meshes, outcome) = DOMAIN meshes
         /\ \A h \in DOMAIN meshes : /\ IsMesh(Written(meshes, outcome)[h])
                                     /\ Written(meshes, outcome)[h].state = meshes[h].state
<1>1. \A mesh, poses : IsMesh(mesh) =>
         /\ IsMesh([mesh EXCEPT !.poses = poses])
         /\ [mesh EXCEPT !.poses = poses].state = mesh.state
  <2> SUFFICES ASSUME NEW mesh, NEW poses, IsMesh(mesh)
               PROVE  /\ IsMesh([mesh EXCEPT !.poses = poses])
                      /\ [mesh EXCEPT !.poses = poses].state = mesh.state
    OBVIOUS
  <2>1. [mesh EXCEPT !.poses = poses]
          = [state |-> mesh.state, dynamic |-> mesh.dynamic, poses |-> poses]
    BY DEF IsMesh
  <2> QED BY <2>1 DEF IsMesh
<1>2. ASSUME NEW h \in DOMAIN meshes
      PROVE  \/ Written(meshes, outcome)[h] = meshes[h]
             \/ \E poses : Written(meshes, outcome)[h] = [meshes[h] EXCEPT !.poses = poses]
  BY DEF Written
<1>3. DOMAIN Written(meshes, outcome) = DOMAIN meshes
  BY DEF Written
<1>4. ASSUME NEW h \in DOMAIN meshes
      PROVE  /\ IsMesh(Written(meshes, outcome)[h])
             /\ Written(meshes, outcome)[h].state = meshes[h].state
  <2>1. CASE Written(meshes, outcome)[h] = meshes[h]
    BY <2>1
  <2>2. ASSUME NEW poses, Written(meshes, outcome)[h] = [meshes[h] EXCEPT !.poses = poses]
        PROVE  /\ IsMesh(Written(meshes, outcome)[h])
               /\ Written(meshes, outcome)[h].state = meshes[h].state
    <3>1. IsMesh(meshes[h])
      OBVIOUS
    <3> QED BY <1>1, <2>2, <3>1
  <2> QED BY <1>2, <2>1, <2>2
<1> QED BY <1>3, <1>4

(* The requests left in the queue are those behind the batch, or all.      *)
LEMMA UploadsBehindTheBatch ==
  ASSUME MeshesInv, worldMeshPipeline
  PROVE  /\ UploadsLeft \in Seq(Handles)
         /\ \A k \in DOMAIN UploadsLeft :
              /\ UploadsPerFrame + k \in DOMAIN uploads
              /\ UploadsLeft[k] = uploads[UploadsPerFrame + k]
<1> DEFINE U == UploadsPerFrame
<1>1. U \in Nat \ {0} /\ uploads \in Seq(Handles) /\ Len(uploads) \in Nat
      /\ DOMAIN uploads = 1 .. Len(uploads)
  BY FramesAssumption DEF MeshesInv, MeshesType
<1>2. UploadsLeft = SubSeq(uploads, U + 1, Len(uploads))
  BY DEF UploadsLeft
<1>3. CASE U <= Len(uploads)
  <2>1. U + 1 \in 1 .. Len(uploads) + 1 /\ Len(uploads) \in U + 1 - 1 .. Len(uploads)
    BY <1>1, <1>3
  <2>2. /\ UploadsLeft \in Seq(Handles)
        /\ DOMAIN UploadsLeft = 1 .. Len(uploads) - U
        /\ \A k \in 1 .. Len(uploads) - U : UploadsLeft[k] = uploads[U + k]
    BY <1>1, <1>2, <1>3, <2>1
  <2> QED BY <1>1, <2>2
<1>4. CASE U > Len(uploads)
  <2>1. UploadsLeft = <<>>
    BY <1>1, <1>2, <1>4
  <2> QED BY <2>1
<1> QED BY <1>1, <1>3, <1>4

LEMMA UploadsLeftEffect ==
  ASSUME MeshesInv
  PROVE  /\ UploadsLeft \in Seq(Handles)
         /\ \A k \in DOMAIN UploadsLeft : UploadsLeft[k] \in In("pending") \ Batch
         /\ \A k, l \in DOMAIN UploadsLeft : UploadsLeft[k] = UploadsLeft[l] => k = l
<1>1. /\ \A i, j \in DOMAIN uploads : uploads[i] = uploads[j] => i = j
      /\ \A i \in DOMAIN uploads : uploads[i] \in In("pending")
      /\ DOMAIN uploads \subseteq Nat /\ uploads \in Seq(Handles)
  BY DEF MeshesInv, MeshesType, UploadsInv
<1>2. CASE worldMeshPipeline
  <2>1. /\ UploadsLeft \in Seq(Handles)
        /\ \A k \in DOMAIN UploadsLeft : k \in Nat \ {0} /\ UploadsPerFrame + k \in DOMAIN uploads
        /\ \A k \in DOMAIN UploadsLeft : UploadsLeft[k] = uploads[UploadsPerFrame + k]
    BY <1>2, UploadsBehindTheBatch
  <2>2. ASSUME NEW k \in DOMAIN UploadsLeft PROVE UploadsLeft[k] \notin Batch
    <3>1. ASSUME NEW i \in DOMAIN uploads, i <= UploadsPerFrame,
                 uploads[i] = uploads[UploadsPerFrame + k]
          PROVE  FALSE
      BY <1>1, <2>1, <3>1, FramesAssumption
    <3> QED BY <2>1, <3>1 DEF Batch
  <2>3. \A k, l \in DOMAIN UploadsLeft : UploadsLeft[k] = UploadsLeft[l] => k = l
    BY <1>1, <2>1, FramesAssumption
  <2> QED BY <1>1, <2>1, <2>2, <2>3
<1>3. CASE ~worldMeshPipeline
  <2>1. UploadsLeft = uploads /\ Batch = {}
    BY <1>3 DEF UploadsLeft, Batch
  <2> QED BY <1>1, <2>1
<1> QED BY <1>2, <1>3

(* What beginFrame makes of the meshes before it draws.                    *)
Progressed ==
  /\ In("resident") \subseteq In("resident")'
  /\ \A h \in DOMAIN deferred : deferred[h] > 0 =>
       h \in DOMAIN deferred' /\ deferred'[h] = deferred[h]

LEMMA PrepareEffect ==
  ASSUME MeshesInv, NEW failed, NEW outcome, Prepare(failed, outcome)
  PROVE  Progressed /\ MeshesInv' /\ In("resident")' \subseteq Handles
<1>1. PICK meshes : meshes = Uploaded(failed)
  OBVIOUS
<1>2. /\ DOMAIN meshes = DOMAIN gpuMeshes
      /\ \A h \in DOMAIN gpuMeshes : IsMesh(meshes[h])
      /\ \A h \in DOMAIN gpuMeshes \ Batch : meshes[h] = gpuMeshes[h]
  BY <1>1, UploadedEffect
<1>3. gpuMeshes' = Written(meshes, outcome) /\ uploads' = UploadsLeft /\ deferred' = StillDeferred
  BY <1>1 DEF Prepare
<1>4. /\ DOMAIN gpuMeshes' = DOMAIN gpuMeshes
      /\ \A h \in DOMAIN gpuMeshes : IsMesh(gpuMeshes'[h]) /\ gpuMeshes'[h].state = meshes[h].state
  BY <1>2, <1>3, WrittenEffect
<1>5. \A h \in DOMAIN gpuMeshes \ Batch : gpuMeshes'[h].state = gpuMeshes[h].state
  BY <1>2, <1>4
<1>6. Batch \subseteq In("pending") /\ Batch \cap In("resident") = {}
  BY DEF Batch, MeshesInv, UploadsInv, In
<1>7. Progressed
  <2>1. In("resident") \subseteq In("resident")'
    BY <1>4, <1>5, <1>6 DEF In
  <2> QED BY <1>3, <2>1 DEF Progressed, StillDeferred
<1>8. MeshesType'
  <2>1. \A h \in DOMAIN deferred' : deferred'[h] \in Nat
    BY <1>3 DEF StillDeferred, MeshesInv, MeshesType
  <2> QED BY <1>3, <1>4, <2>1, UploadsLeftEffect DEF MeshesInv, MeshesType
<1>9. UploadsInv'
  <2>1. In("pending") \ Batch \subseteq In("pending")'
    BY <1>4, <1>5 DEF In
  <2> QED BY <1>3, <2>1, UploadsLeftEffect DEF UploadsInv
<1> QED BY <1>4, <1>7, <1>8, <1>9 DEF In, MeshesInv, MeshesType

LEMMA ProgressedKeeps ==
  ASSUME Progressed, MeshesInv, NEW s, NEW n \in Nat, Kept(s, n), drawn'[s] = drawn[s]
  PROVE  \A h \in drawn'[s] : h \in In("resident")' \/ (h \in DOMAIN deferred' /\ deferred'[h] > n)
<1> TAKE h \in drawn'[s]
<1>1. CASE h \in In("resident")
  BY <1>1 DEF Progressed
<1>2. CASE h \in DOMAIN deferred /\ deferred[h] > n
  <2>1. deferred[h] \in Nat /\ deferred[h] > 0
    BY <1>2 DEF MeshesInv, MeshesType
  <2> QED BY <1>2, <2>1 DEF Progressed
<1> QED BY <1>1, <1>2 DEF Kept

(* The frame begun draws what is resident, and the slots submitted before  *)
(* it keep what they draw; its own slot is not among them.                 *)
LEMMA FenceSignaledKeepsInv ==
  ASSUME IInv, NEW failed, NEW outcome, NEW result \in Answers,
         FenceSignaled(failed, outcome, result), Unrelated
  PROVE  IInv'
<1>1. /\ FramesType /\ OrderInv /\ MeshesInv /\ AgesInv
      /\ phase = "waiting" /\ currentFrame \in signaled /\ currentFrame' = currentFrame
  BY DEF IInv, FramesInv, FenceSignaled
<1>2. Progressed /\ MeshesInv' /\ In("resident")' \subseteq Handles
  BY <1>1, PrepareEffect DEF FenceSignaled
<1>3. RegistryType'
  BY DEF IInv, RegistryType, Unrelated, registryVars
<1>4. currentFrame \notin InFlight
  BY <1>1 DEF OrderInv
<1>5. CASE result = "success"
  <2>1. /\ phase' = "active" /\ signaled' = signaled \ {currentFrame} /\ queue' = queue
        /\ drawn' = [drawn EXCEPT ![currentFrame] = In("resident")']
    BY <1>5 DEF FenceSignaled, Acquire, In
  <2>2. InFlight' = InFlight
    BY <2>1 DEF InFlight
  <2>3. FramesInv'
    <3>1. FramesType'
      BY <1>1, <1>2, <2>1 DEF FramesType
    <3>2. OrderInv'
      BY <1>1, <1>4, <2>1, <2>2 DEF OrderInv
    <3> QED BY <3>1, <3>2 DEF FramesInv
  <2>4. AgesInv'
    <3>1. ASSUME NEW s \in InFlight' PROVE Kept(s, Distance(s))'
      <4>1. s \in FrameSlots /\ s # currentFrame /\ Kept(s, Distance(s))
        <5>1. InFlight \subseteq FrameSlots
          BY <1>1 DEF FramesType, InFlight
        <5> QED BY <1>1, <1>4, <2>2, <3>1, <5>1 DEF AgesInv
      <4>2. drawn'[s] = drawn[s]
        BY <1>1, <2>1, <4>1 DEF FramesType
      <4>3. Distance(s) \in Nat /\ Distance(s)' = Distance(s)
        BY <1>1, <4>1, DistanceType, FramesAssumption DEF FramesType, Distance
      <4> QED BY <1>1, <1>2, <4>1, <4>2, <4>3, ProgressedKeeps DEF Kept
    <3>2. Kept(currentFrame, FramesInFlight)'
      <4>1. drawn'[currentFrame'] = In("resident")'
        BY <1>1, <2>1 DEF FramesType
      <4> QED BY <4>1 DEF Kept
    <3> QED BY <3>1, <3>2 DEF AgesInv
  <2> QED BY <1>2, <1>3, <2>3, <2>4 DEF IInv
<1>6. CASE result # "success"
  <2>1. /\ phase' = "outside" /\ drawn' = drawn
        /\ \/ RecreateSwapchain(queue)
           \/ queue' = queue /\ signaled' = signaled
    BY <1>6 DEF FenceSignaled, Acquire, Answers
  <2>2. FramesInv' /\ InFlight' \subseteq InFlight
    <3>1. CASE RecreateSwapchain(queue)
      <4>1. queue' = <<>> /\ InFlight' = {} /\ signaled' \subseteq FrameSlots
        BY <1>1, <3>1, RecreateEffect DEF FramesType
      <4> QED BY <1>1, <2>1, <4>1 DEF FramesInv, FramesType, OrderInv
    <3>2. CASE queue' = queue /\ signaled' = signaled
      BY <1>1, <2>1, <3>2 DEF FramesInv, FramesType, OrderInv, InFlight
    <3> QED BY <2>1, <3>1, <3>2
  <2>3. ASSUME NEW s \in InFlight' PROVE Kept(s, Distance(s))'
    <3>1. s \in FrameSlots /\ Kept(s, Distance(s))
      <4>1. InFlight \subseteq FrameSlots
        BY <1>1 DEF FramesType, InFlight
      <4> QED BY <1>1, <2>2, <2>3, <4>1 DEF AgesInv
    <3>2. Distance(s) \in Nat /\ Distance(s)' = Distance(s)
      BY <1>1, <3>1, DistanceType, FramesAssumption DEF FramesType, Distance
    <3> QED BY <1>1, <1>2, <2>1, <3>1, <3>2, ProgressedKeeps DEF Kept
  <2>4. AgesInv'
    BY <2>1, <2>3 DEF AgesInv
  <2> QED BY <1>2, <1>3, <2>2, <2>4 DEF IInv
<1> QED BY <1>5, <1>6

-----------------------------------------------------------------------------
(***************************************************************************)
(* The specification.                                                      *)
(***************************************************************************)

LEMMA StutterKeepsInv ==
  ASSUME IInv, UNCHANGED gameVars
  PROVE  IInv'
<1>1. UNCHANGED <<frameVars, meshVars, registryVars>>
  BY DEF gameVars, vars
<1>2. FramesInv' /\ InFlight' = InFlight
  <2>1. UNCHANGED <<phase, currentFrame, signaled, queue, drawn>>
    BY <1>1 DEF frameVars
  <2> QED BY <2>1 DEF IInv, FramesInv, FramesType, OrderInv, InFlight
<1> QED BY <1>1, <1>2, NothingNewKeepsInv DEF frameVars, meshVars, registryVars

LEMMA StepKeepsInv ==
  ASSUME IInv, [GameNext]_gameVars
  PROVE  IInv'
<1>1. ASSUME NEW a \in Assets, Register(a) \/ RegisterAgain(a) PROVE IInv'
  BY <1>1, RegisterKeepsInv, RegisterAgainKeepsInv
<1>2. ASSUME NEW h \in issued, Release(h) PROVE IInv'
  BY <1>2, ReleaseKeepsInv
<1>3. ASSUME NEW h \in issued, NEW pose \in Poses \ {Rest}, Update(h, pose) PROVE IInv'
  BY <1>3, UpdateKeepsInv
<1>4. ASSUME Frame, Unrelated PROVE IInv'
  <2>1. CASE BeginFrame
    BY <1>4, <2>1, BeginFrameKeepsInv
  <2>2. ASSUME NEW failed, NEW outcome, NEW result \in Answers,
               FenceSignaled(failed, outcome, result)
        PROVE  IInv'
    BY <1>4, <2>2, FenceSignaledKeepsInv
  <2>3. ASSUME NEW present, EndFrame(present) PROVE IInv'
    BY <1>4, <2>3, EndFrameKeepsInv
  <2> QED BY <1>4, <2>1, <2>2, <2>3 DEF Frame
<1>5. ASSUME SubmitFails, UNCHANGED registryVars PROVE IInv'
  BY <1>5, SubmitFailsKeepsInv
<1>6. ASSUME Shutdown \/ Finish \/ Resize, Unrelated PROVE IInv'
  BY <1>6, ShutdownKeepsInv, FinishKeepsInv, ResizeKeepsInv
<1>7. CASE UNCHANGED gameVars
  BY <1>7, StutterKeepsInv
<1> QED BY <1>1, <1>2, <1>3, <1>4, <1>5, <1>6, <1>7 DEF GameNext

LEMMA InvImpliesSafety == IInv => NothingDrawnIsDestroyed
<1> SUFFICES ASSUME IInv, NEW s \in InFlight \cup (IF phase = "active" THEN {currentFrame} ELSE {})
             PROVE  drawn[s] \subseteq In("resident") \cup DOMAIN deferred
  BY DEF NothingDrawnIsDestroyed
<1>1. CASE s \in InFlight
  BY <1>1 DEF IInv, AgesInv, Kept
<1>2. CASE phase = "active" /\ s = currentFrame
  BY <1>2 DEF IInv, AgesInv, Kept
<1> QED BY <1>1, <1>2

(* The inductive invariant holds in every reachable state.                 *)
THEOREM InvariantHolds == GameSpec => []IInv
<1>1. FullInit => IInv
  BY InitInv
<1>2. IInv /\ [GameNext]_gameVars => IInv'
  BY StepKeepsInv
<1> QED BY <1>1, <1>2, PTL DEF GameSpec

(* What a command buffer that is recorded, submitted or running draws is   *)
(* resident or waits to be destroyed, whatever meshes are released,        *)
(* registered again or re-posed, whatever uploads, acquisitions and        *)
(* submissions fail, and however the window changes (VulkanBackend.cpp,    *)
(* retireAfterFrame against kMaxFramesInFlight).                           *)
THEOREM DrawnIsNeverDestroyed == GameSpec => []NothingDrawnIsDestroyed
BY InvariantHolds, InvImpliesSafety, PTL

-----------------------------------------------------------------------------
(***************************************************************************)
(* What the GPU reads is not written.                                      *)
(***************************************************************************)

(* Meshes that are resident and stay known keep the poses of every slot    *)
(* but those a frame whose fence has signaled may write.                   *)
OthersKept(written) ==
  \A h \in In("resident") \cap DOMAIN gpuMeshes' : \A s \in FrameSlots \ written :
    gpuMeshes'[h].poses[s] = gpuMeshes[h].poses[s]

LEMMA CallsKeepPoses ==
  ASSUME NEW h, NEW dynamic, NEW pose,
         \/ RegisterMesh(h, dynamic) \/ ReleaseMesh(h) \/ QueuePose(h, pose)
  PROVE  OthersKept({})
<1>1. CASE RegisterMesh(h, dynamic)
  BY <1>1 DEF OthersKept, RegisterMesh, In, With, meshVars
<1>2. CASE ReleaseMesh(h)
  BY <1>2 DEF OthersKept, ReleaseMesh, Without
<1>3. CASE QueuePose(h, pose)
  BY <1>3 DEF OthersKept, QueuePose, meshVars
<1> QED BY <1>1, <1>2, <1>3

LEMMA PrepareKeepsPoses ==
  ASSUME MeshesInv, NEW failed, NEW outcome, Prepare(failed, outcome)
  PROVE  OthersKept(SafeSlots)
<1>1. PICK meshes : meshes = Uploaded(failed)
  OBVIOUS
<1>2. gpuMeshes' = Written(meshes, outcome)
  BY <1>1 DEF Prepare
<1>3. SUFFICES ASSUME NEW h \in In("resident"), NEW s \in FrameSlots \ SafeSlots
               PROVE  gpuMeshes'[h].poses[s] = gpuMeshes[h].poses[s]
  BY DEF OthersKept
<1>4. h \in DOMAIN meshes /\ meshes[h] = gpuMeshes[h] /\ IsMesh(meshes[h])
  <2>1. h \in DOMAIN gpuMeshes \ Batch
    BY DEF In, Batch, MeshesInv, UploadsInv
  <2> QED BY <1>1, <2>1, UploadedEffect
<1>5. CASE gpuMeshes'[h] = meshes[h]
  BY <1>4, <1>5
<1>6. ASSUME NEW poses, poses[s] = meshes[h].poses[s],
             gpuMeshes'[h] = [meshes[h] EXCEPT !.poses = poses]
      PROVE  gpuMeshes'[h].poses[s] = gpuMeshes[h].poses[s]
  <2>1. gpuMeshes'[h] = [state |-> meshes[h].state, dynamic |-> meshes[h].dynamic, poses |-> poses]
    BY <1>4, <1>6 DEF IsMesh
  <2> QED BY <1>4, <1>6, <2>1
<1>7. \/ gpuMeshes'[h] = meshes[h]
      \/ \E poses : /\ poses[s] = meshes[h].poses[s]
                    /\ gpuMeshes'[h] = [meshes[h] EXCEPT !.poses = poses]
  <2> DEFINE poses == [t \in FrameSlots |->
                         IF t \notin SafeSlots THEN meshes[h].poses[t]
                         ELSE IF outcome[h] = "torn" THEN Torn ELSE updates[h].pose]
  <2>1. poses[s] = meshes[h].poses[s]
    BY <1>3
  <2>2. \/ gpuMeshes'[h] = meshes[h]
        \/ gpuMeshes'[h] = [meshes[h] EXCEPT !.poses = poses]
    BY <1>2, <1>4 DEF Written
  <2> QED BY <2>1, <2>2
<1> QED BY <1>5, <1>6, <1>7

(* A step that may write does so in the slot whose fence has signaled.     *)
LEMMA StepKeepsOthers ==
  ASSUME IInv, GameNext
  PROVE  \E written \in SUBSET FrameSlots :
           /\ OthersKept(written)
           /\ \A s \in written : s \notin InFlight /\ ~(phase = "active" /\ s = currentFrame)
<1> DEFINE Outcome == \E written \in SUBSET FrameSlots :
           /\ OthersKept(written)
           /\ \A s \in written : s \notin InFlight /\ ~(phase = "active" /\ s = currentFrame)
<1>1. OthersKept({}) => Outcome
  OBVIOUS
<1>2. gpuMeshes' = gpuMeshes => OthersKept({})
  BY DEF OthersKept
<1>3. ASSUME NEW a \in Assets, Register(a) \/ RegisterAgain(a) PROVE OthersKept({})
  <2>1. PICK h : IF ready THEN RegisterMesh(h, a \in DynamicAssets) ELSE UNCHANGED meshVars
    BY <1>3 DEF Register, RegisterAgain
  <2> QED BY <1>2, <2>1, CallsKeepPoses DEF meshVars
<1>4. ASSUME NEW h, Release(h) PROVE OthersKept({})
  BY <1>2, <1>4, CallsKeepPoses DEF Release, meshVars
<1>5. ASSUME NEW h, NEW pose, Update(h, pose) PROVE OthersKept({})
  BY <1>2, <1>5, CallsKeepPoses DEF Update, meshVars
<1>6. ASSUME NEW failed, NEW outcome, NEW result, FenceSignaled(failed, outcome, result)
      PROVE  Outcome
  <2>1. OthersKept(SafeSlots)
    BY <1>6, PrepareKeepsPoses DEF IInv, FenceSignaled
  <2>2. currentFrame \in FrameSlots /\ currentFrame \notin InFlight /\ phase # "active"
    BY <1>6 DEF IInv, FramesInv, FramesType, OrderInv, FenceSignaled
  <2> QED BY <2>1, <2>2 DEF SafeSlots
<1>7. ASSUME Frame PROVE Outcome
  <2>1. CASE BeginFrame
    BY <1>1, <1>2, <2>1 DEF BeginFrame, meshVars
  <2>2. CASE \E present \in {"good", "stale"} : EndFrame(present)
    BY <1>1, <1>2, <2>2 DEF EndFrame
  <2> QED BY <1>6, <1>7, <2>1, <2>2 DEF Frame
<1>8. CASE SubmitFails \/ Finish \/ Resize
  BY <1>1, <1>2, <1>8 DEF SubmitFails, Finish, Resize, meshVars
<1>9. CASE Shutdown
  <2>1. DOMAIN gpuMeshes' = {}
    BY <1>9 DEF Shutdown, Nowhere
  <2> QED BY <1>1, <2>1 DEF OthersKept
<1> QED BY <1>1, <1>3, <1>4, <1>5, <1>7, <1>8, <1>9 DEF GameNext

(* The vertex buffer of a slot is not written while a command buffer that  *)
(* reads it is recorded, submitted or running (VulkanBackend.cpp,          *)
(* processDynamicMeshUpdates after vkWaitForFences).                       *)
THEOREM BusySlotsStayUntouched == GameSpec => BusySlotsAreNotWritten
<1>1. ASSUME IInv, GameNext
      PROVE  \A h \in In("resident") \cap DOMAIN gpuMeshes' : \A s \in FrameSlots :
               gpuMeshes'[h].poses[s] # gpuMeshes[h].poses[s] =>
                 s \notin InFlight /\ ~(phase = "active" /\ s = currentFrame)
  BY <1>1, StepKeepsOthers DEF OthersKept
<1>2. IInv /\ [GameNext]_gameVars =>
        [\A h \in In("resident") \cap DOMAIN gpuMeshes' : \A s \in FrameSlots :
           gpuMeshes'[h].poses[s] # gpuMeshes[h].poses[s] =>
             s \notin InFlight /\ ~(phase = "active" /\ s = currentFrame)]_gameVars
  BY <1>1
<1> QED BY <1>2, InvariantHolds, PTL DEF GameSpec, BusySlotsAreNotWritten

-----------------------------------------------------------------------------
(***************************************************************************)
(* No slot forgets a pose.                                                 *)
(***************************************************************************)

IsUpdate(update) == update = [pose |-> update.pose, dirty |-> update.dirty]

(* An update has the newest pose and belongs to a mesh that is waiting for *)
(* its upload, in which case no slot has it yet, or resident.              *)
UpdatesInv ==
  /\ \A h \in DOMAIN gpuMeshes : gpuMeshes[h].state \in {"pending", "resident", "failed"}
  /\ DOMAIN wanted = DOMAIN gpuMeshes
  /\ DOMAIN updates \subseteq DOMAIN gpuMeshes \ In("failed")
  /\ \A h \in DOMAIN updates : IsUpdate(updates[h]) /\ updates[h].pose = wanted[h]
  /\ \A h \in DOMAIN updates \cap In("pending") : updates[h].dirty = FrameSlots

Fresh(h, s) == gpuMeshes[h].poses[s] = wanted[h] \/ Dirty(h, s)
FreshInv == \A h \in DOMAIN gpuMeshes \ In("failed") : \A s \in FrameSlots : Fresh(h, s)

PosesInv == UpdatesInv /\ FreshInv

LEMMA RegisterMeshKeepsPoses ==
  ASSUME PosesInv, NEW h, NEW dynamic, RegisterMesh(h, dynamic)
  PROVE  PosesInv'
<1>1. CASE h \in DOMAIN gpuMeshes \ In("failed")
  BY <1>1 DEF RegisterMesh, meshVars, PosesInv, UpdatesInv, FreshInv, Fresh, Dirty, In
<1>2. CASE h \notin DOMAIN gpuMeshes \ In("failed")
  <2>1. /\ gpuMeshes' = With(gpuMeshes, h, NewMesh(dynamic))
        /\ wanted' = With(wanted, h, Rest) /\ updates' = updates
    BY <1>2 DEF RegisterMesh
  <2>2. /\ DOMAIN gpuMeshes' = DOMAIN gpuMeshes \cup {h}
        /\ \A x \in DOMAIN gpuMeshes \ {h} : gpuMeshes'[x] = gpuMeshes[x]
        /\ gpuMeshes'[h] = NewMesh(dynamic)
    BY <2>1 DEF With
  <2>3. /\ DOMAIN wanted' = DOMAIN wanted \cup {h}
        /\ \A x \in DOMAIN wanted \ {h} : wanted'[x] = wanted[x]
        /\ wanted'[h] = Rest
    BY <2>1 DEF With
  <2>4. /\ NewMesh(dynamic).state = "pending"
        /\ \A s \in FrameSlots : NewMesh(dynamic).poses[s] = Rest
    BY DEF NewMesh
  <2>5. h \notin DOMAIN updates
    BY <1>2 DEF PosesInv, UpdatesInv
  <2>6. /\ In("failed")' = In("failed") \ {h}
        /\ In("pending")' = In("pending") \cup {h}
    BY <2>2, <2>4 DEF In
  <2>7. UpdatesInv'
    BY <2>1, <2>2, <2>3, <2>4, <2>5, <2>6 DEF PosesInv, UpdatesInv
  <2>8. FreshInv'
    BY <2>1, <2>2, <2>3, <2>4, <2>6 DEF PosesInv, UpdatesInv, FreshInv, Fresh, Dirty
  <2> QED BY <2>7, <2>8 DEF PosesInv
<1> QED BY <1>1, <1>2

LEMMA ReleaseMeshKeepsPoses ==
  ASSUME PosesInv, NEW h, ReleaseMesh(h)
  PROVE  PosesInv'
<1>1. /\ updates' = Without(updates, h) /\ gpuMeshes' = Without(gpuMeshes, h)
      /\ wanted' = Without(wanted, h)
  BY DEF ReleaseMesh
<1>2. /\ DOMAIN gpuMeshes' = DOMAIN gpuMeshes \ {h} /\ DOMAIN updates' = DOMAIN updates \ {h}
      /\ DOMAIN wanted' = DOMAIN wanted \ {h}
      /\ \A x \in DOMAIN gpuMeshes' : gpuMeshes'[x] = gpuMeshes[x]
      /\ \A x \in DOMAIN updates' : updates'[x] = updates[x]
      /\ \A x \in DOMAIN wanted' : wanted'[x] = wanted[x]
  BY <1>1 DEF Without
<1>3. In("failed")' = In("failed") \ {h} /\ In("pending")' = In("pending") \ {h}
  BY <1>2 DEF In
<1>4. UpdatesInv'
  BY <1>2, <1>3 DEF PosesInv, UpdatesInv
<1>5. FreshInv'
  BY <1>2, <1>3 DEF PosesInv, UpdatesInv, FreshInv, Fresh, Dirty
<1> QED BY <1>4, <1>5 DEF PosesInv

LEMMA QueuePoseKeepsPoses ==
  ASSUME PosesInv, NEW h, NEW pose, QueuePose(h, pose)
  PROVE  PosesInv'
<1>1. CASE ~(h \in DOMAIN gpuMeshes \ In("failed") /\ gpuMeshes[h].dynamic)
  BY <1>1 DEF QueuePose, meshVars, PosesInv, UpdatesInv, FreshInv, Fresh, Dirty, In
<1>2. CASE h \in DOMAIN gpuMeshes \ In("failed") /\ gpuMeshes[h].dynamic
  <2>1. /\ updates' = With(updates, h, Replaced(h, pose))
        /\ wanted' = [wanted EXCEPT ![h] = pose] /\ gpuMeshes' = gpuMeshes
    BY <1>2 DEF QueuePose
  <2>2. /\ DOMAIN updates' = DOMAIN updates \cup {h}
        /\ \A x \in DOMAIN updates \ {h} : updates'[x] = updates[x]
        /\ updates'[h] = [pose |-> pose, dirty |-> FrameSlots]
    BY <2>1 DEF With, Replaced
  <2>3. DOMAIN wanted' = DOMAIN wanted /\ wanted'[h] = pose
        /\ \A x \in DOMAIN wanted \ {h} : wanted'[x] = wanted[x]
    BY <1>2, <2>1 DEF PosesInv, UpdatesInv
  <2>4. In("failed")' = In("failed") /\ In("pending")' = In("pending")
    BY <2>1 DEF In
  <2>5. IsUpdate(updates'[h]) /\ updates'[h].pose = pose /\ updates'[h].dirty = FrameSlots
    BY <2>2 DEF IsUpdate
  <2>6. UpdatesInv'
    BY <1>2, <2>1, <2>2, <2>3, <2>4, <2>5 DEF PosesInv, UpdatesInv
  <2>7. FreshInv'
    BY <2>1, <2>2, <2>3, <2>4, <2>5 DEF PosesInv, UpdatesInv, FreshInv, Fresh, Dirty
  <2> QED BY <2>6, <2>7 DEF PosesInv
<1> QED BY <1>1, <1>2

(* What an upload makes of the mesh, and a write of its slot and update.   *)
LEMMA UploadedState ==
  ASSUME MeshesInv, PosesInv, NEW failed, NEW h \in DOMAIN gpuMeshes
  PROVE  /\ Uploaded(failed)[h].poses = gpuMeshes[h].poses
         /\ Uploaded(failed)[h].state \in {"pending", "resident", "failed"}
         /\ Uploaded(failed)[h].state = "pending" => gpuMeshes[h].state = "pending"
         /\ Uploaded(failed)[h].state = "failed" => gpuMeshes[h].state \in {"pending", "failed"}
         /\ gpuMeshes[h].state = "failed" => Uploaded(failed)[h].state = "failed"
<1>1. IsMesh(gpuMeshes[h])
  BY DEF MeshesInv, MeshesType
<1>2. h \in Batch => gpuMeshes[h].state = "pending"
  BY DEF Batch, MeshesInv, UploadsInv, In
<1>3. CASE h \in Batch
  <2>1. Uploaded(failed)[h] =
          [state |-> IF h \in failed THEN "failed" ELSE "resident",
           dynamic |-> gpuMeshes[h].dynamic, poses |-> gpuMeshes[h].poses]
    <3>1. PICK new : new = IF h \in failed THEN "failed" ELSE "resident"
      OBVIOUS
    <3>2. Uploaded(failed)[h] = [gpuMeshes[h] EXCEPT !.state = new]
      BY <1>3, <3>1 DEF Uploaded
    <3>3. [gpuMeshes[h] EXCEPT !.state = new]
            = [state |-> new, dynamic |-> gpuMeshes[h].dynamic, poses |-> gpuMeshes[h].poses]
      BY <1>1 DEF IsMesh
    <3> QED BY <3>1, <3>2, <3>3
  <2> QED BY <1>2, <1>3, <2>1
<1>4. CASE h \notin Batch
  <2>1. Uploaded(failed)[h] = gpuMeshes[h]
    BY <1>4 DEF Uploaded
  <2> QED BY <2>1 DEF PosesInv, UpdatesInv
<1> QED BY <1>3, <1>4

LEMMA WrittenPoses ==
  ASSUME NEW meshes, NEW outcome, NEW h \in DOMAIN meshes, IsMesh(meshes[h])
  PROVE  /\ h \notin DOMAIN outcome \/ outcome[h] = "untouched" =>
              Written(meshes, outcome)[h] = meshes[h]
         /\ \A s \in FrameSlots : s # currentFrame =>
              Written(meshes, outcome)[h].poses[s] = meshes[h].poses[s]
         /\ h \in DOMAIN outcome /\ outcome[h] = "uploaded" /\ currentFrame \in FrameSlots =>
              Written(meshes, outcome)[h].poses[currentFrame] = updates[h].pose
<1>1. CASE h \notin DOMAIN outcome \/ outcome[h] = "untouched"
  BY <1>1 DEF Written
<1>2. CASE ~(h \notin DOMAIN outcome \/ outcome[h] = "untouched")
  <2>1. PICK poses : poses = [s \in FrameSlots |->
                       IF s \notin SafeSlots THEN meshes[h].poses[s]
                       ELSE IF outcome[h] = "torn" THEN Torn ELSE updates[h].pose]
    OBVIOUS
  <2>2. Written(meshes, outcome)[h] = [meshes[h] EXCEPT !.poses = poses]
    BY <1>2, <2>1 DEF Written
  <2>3. Written(meshes, outcome)[h].poses = poses
    <3>1. [meshes[h] EXCEPT !.poses = poses]
            = [state |-> meshes[h].state, dynamic |-> meshes[h].dynamic, poses |-> poses]
      BY DEF IsMesh
    <3> QED BY <2>2, <3>1
  <2>4. /\ \A s \in FrameSlots : s # currentFrame => poses[s] = meshes[h].poses[s]
        /\ outcome[h] = "uploaded" /\ currentFrame \in FrameSlots =>
             poses[currentFrame] = updates[h].pose
    BY <2>1 DEF SafeSlots
  <2> QED BY <1>2, <2>3, <2>4
<1> QED BY <1>1, <1>2

LEMMA CleanedUpdate ==
  ASSUME NEW outcome, NEW h, IsUpdate(updates[h])
  PROVE  /\ IsUpdate(Cleaned(outcome, h))
         /\ Cleaned(outcome, h).pose = updates[h].pose
         /\ Cleaned(outcome, h).dirty =
              IF h \in DOMAIN outcome /\ outcome[h] = "uploaded"
              THEN updates[h].dirty \ {currentFrame} ELSE updates[h].dirty
<1>1. CASE h \in DOMAIN outcome /\ outcome[h] = "uploaded"
  <2>1. Cleaned(outcome, h) = [pose |-> updates[h].pose, dirty |-> updates[h].dirty \ {currentFrame}]
    <3>1. PICK left : left = updates[h].dirty \ SafeSlots
      OBVIOUS
    <3>2. Cleaned(outcome, h) = [updates[h] EXCEPT !.dirty = left]
      BY <1>1, <3>1 DEF Cleaned
    <3>3. [updates[h] EXCEPT !.dirty = left] = [pose |-> updates[h].pose, dirty |-> left]
      BY DEF IsUpdate
    <3> QED BY <3>1, <3>2, <3>3 DEF SafeSlots
  <2> QED BY <1>1, <2>1 DEF IsUpdate
<1>2. CASE ~(h \in DOMAIN outcome /\ outcome[h] = "uploaded")
  BY <1>2 DEF Cleaned
<1> QED BY <1>1, <1>2

(* An upload that fails discards the update of its mesh, which was dirty   *)
(* in every slot; a write that succeeds cleans the slot it wrote.          *)
LEMMA PrepareKeepsPosesInv ==
  ASSUME MeshesInv, PosesInv, currentFrame \in FrameSlots,
         NEW failed, NEW outcome \in Outcomes(failed), Prepare(failed, outcome)
  PROVE  PosesInv'
<1>1. PICK meshes : meshes = Uploaded(failed)
  OBVIOUS
<1>2. /\ DOMAIN meshes = DOMAIN gpuMeshes
      /\ \A h \in DOMAIN gpuMeshes : IsMesh(meshes[h])
  BY <1>1, UploadedEffect
<1>3. \A h \in DOMAIN gpuMeshes :
         /\ meshes[h].poses = gpuMeshes[h].poses
         /\ meshes[h].state \in {"pending", "resident", "failed"}
         /\ meshes[h].state = "pending" => gpuMeshes[h].state = "pending"
         /\ meshes[h].state = "failed" => gpuMeshes[h].state \in {"pending", "failed"}
         /\ gpuMeshes[h].state = "failed" => meshes[h].state = "failed"
  BY <1>1, UploadedState
<1>4. /\ gpuMeshes' = Written(meshes, outcome) /\ updates' = UpdatesLeft(meshes, outcome)
      /\ wanted' = [h \in DOMAIN wanted |->
                      IF meshes[h].state = "failed" THEN Rest ELSE wanted[h]]
  BY <1>1 DEF Prepare
<1>5. /\ DOMAIN gpuMeshes' = DOMAIN gpuMeshes
      /\ \A h \in DOMAIN gpuMeshes : gpuMeshes'[h].state = meshes[h].state
  BY <1>2, <1>4, WrittenEffect
<1>6. DOMAIN outcome = Writable(meshes)
  BY <1>1 DEF Outcomes
<1>7. /\ DOMAIN wanted' = DOMAIN gpuMeshes
      /\ \A h \in DOMAIN gpuMeshes : meshes[h].state # "failed" => wanted'[h] = wanted[h]
  BY <1>4 DEF PosesInv, UpdatesInv
<1>8. /\ DOMAIN updates' \subseteq DOMAIN updates \ Discarded(meshes)
      /\ \A h \in DOMAIN updates' : updates'[h] = Cleaned(outcome, h)
      /\ \A h \in DOMAIN updates \ Discarded(meshes) :
           Cleaned(outcome, h).dirty # {} => h \in DOMAIN updates'
  BY <1>4 DEF UpdatesLeft
<1>9. \A h \in DOMAIN updates :
         /\ IsUpdate(Cleaned(outcome, h)) /\ Cleaned(outcome, h).pose = wanted[h]
         /\ Cleaned(outcome, h).dirty =
              IF h \in DOMAIN outcome /\ outcome[h] = "uploaded"
              THEN updates[h].dirty \ {currentFrame} ELSE updates[h].dirty
  BY CleanedUpdate DEF PosesInv, UpdatesInv
<1>10. ASSUME NEW h \in DOMAIN updates, meshes[h].state = "failed" PROVE h \in Discarded(meshes)
  <2>1. h \in DOMAIN gpuMeshes /\ gpuMeshes[h].state # "failed"
    BY <1>10 DEF PosesInv, UpdatesInv, In
  <2>2. h \in In("pending")
    BY <1>3, <1>10, <2>1 DEF In
  <2>3. updates[h].dirty = FrameSlots
    BY <1>10, <2>2 DEF PosesInv, UpdatesInv
  <2> QED BY <1>2, <1>10, <2>1, <2>3 DEF Discarded
<1>11. UpdatesInv'
  <2>1. \A h \in DOMAIN gpuMeshes' : gpuMeshes'[h].state \in {"pending", "resident", "failed"}
    BY <1>3, <1>5
  <2>2. DOMAIN updates' \subseteq DOMAIN gpuMeshes' \ In("failed")'
    BY <1>5, <1>8, <1>10 DEF PosesInv, UpdatesInv, In
  <2>3. \A h \in DOMAIN updates' : IsUpdate(updates'[h]) /\ updates'[h].pose = wanted'[h]
    BY <1>5, <1>7, <1>8, <1>9, <2>2 DEF In
  <2>4. ASSUME NEW h \in DOMAIN updates' \cap In("pending")' PROVE updates'[h].dirty = FrameSlots
    <3>1. h \in DOMAIN gpuMeshes /\ meshes[h].state = "pending" /\ h \in In("pending")
      BY <1>3, <1>5, <2>4 DEF In
    <3>2. h \in DOMAIN updates /\ h \notin DOMAIN outcome
      BY <1>6, <1>8, <2>4, <3>1 DEF Writable
    <3> QED BY <1>8, <1>9, <2>4, <3>1, <3>2 DEF PosesInv, UpdatesInv
  <2> QED BY <1>5, <1>7, <2>1, <2>2, <2>3, <2>4 DEF UpdatesInv
<1>12. ASSUME NEW h \in DOMAIN gpuMeshes' \ In("failed")', NEW s \in FrameSlots
       PROVE  Fresh(h, s)'
  <2>1. /\ h \in DOMAIN gpuMeshes /\ meshes[h].state # "failed" /\ wanted'[h] = wanted[h]
        /\ IsMesh(meshes[h]) /\ Fresh(h, s)
    BY <1>2, <1>3, <1>5, <1>7, <1>12 DEF In, PosesInv, FreshInv
  <2>2. h \notin Discarded(meshes)
    BY <1>2, <2>1 DEF Discarded
  <2>3. CASE h \in DOMAIN outcome /\ outcome[h] = "uploaded" /\ s = currentFrame
    <3>1. gpuMeshes'[h].poses[s] = updates[h].pose
      BY <1>2, <1>4, <2>1, <2>3, WrittenPoses
    <3>2. updates[h].pose = wanted[h]
      BY <1>6, <2>3 DEF Writable, PosesInv, UpdatesInv
    <3> QED BY <2>1, <3>1, <3>2 DEF Fresh
  <2>4. CASE Dirty(h, s) /\ ~(h \in DOMAIN outcome /\ outcome[h] = "uploaded" /\ s = currentFrame)
    <3>1. h \in DOMAIN updates /\ s \in Cleaned(outcome, h).dirty
      BY <1>9, <2>4 DEF Dirty
    <3>2. h \in DOMAIN updates' /\ updates'[h] = Cleaned(outcome, h)
      BY <1>8, <2>2, <3>1
    <3> QED BY <3>1, <3>2 DEF Fresh, Dirty
  <2>5. CASE ~Dirty(h, s)
    <3>1. meshes[h].poses[s] = wanted[h]
      BY <1>3, <2>1, <2>5 DEF Fresh
    <3>2. h \notin DOMAIN outcome \/ s # currentFrame
      BY <1>6, <2>5 DEF Writable, Dirty
    <3>3. gpuMeshes'[h].poses[s] = meshes[h].poses[s]
      BY <1>2, <1>4, <2>1, <3>2, WrittenPoses
    <3> QED BY <2>1, <3>1, <3>3 DEF Fresh
  <2> QED BY <2>3, <2>4, <2>5
<1> QED BY <1>11, <1>12 DEF PosesInv, FreshInv

LEMMA StepKeepsPoses ==
  ASSUME IInv, PosesInv, [GameNext]_gameVars
  PROVE  PosesInv'
<1>1. UNCHANGED <<gpuMeshes, updates, wanted>> => PosesInv'
  BY DEF PosesInv, UpdatesInv, FreshInv, Fresh, Dirty, In
<1>2. ASSUME NEW a \in Assets, Register(a) \/ RegisterAgain(a) PROVE PosesInv'
  <2>1. PICK h : IF ready THEN RegisterMesh(h, a \in DynamicAssets) ELSE UNCHANGED meshVars
    BY <1>2 DEF Register, RegisterAgain
  <2> QED BY <1>1, <2>1, RegisterMeshKeepsPoses DEF meshVars
<1>3. ASSUME NEW h, Release(h) PROVE PosesInv'
  BY <1>1, <1>3, ReleaseMeshKeepsPoses DEF Release, meshVars
<1>4. ASSUME NEW h, NEW pose, Update(h, pose) PROVE PosesInv'
  BY <1>1, <1>4, QueuePoseKeepsPoses DEF Update, meshVars
<1>5. ASSUME NEW failed, NEW outcome \in Outcomes(failed), NEW result,
             FenceSignaled(failed, outcome, result)
      PROVE  PosesInv'
  BY <1>5, PrepareKeepsPosesInv DEF IInv, FramesInv, FramesType, FenceSignaled
<1>6. ASSUME Frame PROVE PosesInv'
  <2>1. CASE BeginFrame
    BY <1>1, <2>1 DEF BeginFrame, meshVars
  <2>2. CASE \E present \in {"good", "stale"} : EndFrame(present)
    BY <1>1, <2>2 DEF EndFrame
  <2> QED BY <1>5, <1>6, <2>1, <2>2 DEF Frame
<1>7. CASE SubmitFails \/ Finish \/ Resize
  BY <1>1, <1>7 DEF SubmitFails, Finish, Resize, meshVars
<1>8. CASE Shutdown
  BY <1>8 DEF Shutdown, Nowhere, PosesInv, UpdatesInv, FreshInv, In
<1>9. CASE UNCHANGED gameVars
  BY <1>1, <1>9 DEF gameVars, vars, meshVars
<1> QED BY <1>2, <1>3, <1>4, <1>6, <1>7, <1>8, <1>9 DEF GameNext

(* A slot of a resident mesh shows the newest accepted pose or is marked   *)
(* to be refreshed with it, whatever uploads and writes fail, and whenever *)
(* the mesh is registered again (DynamicMeshUpdates.hpp,                   *)
(* queuePendingDynamicMeshUpdate and its dirty slots).                     *)
THEOREM NoSlotForgetsAPose == GameSpec => []StaleSlotsAreDirty
<1>1. FullInit => PosesInv
  BY DEF FullInit, Init, Nowhere, PosesInv, UpdatesInv, FreshInv, In
<1>2. IInv /\ PosesInv /\ [GameNext]_gameVars => PosesInv'
  BY StepKeepsPoses
<1>3. PosesInv => StaleSlotsAreDirty
  <2> SUFFICES ASSUME PosesInv, NEW h \in In("resident"), NEW s \in FrameSlots
               PROVE  \/ gpuMeshes[h].poses[s] = wanted[h]
                      \/ /\ h \in DOMAIN updates /\ s \in updates[h].dirty
                         /\ updates[h].pose = wanted[h]
    BY DEF StaleSlotsAreDirty
  <2>1. h \in DOMAIN gpuMeshes \ In("failed")
    BY DEF In
  <2> QED BY <2>1 DEF PosesInv, UpdatesInv, FreshInv, Fresh, Dirty
<1> QED BY <1>1, <1>2, <1>3, InvariantHolds, PTL DEF GameSpec
=============================================================================
