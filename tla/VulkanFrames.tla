---------------------------- MODULE VulkanFrames ----------------------------
(***************************************************************************)
(* render/VulkanBackend.cpp: the frame loop with several frames in flight, *)
(* the GPU copies of the registered meshes, and the pose updates of        *)
(* dynamic meshes (render/DynamicMeshUpdates.hpp).  The CPU side is one    *)
(* thread; the GPU works through what was submitted to its queue, in       *)
(* order.  Device, presentation engine and window are outside the          *)
(* repository: their answers are inputs.                                   *)
(***************************************************************************)
EXTENDS Naturals, Sequences, FiniteSets

CONSTANTS
  FramesInFlight,    (* kMaxFramesInFlight, also kDynamicMeshFrameCount    *)
  UploadsPerFrame,   (* processMeshUploadQueue(32)                         *)
  Handles,           (* mesh resource handles                              *)
  Poses,             (* vertex data of a mesh                              *)
  Rest,              (* the data a mesh is registered with                 *)
  Torn,              (* a half-written vertex buffer                       *)
  MaxResizes         (* bound on how often the window changes              *)

ASSUME FramesAssumption ==
  /\ FramesInFlight \in Nat \ {0} /\ UploadsPerFrame \in Nat \ {0}
  /\ MaxResizes \in Nat
ASSUME PosesAssumption == Rest \in Poses /\ Torn \notin Poses

VARIABLES
  ready,           (* isReady                                              *)
  surface,         (* the window: as the swapchain, resized, or unusable   *)
  resizes,         (* how often the window changed                         *)
  phase,           (* "waiting" inside beginFrame, "active": frameActive   *)
  currentFrame,    (* the frame slot the CPU works with                    *)
  signaled,        (* slots whose inFlight fence is signaled               *)
  queue,           (* slots submitted and not finished, oldest first       *)
  acquired,        (* slots whose imageAvailable semaphore is signaled     *)
  drawn,           (* the meshes each slot's command buffer refers to      *)
  worldMeshPipeline, (* there is one; making it may fail unnoticed         *)
  gpuMeshes,       (* the handles known to the backend                     *)
  uploads,         (* pendingMeshUploads                                   *)
  updates,         (* pendingDynamicMeshUpdates                            *)
  deferred,        (* deferredMeshDestroys: handle -> retireAfterFrame     *)
                   (* less frameSerial, never below 0                      *)
  wanted           (* the pose last accepted for each mesh                 *)

frameVars == <<ready, surface, phase, currentFrame, signaled, queue, acquired, drawn,
               worldMeshPipeline>>
meshVars == <<gpuMeshes, uploads, updates, deferred, wanted>>
vars == <<frameVars, resizes, meshVars>>

FrameSlots == 0 .. FramesInFlight - 1
InFlight == {queue[i] : i \in DOMAIN queue}
In(state) == {h \in DOMAIN gpuMeshes : gpuMeshes[h].state = state}
Without(f, h) == [x \in DOMAIN f \ {h} |-> f[x]]
With(f, h, v) == [x \in DOMAIN f \cup {h} |-> IF x = h THEN v ELSE f[x]]

NewMesh(dynamic) ==
  [state |-> "pending", dynamic |-> dynamic, poses |-> [s \in FrameSlots |-> Rest]]

Nowhere == [h \in {} |-> 0]

Init ==
  /\ ready = TRUE
  /\ surface = "same" /\ resizes = 0
  /\ phase = "outside"
  /\ currentFrame = 0
  /\ signaled = FrameSlots
  /\ queue = <<>>
  /\ acquired = {}
  /\ drawn = [s \in FrameSlots |-> {}]
  /\ worldMeshPipeline \in BOOLEAN
  /\ gpuMeshes = Nowhere /\ uploads = <<>> /\ updates = Nowhere
  /\ deferred = Nowhere /\ wanted = Nowhere

-----------------------------------------------------------------------------
(* The mesh calls of the game, all made outside beginFrame.                *)

(* registerMeshResource: nothing for a mesh that is known, unless its      *)
(* upload failed.                                                          *)
RegisterMesh(h, dynamic) ==
  IF h \in DOMAIN gpuMeshes \ In("failed") THEN UNCHANGED meshVars
  ELSE /\ gpuMeshes' = With(gpuMeshes, h, NewMesh(dynamic))
       /\ uploads' = Append(uploads, h)
       /\ wanted' = With(wanted, h, Rest)
       /\ UNCHANGED <<updates, deferred>>

(* Variant for RetireAfter: the frame being recorded is forgotten.         *)
RetireTooSoon == FramesInFlight - 1
RetireAfter == FramesInFlight + 1

(* What is left of the upload queue, in which a mesh stands once at most.  *)
Dequeued(h) ==
  IF \E i \in DOMAIN uploads : uploads[i] = h
  THEN LET i == CHOOSE j \in DOMAIN uploads : uploads[j] = h
       IN  [k \in 1 .. Len(uploads) - 1 |-> uploads[IF k < i THEN k ELSE k + 1]]
  ELSE uploads

(* releaseMeshResource: a resident mesh is destroyed once the frames that  *)
(* may draw it have retired.                                               *)
ReleaseMesh(h) ==
  /\ uploads' = Dequeued(h)
  /\ updates' = Without(updates, h)
  /\ deferred' = IF h \in In("resident") THEN With(deferred, h, RetireAfter) ELSE deferred
  /\ gpuMeshes' = Without(gpuMeshes, h)
  /\ wanted' = Without(wanted, h)

(* Variant for Replaced: slots already refreshed stay clean.               *)
ReplacedKeepingDirty(h, pose) ==
  [pose |-> pose, dirty |-> IF h \in DOMAIN updates THEN updates[h].dirty ELSE FrameSlots]

(* queuePendingDynamicMeshUpdate: a newer pose dirties every slot again.   *)
Replaced(h, pose) == [pose |-> pose, dirty |-> FrameSlots]

(* queueDynamicMeshUpdate *)
QueuePose(h, pose) ==
  IF h \in DOMAIN gpuMeshes \ In("failed") /\ gpuMeshes[h].dynamic
  THEN /\ updates' = With(updates, h, Replaced(h, pose))
       /\ wanted' = [wanted EXCEPT ![h] = pose]
       /\ UNCHANGED <<gpuMeshes, uploads, deferred>>
  ELSE UNCHANGED meshVars

-----------------------------------------------------------------------------
(* recreateSwapchain, when `submitted` is what the queue holds: wait until *)
(* the device is idle, then build a swapchain for the window as it is.  A  *)
(* failure is final, but for that of the mesh pipeline, which is ignored.  *)
RecreateSwapchain(submitted) ==
  /\ queue' = <<>>
  /\ signaled' = signaled \cup {submitted[i] : i \in DOMAIN submitted}
  /\ ready' = (surface # "unusable")
  /\ surface' = IF surface = "unusable" THEN surface ELSE "same"
  /\ worldMeshPipeline' \in IF surface = "unusable" THEN {FALSE} ELSE BOOLEAN

(* beginFrame up to the wait for the slot's fence.                         *)
BeginFrame ==
  /\ phase = "outside" /\ ready
  /\ IF surface = "same"
     THEN phase' = "waiting" /\ UNCHANGED <<ready, surface, signaled, queue, worldMeshPipeline>>
     ELSE phase' = "outside" /\ RecreateSwapchain(queue)
  /\ UNCHANGED <<currentFrame, acquired, drawn, resizes, meshVars>>

(* Variant for StillDeferred: nothing is ever old enough.                  *)
StillDeferredAll == deferred

(* processDeferredMeshDestroys *)
StillDeferred == [h \in {x \in DOMAIN deferred : deferred[x] > 0} |-> deferred[h]]

(* processMeshUploadQueue: the oldest requests, of which some fail; none   *)
(* while there is no pipeline.                                             *)
Batch ==
  {uploads[i] : i \in {j \in DOMAIN uploads : worldMeshPipeline /\ j <= UploadsPerFrame}}
UploadsLeft ==
  IF worldMeshPipeline THEN SubSeq(uploads, UploadsPerFrame + 1, Len(uploads)) ELSE uploads
Uploaded(failed) ==
  [h \in DOMAIN gpuMeshes |->
     IF h \in Batch
     THEN [gpuMeshes[h] EXCEPT !.state = IF h \in failed THEN "failed" ELSE "resident"]
     ELSE gpuMeshes[h]]

(* Variant for SafeSlots: every slot that is dirty is refreshed at once.   *)
SafeSlotsAll == FrameSlots
SafeSlots == {currentFrame}

(* processDynamicMeshUpdates, after the uploads made `meshes`: resident    *)
(* meshes with a dirty slot are written, with an outcome for each; meshes  *)
(* still to be uploaded wait; the update of any other is discarded.        *)
Writable(meshes) ==
  {h \in DOMAIN updates : /\ currentFrame \in updates[h].dirty
                          /\ h \in DOMAIN meshes /\ meshes[h].state = "resident"}
Discarded(meshes) ==
  {h \in DOMAIN updates : /\ currentFrame \in updates[h].dirty
                          /\ h \in DOMAIN meshes => meshes[h].state = "failed"}

Written(meshes, outcome) ==
  [h \in DOMAIN meshes |->
     IF h \notin DOMAIN outcome \/ outcome[h] = "untouched" THEN meshes[h]
     ELSE [meshes[h] EXCEPT !.poses = [s \in FrameSlots |->
             IF s \notin SafeSlots THEN @[s]
             ELSE IF outcome[h] = "torn" THEN Torn ELSE updates[h].pose]]]

Cleaned(outcome, h) ==
  IF h \in DOMAIN outcome /\ outcome[h] = "uploaded"
  THEN [updates[h] EXCEPT !.dirty = @ \ SafeSlots] ELSE updates[h]
UpdatesLeft(meshes, outcome) ==
  [h \in {x \in DOMAIN updates \ Discarded(meshes) : Cleaned(outcome, x).dirty # {}} |->
     Cleaned(outcome, h)]

Prepare(failed, outcome) ==
  LET meshes == Uploaded(failed) IN
  /\ deferred' = StillDeferred
  /\ uploads' = UploadsLeft
  /\ gpuMeshes' = Written(meshes, outcome)
  /\ updates' = UpdatesLeft(meshes, outcome)
  /\ wanted' = [h \in DOMAIN wanted |->
       IF meshes[h].state = "failed" THEN Rest ELSE wanted[h]]

(* What the presentation engine answers to vkAcquireNextImageKHR.  A       *)
(* suboptimal image is an image: its semaphore will be signaled.  Only     *)
(* success resets the fence and records the frame, drawing every resident  *)
(* mesh: without a mesh pipeline that is the shadow pass.                  *)
Acquire(result) ==
  /\ acquired' = IF result \in {"success", "suboptimal"}
                 THEN acquired \cup {currentFrame} ELSE acquired
  /\ CASE result = "success" ->
            /\ phase' = "active"
            /\ signaled' = signaled \ {currentFrame}
            /\ drawn' = [drawn EXCEPT ![currentFrame] =
                 {h \in DOMAIN gpuMeshes' : gpuMeshes'[h].state = "resident"}]
            /\ UNCHANGED <<queue, ready, surface, worldMeshPipeline>>
       [] result \in {"suboptimal", "outOfDate"} ->
            phase' = "outside" /\ RecreateSwapchain(queue) /\ UNCHANGED drawn
       [] result = "error" ->
            /\ phase' = "outside"
            /\ UNCHANGED <<queue, signaled, ready, surface, drawn, worldMeshPipeline>>

(* beginFrame from there on: GPU resources, acquisition, recording.        *)
FenceSignaled(failed, outcome, result) ==
  /\ phase = "waiting"
  /\ currentFrame \in signaled
  /\ Prepare(failed, outcome)
  /\ Acquire(result)
  /\ UNCHANGED <<currentFrame, resizes>>

-----------------------------------------------------------------------------
(* endFrame: the submission waits for the image and signals the fence.     *)
Submitted == Append(queue, currentFrame)

(* Variant for NextFrame: the slot is not advanced.                        *)
SameFrame == currentFrame
NextFrame == (currentFrame + 1) % FramesInFlight

(* vkQueueSubmit fails: the frame is skipped, its fence was reset.         *)
SubmitFails ==
  /\ phase = "active"
  /\ phase' = "outside"
  /\ UNCHANGED <<ready, surface, currentFrame, signaled, queue, acquired, drawn,
                 worldMeshPipeline, resizes, meshVars>>

EndFrame(present) ==
  /\ phase = "active"
  /\ phase' = "outside"
  /\ acquired' = acquired \ {currentFrame}
  /\ currentFrame' = NextFrame
  /\ deferred' = [h \in DOMAIN deferred |-> IF deferred[h] > 0 THEN deferred[h] - 1 ELSE 0]
  /\ IF present = "stale" THEN RecreateSwapchain(Submitted)
     ELSE queue' = Submitted /\ UNCHANGED <<signaled, ready, surface, worldMeshPipeline>>
  /\ UNCHANGED <<drawn, resizes, gpuMeshes, uploads, updates, wanted>>

(* shutdown: wait until the device is idle, destroy everything.            *)
Shutdown ==
  /\ phase # "waiting" /\ ready
  /\ ready' = FALSE /\ phase' = "outside" /\ currentFrame' = 0
  /\ queue' = <<>> /\ signaled' = {} /\ acquired' = {}
  /\ drawn' = [s \in FrameSlots |-> {}] /\ worldMeshPipeline' = FALSE
  /\ gpuMeshes' = Nowhere /\ uploads' = <<>> /\ updates' = Nowhere
  /\ deferred' = Nowhere /\ wanted' = Nowhere
  /\ UNCHANGED <<surface, resizes>>

(* The GPU finishes the oldest submission and signals its fence.           *)
Finish ==
  /\ queue # <<>>
  /\ signaled' = signaled \cup {Head(queue)}
  /\ queue' = Tail(queue)
  /\ UNCHANGED <<ready, surface, phase, currentFrame, acquired, drawn, worldMeshPipeline,
                 resizes, meshVars>>

(* The window is resized, minimised or restored.                           *)
Resize ==
  /\ resizes < MaxResizes
  /\ surface' \in {"same", "resized", "unusable"} \ {surface}
  /\ resizes' = resizes + 1
  /\ UNCHANGED <<ready, phase, currentFrame, signaled, queue, acquired, drawn,
                 worldMeshPipeline, meshVars>>
=============================================================================
