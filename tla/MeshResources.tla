---------------------------- MODULE MeshResources ----------------------------
(***************************************************************************)
(* render/Renderer.cpp: the registry that gives each mesh asset a handle   *)
(* (slot index and generation), and the calls by which Renderer passes     *)
(* them on to the Vulkan backend, whose frame loop runs in between.        *)
(***************************************************************************)
EXTENDS VulkanFrames

CONSTANTS
  Assets,            (* asset ids                                          *)
  DynamicAssets,     (* those registered for DynamicVertices               *)
  Indices,           (* slot indices, 1 .. n                               *)
  MaxGeneration,     (* bound on how often a slot is reused                *)
  MaxSubmitFailures  (* bound on failing submissions                       *)

ASSUME ResourcesAssumption ==
  /\ DynamicAssets \subseteq Assets
  /\ Indices = 1 .. Cardinality(Indices)
  /\ MaxGeneration \in Nat \ {0} /\ MaxSubmitFailures \in Nat
  /\ Handles = Indices \X (1 .. MaxGeneration)

VARIABLES
  slots,       (* the slots in use so far: generation, assets held         *)
  freeList,    (* released slots, last in first out                        *)
  byAsset,     (* handlesByAssetId                                         *)
  issued,      (* every handle ever handed out                             *)
  failures     (* submissions that failed                                  *)

registryVars == <<slots, freeList, byAsset, issued>>

Live(h) == /\ h[1] \in DOMAIN slots /\ slots[h[1]].generation = h[2]
           /\ slots[h[1]].asset # {}

(* The slot registerResource takes: the last one freed, or a new one.      *)
Taken == IF freeList # <<>> THEN freeList[Len(freeList)] ELSE Len(slots) + 1

NextGeneration(i) == IF i \in DOMAIN slots THEN slots[i].generation + 1 ELSE 1

FullInit ==
  /\ Init
  /\ slots = <<>> /\ freeList = <<>> /\ byAsset = Nowhere /\ issued = {}
  /\ failures = 0

(* While beginFrame waits for a fence the game makes no call.              *)
Calling == phase # "waiting" /\ UNCHANGED <<frameVars, resizes, failures>>

(* Renderer::registerMeshResource for an asset that has a handle.          *)
RegisterAgain(a) ==
  /\ Calling
  /\ a \in DOMAIN byAsset
  /\ IF ready THEN RegisterMesh(byAsset[a], a \in DynamicAssets) ELSE UNCHANGED meshVars
  /\ UNCHANGED registryVars

(* ... and for one that gets one.                                          *)
Register(a) ==
  LET i == Taken
      h == <<i, NextGeneration(i)>>
  IN
  /\ Calling
  /\ a \notin DOMAIN byAsset
  /\ h \in Handles
  /\ slots' = [j \in DOMAIN slots \cup {i} |->
       IF j = i THEN [generation |-> h[2], asset |-> {a}] ELSE slots[j]]
  /\ freeList' = IF freeList # <<>> THEN SubSeq(freeList, 1, Len(freeList) - 1) ELSE freeList
  /\ byAsset' = With(byAsset, a, h)
  /\ issued' = issued \cup {h}
  /\ IF ready THEN RegisterMesh(h, a \in DynamicAssets) ELSE UNCHANGED meshVars

(* Renderer::releaseMeshResource, with any handle ever issued.             *)
Release(h) ==
  /\ Calling
  /\ IF ready THEN ReleaseMesh(h) ELSE UNCHANGED meshVars
  /\ IF Live(h)
     THEN /\ slots' = [slots EXCEPT ![h[1]].asset = {}]
          /\ freeList' = Append(freeList, h[1])
          /\ byAsset' = [a \in DOMAIN byAsset \ slots[h[1]].asset |-> byAsset[a]]
     ELSE UNCHANGED <<slots, freeList, byAsset>>
  /\ UNCHANGED issued

(* Renderer::updateMeshResourceVertices; the vertex counts always agree.   *)
Update(h, pose) ==
  /\ Calling
  /\ Live(h) /\ slots[h[1]].asset \subseteq DynamicAssets
  /\ IF ready THEN QueuePose(h, pose) ELSE UNCHANGED meshVars
  /\ UNCHANGED registryVars

(* The frame loop.                                                         *)
Unrelated == UNCHANGED <<registryVars, failures>>
Answers == {"success", "suboptimal", "outOfDate", "error"}
Outcomes(failed) == [Writable(Uploaded(failed)) -> {"uploaded", "torn", "untouched"}]

Frame ==
  \/ BeginFrame
  \/ \E failed \in SUBSET Batch : \E outcome \in Outcomes(failed) :
       \E result \in Answers : FenceSignaled(failed, outcome, result)
  \/ \E present \in {"good", "stale"} : EndFrame(present)

GameNext ==
  \/ \E a \in Assets : Register(a) \/ RegisterAgain(a)
  \/ \E h \in issued : Release(h)
  \/ \E h \in issued, pose \in Poses \ {Rest} : Update(h, pose)
  \/ Frame /\ Unrelated
  \/ SubmitFails /\ failures < MaxSubmitFailures /\ failures' = failures + 1
                 /\ UNCHANGED registryVars
  \/ Shutdown /\ Unrelated
  \/ Finish /\ Unrelated
  \/ Resize /\ Unrelated

gameVars == <<vars, registryVars, failures>>
GameSpec == FullInit /\ [][GameNext]_gameVars

(* The loop goes round, the GPU finishes what it was given, and the        *)
(* presentation engine and the device do not refuse a slot for ever.       *)
GoodFrame ==
  FenceSignaled({}, [h \in Writable(Uploaded({})) |-> "uploaded"], "success")

FairGameSpec ==
  /\ GameSpec
  /\ WF_gameVars(BeginFrame /\ Unrelated)
  /\ \A s \in FrameSlots : SF_gameVars(currentFrame = s /\ GoodFrame /\ Unrelated)
  /\ WF_gameVars(EndFrame("good") /\ Unrelated)
  /\ WF_gameVars(Finish /\ Unrelated)
-----------------------------------------------------------------------------
(* No GPU buffer is destroyed while a command buffer that refers to it is  *)
(* recorded, submitted or running, whenever the mesh was released.         *)
NothingDrawnIsDestroyed ==
  \A s \in InFlight \cup (IF phase = "active" THEN {currentFrame} ELSE {}) :
    drawn[s] \subseteq In("resident") \cup DOMAIN deferred

(* The vertex buffer of a slot is written only while no recorded or        *)
(* unfinished command buffer reads it.                                     *)
BusySlotsAreNotWritten ==
  [][\A h \in In("resident") \cap DOMAIN gpuMeshes' : \A s \in FrameSlots :
       gpuMeshes'[h].poses[s] # gpuMeshes[h].poses[s] =>
         s \notin InFlight /\ ~(phase = "active" /\ s = currentFrame)]_gameVars

(* A slot that does not show the newest accepted pose of a mesh is marked  *)
(* to be refreshed with it: no pose is shown in one slot and forgotten in  *)
(* another, whatever writes fail or are torn.                              *)
StaleSlotsAreDirty ==
  \A h \in In("resident") : \A s \in FrameSlots :
    \/ gpuMeshes[h].poses[s] = wanted[h]
    \/ /\ h \in DOMAIN updates /\ s \in updates[h].dirty
       /\ updates[h].pose = wanted[h]

(* The frame loop has come to an end: the backend is shut down, or waits   *)
(* for the fence of a submission that failed.                              *)
Ended == ~ready \/ failures > 0

(* A mesh that waits for its upload while there is no pipeline to draw it  *)
(* with, which the next swapchain may bring.                               *)
Stranded(h) == h \in In("pending") /\ ~worldMeshPipeline

(* A pose accepted reaches the vertex buffer of every slot, even while     *)
(* newer poses keep coming and the window keeps changing.  Those of a      *)
(* stranded mesh are tried again every frame, and owed again once it is    *)
(* not stranded any more.                                                  *)
Dirty(h, s) == h \in DOMAIN updates /\ s \in updates[h].dirty
PosesReachEverySlot ==
  \A h \in Handles, s \in FrameSlots :
    Dirty(h, s) ~> ~Dirty(h, s) \/ Ended \/ Stranded(h)

(* What was released is destroyed in the end.                              *)
RetiredAreDestroyed ==
  \A h \in Handles : h \in DOMAIN deferred ~> h \notin DOMAIN deferred \/ Ended

(* The semaphore given to vkAcquireNextImageKHR has no signal outstanding. *)
AcquireSemaphoreIsFree ==
  [][phase = "waiting" /\ phase' # "waiting" => currentFrame \notin acquired]_gameVars
=============================================================================
