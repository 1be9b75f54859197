-------------------------- MODULE VulkanResources ---------------------------
(***************************************************************************)
(* render/VulkanBackend.cpp, seen as the owner of Vulkan objects: which    *)
(* object every step creates and destroys, what is left when a call of a   *)
(* step fails, and which objects the frames in flight still refer to.      *)
(* Composes the shadow maps, the material textures and the interface.      *)
(* VulkanFrames models the frame loop itself in more detail (fences,       *)
(* semaphores, mesh poses); here a frame is what its steps do to objects.  *)
(***************************************************************************)
EXTENDS ShadowMap, MaterialTextures, UiRenderer

CONSTANTS
  Meshes,           (* names of mesh resources; free again when destroyed  *)
  Dynamic,          (* those with MeshResourceUsage::DynamicVertices       *)
  Maps,             (* for each mesh, the image contents its material uses *)
  SwapImages,       (* images of the swapchain                             *)
  Games             (* what games do: the meshes they register, the        *)
                    (* textures they show, the frames they ask for (RenderFrameInfo, cut down to   *)
                    (* resolution, materials, sky, draws, view, interface, *)
                    (* size)                                               *)

ASSUME ResourcesAssumption ==
  /\ Dynamic \subseteq Meshes /\ Maps \in [Meshes -> Seq(Contents)]
  /\ IsFiniteSet(Meshes)
  /\ SwapImages \in Nat \ {0}

(* Draw data that is valid has vertices if it has commands.                *)
Requests ==
  [resolution : Nat, materials : BOOLEAN, sky : Skies \cup {NoSky}, draws : Seq(Meshes), view : SUBSET Meshes,
   interface : Seq(Sources \cup {White}), size : Nat]

ASSUME GamesAssumption ==
  \A g \in Games :
    /\ g.meshes \subseteq Meshes /\ g.sources \subseteq Sources /\ g.requests \subseteq Requests
    /\ \A f \in g.requests : f.interface # <<>> => f.size > 0

VARIABLES
  game,             (* the game that runs, one of Games                    *)
  driver,           (* the Vulkan driver and the program's handles         *)
  renderer,         (* shadows, materials, ui; the pipelines attempted;    *)
                    (* what is prepared for the frame                      *)
  meshes,           (* gpuMeshes and deferredMeshDestroys                  *)
  isReady,          (* isReady                                             *)
  shown,            (* the UiTextures the game holds                       *)
  currentFrame,     (* the frame slot the CPU works with                   *)
  frame,            (* frameActive: the frame that is drawn, or NoFrame    *)
  recorded,         (* the objects its command buffer refers to            *)
  unsignaled        (* slots whose fence was reset and not submitted with  *)

vars == <<game, driver, renderer, meshes, isReady, shown, currentFrame, frame, recorded, unsignaled>>

Instance == <<"instance", 0>>
Surface == <<"surface", 0>>
Device == <<"device", 0>>
CommandPool == <<"command pool", 0>>
CommandBuffer(slot) == <<"command buffer", slot>>
CommandBuffers == {CommandBuffer(slot) : slot \in FrameSlots}
SyncOf(slot) == {<<"image available", slot>>, <<"render finished", slot>>, <<"in flight", slot>>}
Swapchain == <<"swapchain", 0>>
SwapView(i) == <<"swapchain view", i>>
SwapTarget(i) == <<"framebuffer", i>>
RenderPass == <<"render pass", 0>>
DepthObjects == {<<"depth image", 0>>, <<"depth memory", 0>>, <<"depth view", 0>>}
Images == 0 .. SwapImages - 1

-----------------------------------------------------------------------------
(* Graphics pipelines and their layouts.                                   *)

PlainPipelines == {"sky", "box", "contact", "line", "mesh", "ui rect", "ui line"}
ReceiverPipelines == {"box shadowed", "mesh shadowed"}
MeshPipelines == {"mesh shadowed", "mesh textured", "mesh textured shadowed",
                  "mesh environment", "mesh environment shadowed"}
AllPipelines == PlainPipelines \cup ReceiverPipelines \cup MeshPipelines
Pipeline(name) == <<name, 0, "pipeline">>
Layout(name) == <<name, 0, "layout">>
VertexShader == <<"vertex shader", 0>>
FragmentShader == <<"fragment shader", 0>>

(* The descriptor set layouts a pipeline layout is made from.              *)
SetLayouts(name) ==
  (IF name \in {"box shadowed", "mesh shadowed", "mesh textured shadowed", "mesh environment shadowed"}
   THEN {ReceiverLayout} ELSE {})
    \cup (IF name \in {"mesh textured", "mesh environment"} THEN {EmptyLayout} ELSE {})
    \cup (IF name \in MeshPipelines \ {"mesh shadowed"} THEN {MaterialLayout} ELSE {})
    \cup (IF name \in {"mesh environment", "mesh environment shadowed"} THEN {EnvironmentLayout} ELSE {})

(* What the functions that make a pipeline have in common.  A shader that  *)
(* is missing and a call that fails leave no pipeline; both shader modules *)
(* go in any case.  Some drop the layout of a pipeline that was not made.  *)
Assembled(d, name, drops) ==
  Finally(OnFailure(
            Try(d, <<Make(VertexShader, {}), Make(FragmentShader, {}), Make(Layout(name), SetLayouts(name)),
                     Make(Pipeline(name), {VertexShader, FragmentShader, Layout(name), RenderPass})>>),
            IF drops THEN {Layout(name)} ELSE {}),
          {VertexShader, FragmentShader})

CreateSkyPipeline(d) == Assembled(d, "sky", FALSE)
CreateContactShadowPipeline(d) == Assembled(d, "contact", FALSE)
CreateWorldBoxPipeline(d, shadowed) == Assembled(d, IF shadowed THEN "box shadowed" ELSE "box", TRUE)
CreateWorldLinePipeline(d) == Assembled(d, "line", FALSE)
CreateUiPipeline(d, name) == Assembled(d, name, FALSE)

(* The mesh pipeline for these features; environment implies textured.     *)
MeshPipeline(shadowed, textured, environment) ==
  CASE environment -> IF shadowed THEN "mesh environment shadowed" ELSE "mesh environment"
    [] textured /\ ~ environment -> IF shadowed THEN "mesh textured shadowed" ELSE "mesh textured"
    [] OTHER -> IF shadowed THEN "mesh shadowed" ELSE "mesh"

CreateWorldMeshPipeline(d, shadowed, textured, environment) ==
  Assembled(d, MeshPipeline(shadowed, textured, environment), TRUE)

Exists(d, name) == Pipeline(name) \in d.held

-----------------------------------------------------------------------------
(* The swapchain and everything made for it.                               *)

NoRenderer ==
  [shadows |-> NoShadows, ui |-> NoUi, materials |-> NoMaterials, attempted |-> {}, prepared |-> {}]

(* destroySwapchainResources: pipelines, the owners, then the swapchain.   *)
PipelinesGone(d) ==
  Destroy(Destroy(d, {Pipeline(n) : n \in AllPipelines}), {Layout(n) : n \in AllPipelines})
SwapchainGone(d) ==
  Destroy(Destroy(d, {SwapTarget(i) : i \in Images} \cup {RenderPass} \cup DepthObjects),
          {SwapView(i) : i \in Images} \cup {Swapchain})

(* Variant for DestroySwapchain: an attempt is not repeated afterwards.    *)
DestroySwapchainRemembering(r, d) ==
  [d |-> SwapchainGone(DestroyUi(r.ui, DestroyShadows(r.shadows, PipelinesGone(d)))),
   r |-> [r EXCEPT !.shadows = NoShadows, !.ui = NoUi, !.prepared = {}]]

DestroySwapchain(r, d) ==
  IF Device \notin d.held THEN [d |-> d, r |-> r]
  ELSE [d |-> SwapchainGone(DestroyUi(r.ui, DestroyShadows(r.shadows, PipelinesGone(d)))),
        r |-> [r EXCEPT !.shadows = NoShadows, !.ui = NoUi, !.attempted = {}, !.prepared = {}]]

(* createSwapchain and createImageViews                                    *)
ChainCalls == <<Call({}), Make(Swapchain, {Device, Surface})>>
ViewCalls == [n \in 1 .. SwapImages |-> Make(SwapView(n - 1), {Swapchain})]

(* createRenderPass, createDepthResources and createFramebuffers           *)
PassCalls == <<Make(RenderPass, {})>>
DepthCalls ==
  <<Make(<<"depth image", 0>>, {}), Make(<<"depth memory", 0>>, {}), Call({}),
    Make(<<"depth view", 0>>, {<<"depth image", 0>>})>>
TargetCalls ==
  [n \in 1 .. SwapImages |-> Make(SwapTarget(n - 1), {SwapView(n - 1), RenderPass, <<"depth view", 0>>})]
SwapchainCalls == <<ChainCalls, ViewCalls, PassCalls, DepthCalls, TargetCalls>>

(* The pipelines every swapchain starts with; each may be missing.         *)
PlainPipelineOrder == <<"sky", "box", "contact", "line", "mesh", "ui rect", "ui line">>

PlainPipelineMade(d, name) ==
  CASE name = "sky" -> CreateSkyPipeline(d)
    [] name = "box" -> CreateWorldBoxPipeline(d, FALSE)
    [] name = "contact" -> CreateContactShadowPipeline(d)
    [] name = "line" -> CreateWorldLinePipeline(d)
    [] name = "mesh" -> CreateWorldMeshPipeline(d, FALSE, FALSE, FALSE)
    [] OTHER -> CreateUiPipeline(d, name)

PlainPipelinesMade(d) ==
  InTurn(Returns(d, TRUE), PlainPipelineOrder, LAMBDA o, name : PlainPipelineMade(o.d, name))

(* createSwapchainResources: all of these or none; then the owners, the    *)
(* optional pipelines and the interface, each of which may be missing.     *)
OwnersCreated(r, d) ==
  {[d |-> u.d, ok |-> TRUE,
    r |-> [r EXCEPT !.ui = u.u, !.shadows = ShadowsCreated(@),
                    !.materials = IF @.device THEN @ ELSE MaterialsCreated]] :
     u \in CreateUi(r.ui, d, RenderPass)}

CreateSwapchainResources(r, d) ==
  UNION {IF o.ok THEN UNION {OwnersCreated(r, p.d) : p \in PlainPipelinesMade(o.d)}
         ELSE LET gone == DestroySwapchain(r, o.d) IN {[d |-> gone.d, r |-> gone.r, ok |-> FALSE]} :
         o \in TryEach(d, SwapchainCalls)}

(* createInstance, createSurface, selectPhysicalDevice and                 *)
(* createLogicalDevice; createCommandPoolAndBuffers; createSyncObjects.    *)
DeviceCalls == <<Make(Instance, {}), Make(Surface, {Instance}), Call({}), Make(Device, {Instance})>>

SyncCalls(slot) ==
  <<Make(<<"image available", slot>>, {Device}), Make(<<"render finished", slot>>, {Device}),
    Make(<<"in flight", slot>>, {Device})>>

CommandCalls ==
  <<<<Make(CommandPool, {Device})>>, [n \in 1 .. FramesInFlight |-> Make(CommandBuffer(n - 1), {CommandPool})]>>

CommandsMade(d) ==
  AndThen(TryEach(d, CommandCalls),
          LAMBDA e : TryEach(e, [n \in 1 .. FramesInFlight |-> SyncCalls(n - 1)]))

-----------------------------------------------------------------------------
(* Mesh buffers.                                                           *)

MeshBuffer(part) == <<"mesh buffer", part>>
MeshMemory(part) == <<"mesh memory", part>>
StagingBuffer == <<"mesh staging", 0>>
StagingMemoryOfMesh == <<"mesh staging memory", 0>>
SingleTime == <<"single time command", 0>>

(* The buffers of a mesh, one primitive of it: indices, and vertices for   *)
(* every frame slot when they are dynamic.                                 *)
Indices(mesh) == <<mesh, "indices">>
Vertices(mesh, slot) == <<mesh, "vertices", slot>>
VertexSlots(mesh) == IF mesh \in Dynamic THEN FrameSlots ELSE {0}
BuffersOf(parts) == {MeshBuffer(p) : p \in parts} \cup {MeshMemory(p) : p \in parts}
VertexObjects(mesh) == BuffersOf({Vertices(mesh, slot) : slot \in VertexSlots(mesh)})
MeshObjects(mesh) == VertexObjects(mesh) \cup BuffersOf({Indices(mesh)})

(* createBuffer; what a failure leaves of it goes with the rest of what    *)
(* was made for the mesh.                                                  *)
CreateBuffer(buffer, memory) == <<Make(buffer, {}), Make(memory, {}), Call({buffer, memory})>>

(* writeHostVisibleBuffer *)
WriteBuffer(memory) == <<Fill(memory)>>

(* beginSingleTimeCommands, copyBuffer up to the submission                *)
CopyCalls ==
  <<Make(SingleTime, {CommandPool}), Call({SingleTime}), Call({SingleTime}), Call({})>>

(* ... which is waited for, the answer ignored.                            *)
CopyBuffer(d, objects) ==
  Returns(IgnoredWait(Submit(d, OneTime, {SingleTime} \cup objects)), TRUE)

(* uploadDeviceLocalBuffer, through a staging buffer                       *)
StagingOfMesh == {StagingBuffer, StagingMemoryOfMesh}
UploadCalls(part) ==
  <<CreateBuffer(StagingBuffer, StagingMemoryOfMesh), WriteBuffer(StagingMemoryOfMesh),
    CreateBuffer(MeshBuffer(part), MeshMemory(part)), CopyCalls>>

UploadDeviceLocalBuffer(d, part) ==
  OnFailure(Finally(AndThen(TryEach(d, UploadCalls(part)),
                            LAMBDA e : CopyBuffer(e, StagingOfMesh \cup BuffersOf({part}))),
                    {SingleTime} \cup StagingOfMesh),
            BuffersOf({part}))

(* uploadMeshPrimitive; a failure leaves none of the buffers.              *)
DynamicVertices(mesh, slot) ==
  CreateBuffer(MeshBuffer(Vertices(mesh, slot)), MeshMemory(Vertices(mesh, slot)))
    \o WriteBuffer(MeshMemory(Vertices(mesh, slot)))

UploadVertices(d, mesh) ==
  IF mesh \in Dynamic
  THEN TryEach(d, [n \in 1 .. FramesInFlight |-> DynamicVertices(mesh, n - 1)])
  ELSE UploadDeviceLocalBuffer(d, Vertices(mesh, 0))

UploadMeshPrimitive(d, mesh) ==
  OnFailure(AndThen(UploadVertices(d, mesh), LAMBDA e : UploadDeviceLocalBuffer(e, Indices(mesh))),
            VertexObjects(mesh))

-----------------------------------------------------------------------------
(* A step of a frame takes and leaves s = [d, r, m]: driver, renderer and  *)
(* meshes.                                                                 *)

System == [d |-> driver, r |-> renderer, m |-> meshes]
Each(states, Step(_)) == UNION {Step(s) : s \in states}

NoMesh == [state |-> "absent", tried |-> FALSE, textured |-> FALSE, images |-> {}, wait |-> 0]
In(s, state) == {mesh \in Meshes : s.m[mesh].state = state}

(* The images a mesh refers to, and those nobody but this mesh refers to.  *)
ImagesOf(s, mesh) == s.m[mesh].images
OnlyFor(s, mesh) ==
  ImagesOf(s, mesh) \ (Kept(s.r.materials) \cup UNION {ImagesOf(s, other) : other \in Meshes \ {mesh}})

(* destroyGpuMeshAsset: the buffers, then the materials.                   *)
DestroyMesh(s, mesh) ==
  LET buffers == Destroy(s.d, MeshObjects(mesh))
      gone == IF s.m[mesh].textured
              THEN DestroyAsset(s.r.materials, buffers, mesh, OnlyFor(s, mesh))
              ELSE [d |-> buffers, m |-> s.r.materials]
  IN  [d |-> gone.d, r |-> [s.r EXCEPT !.materials = gone.m], m |-> [s.m EXCEPT ![mesh] = NoMesh]]

(* processDeferredMeshDestroys *)
DestroyMeshes(s, gone) == InTurn({s}, SetToSeq(gone), LAMBDA t, mesh : {DestroyMesh(t, mesh)})
RetireMeshes(s) == DestroyMeshes(s, {mesh \in In(s, "retired") : s.m[mesh].wait = 0})

(* processMeshUploadQueue, whose limit of 32 is never reached here.        *)
UploadMesh(s, mesh) ==
  {[s EXCEPT !.d = o.d, !.m[mesh].state = IF o.ok THEN "resident" ELSE "failed"] :
     o \in UploadMeshPrimitive(s.d, mesh)}

UploadMeshes(s) ==
  IF ~ Exists(s.d, "mesh") THEN {s}
  ELSE InTurn({s}, SetToSeq(In(s, "pending")), UploadMesh)

(* processDynamicMeshUpdates: the slot's copy of a mesh is written.        *)
UpdateMeshes(s, posed) ==
  [s EXCEPT !.d = Rewrite(@, {MeshMemory(Vertices(mesh, currentFrame)) :
                                mesh \in posed \cap Dynamic \cap In(s, "resident")})]

-----------------------------------------------------------------------------
(* What a frame prepares.  A pipeline is attempted once for a swapchain.   *)

Attempt(s, name, Create(_)) ==
  IF name \in s.r.attempted THEN {s}
  ELSE {[s EXCEPT !.d = o.d, !.r.attempted = @ \cup {name}] : o \in Create(s.d)}
Prepares(s, what, condition) ==
  [s EXCEPT !.r.prepared = IF condition THEN @ \cup {what} ELSE @ \ {what}]
OnlyIf(states, what, Stage(_)) ==
  UNION {IF what \in s.r.prepared THEN Stage(s) ELSE {s} : s \in states}

(* prepareDirectionalShadows *)
MapsPrepared(s, f) ==
  {[d |-> o.d, m |-> s.m,
    r |-> [s.r EXCEPT !.shadows = o.s,
                      !.prepared = IF o.ok THEN @ \cup {"shadows"} ELSE @ \ {"shadows"}]] :
     o \in PrepareMaps(s.r.shadows, s.d, currentFrame, f.resolution)}

CreateReceivers(d) ==
  Ignoring(CreateWorldBoxPipeline(d, TRUE), LAMBDA e : CreateWorldMeshPipeline(e, TRUE, FALSE, FALSE))

PrepareReceivers(s) ==
  {Prepares(t, "shadows", Exists(t.d, "box shadowed") /\ Exists(t.d, "mesh shadowed")) :
     t \in Attempt(s, "receivers", CreateReceivers)}

PrepareShadows(s, f) == OnlyIf(MapsPrepared(s, f), "shadows", PrepareReceivers)

(* A pair of mesh pipelines: without and, once a frame has shadows, with   *)
(* them.  Afterwards `what` is prepared if those the frame needs exist.    *)
MeshPipelineAttempted(s, shadowed, environment) ==
  Attempt(s, MeshPipeline(shadowed, TRUE, environment),
          LAMBDA d : CreateWorldMeshPipeline(d, shadowed, TRUE, environment))

MeshPipelinesFor(s, what, environment) ==
  {Prepares(t, what, /\ Exists(t.d, MeshPipeline(FALSE, TRUE, environment))
                     /\ \/ "shadows" \notin t.r.prepared
                        \/ Exists(t.d, MeshPipeline(TRUE, TRUE, environment))) :
     t \in OnlyIf(MeshPipelineAttempted(s, FALSE, environment),
                  "shadows", LAMBDA u : MeshPipelineAttempted(u, TRUE, environment))}

(* The materials of the drawn meshes, in order, up to the first failure.   *)
MaterialUploaded(t, mesh) ==
  IF t.stop \/ mesh \notin In(t, "resident") \/ t.m[mesh].tried THEN {t}
  ELSE {[d |-> o.d, r |-> [t.r EXCEPT !.materials = o.m], stop |-> ~ o.ok,
         m |-> [t.m EXCEPT ![mesh].tried = TRUE, ![mesh].textured = o.ok, ![mesh].images = o.images]] :
          o \in UploadAsset(t.r.materials, t.d, mesh, Maps[mesh])}

UploadMaterials(s, draws) ==
  {[d |-> t.d, r |-> t.r, m |-> t.m] :
     t \in InTurn({[d |-> s.d, r |-> s.r, m |-> s.m, stop |-> FALSE]}, draws, MaterialUploaded)}

(* prepareMaterialTextures.  `cooled`: two seconds passed since the sky    *)
(* was last attempted.                                                     *)
MaterialsPrepared(s, f, cooled) ==
  {Prepares([d |-> o.d, m |-> s.m, r |-> [s.r EXCEPT !.materials = o.m, !.prepared = @ \ {"environment"}]],
            "materials", o.ok) :
     o \in PrepareMaterials(s.r.materials, s.d, currentFrame, f.materials, f.sky, cooled, Exists(s.d, "sky"))}

PrepareReflections(s) ==
  IF s.r.materials.prepared THEN MeshPipelinesFor(s, "environment", TRUE) ELSE {s}

PrepareMaterialTextures(s, f, cooled) ==
  OnlyIf(OnlyIf(OnlyIf(MaterialsPrepared(s, f, cooled),
                       "materials", LAMBDA t : MeshPipelinesFor(t, "materials", FALSE)),
                "materials", PrepareReflections),
         "materials", LAMBDA t : UploadMaterials(t, f.draws))

(* VulkanUiRenderer::prepare, its answer ignored.                          *)
PrepareInterface(s, f) ==
  {[s EXCEPT !.d = o.d, !.r.ui = o.u] :
     o \in PrepareUi(s.r.ui, s.d, currentFrame, f.interface, f.size, shown)}

-----------------------------------------------------------------------------
(* Recording.  Every frame draws the sky, boxes, contact shadows, lines,   *)
(* debug rectangles and lines, with the pipelines there are.               *)

DrawnBuffers(mesh) ==
  BuffersOf({Indices(mesh), Vertices(mesh, IF mesh \in Dynamic THEN currentFrame ELSE 0)})

(* recordDirectionalShadows *)
ShadowPassWork(s, f) ==
  IF "shadows" \in s.r.prepared
  THEN ShadowWork(currentFrame)
         \cup UNION {DrawnBuffers(f.draws[i]) : i \in {j \in DOMAIN f.draws : f.draws[j] \in In(s, "resident")}}
  ELSE {}

(* drawMeshLayer for one mesh: the layer of the world has all features,    *)
(* that of the view model none.                                            *)
MeshWork(s, mesh, world) ==
  LET shadowed == world /\ "shadows" \in s.r.prepared
      textured == world /\ "materials" \in s.r.prepared /\ s.m[mesh].textured
      environment == textured /\ "environment" \in s.r.prepared
      name == MeshPipeline(shadowed, textured, environment)
  IN  IF mesh \notin In(s, "resident") THEN {}
      ELSE {Pipeline(name), Layout(name)} \cup DrawnBuffers(mesh)
             \cup (IF textured THEN AssetWork(mesh, ImagesOf(s, mesh), currentFrame) ELSE {})
             \cup (IF environment THEN EnvironmentWork(s.r.materials) ELSE {})

(* recordCommandBuffer: what the command buffer refers to.                 *)
Recorded(s, f, image) ==
  LET box == IF "shadows" \in s.r.prepared THEN "box shadowed" ELSE "box"
      others == {n \in PlainPipelines \ {"box", "mesh"} : Exists(s.d, n)}
                  \cup (IF Exists(s.d, "box") THEN {box} ELSE {})
      world == {f.draws[i] : i \in DOMAIN f.draws}
  IN  {CommandBuffer(currentFrame), Swapchain, SwapView(image), SwapTarget(image), RenderPass}
        \cup DepthObjects \cup SyncOf(currentFrame)
        \cup {Pipeline(n) : n \in others} \cup {Layout(n) : n \in others}
        \cup ShadowPassWork(s, f)
        \cup (IF Exists(s.d, "mesh")
              THEN (UNION {MeshWork(s, mesh, TRUE) : mesh \in world})
                     \cup UNION {MeshWork(s, mesh, FALSE) : mesh \in f.view}
              ELSE {})
        \cup UiWork(s.r.ui, currentFrame, f.interface)

-----------------------------------------------------------------------------
(* recreateSwapchain: an upload that is pending is waited for first (the   *)
(* program ends when that fails three times).                              *)
Settled(s) ==
  {[s EXCEPT !.d = IgnoredWait(o.d), !.r.materials = o.m] :
     o \in {p \in FinishPending(s.r.materials, s.d) : p.ok}}

Cleared(s) ==
  {[d |-> DestroySwapchain(t.r, t.d).d, r |-> DestroySwapchain(t.r, t.d).r, m |-> t.m] : t \in Settled(s)}

Recreated(s) ==
  UNION {{[d |-> o.d, r |-> o.r, m |-> t.m, ready |-> o.ok] : o \in CreateSwapchainResources(t.r, t.d)} :
         t \in Cleared(s)}

(* shutdown: the swapchain, the meshes, the materials, then what is left;  *)
(* without a device there is little to do.                                 *)
Unloaded(s) == DestroyMeshes(s, Meshes \ In(s, "absent"))

CommandsGone(d) ==
  Forget(DestroyPool(Destroy(d, UNION {SyncOf(slot) : slot \in FrameSlots}), CommandPool, CommandBuffers),
         CommandBuffers)

DeviceGone(d) ==
  DestroyParent(Destroy(DestroyParent(CommandsGone(d), Device, {Instance, Surface}), {Surface}), Instance, {})

Emptied(s) == DestroyMaterials(s.r.materials, s.d)

Shut(s) ==
  {DeviceGone(Emptied(u)) : u \in UNION {Unloaded(t) : t \in IF Device \in s.d.held THEN Cleared(s) ELSE {s}}}

(* The backend as constructed, but for the driver.                         *)
BackIn(d) ==
  /\ driver' = d
  /\ renderer' = NoRenderer /\ meshes' = [mesh \in Meshes |-> NoMesh]
  /\ isReady' = FALSE /\ currentFrame' = 0 /\ unsignaled' = {}

NoFrame == [none |-> 0]
Idles == frame' = NoFrame /\ recorded' = {}

Init ==
  /\ game \in Games
  /\ driver = NoDriver
  /\ renderer = NoRenderer /\ meshes = [mesh \in Meshes |-> NoMesh]
  /\ isReady = FALSE /\ shown = {} /\ currentFrame = 0
  /\ frame = NoFrame /\ recorded = {} /\ unsignaled = {}

(* VulkanBackend::create; what a failure leaves is shut down.              *)
Create ==
  /\ Instance \notin driver.held
  /\ \E o \in Try(driver, DeviceCalls) :
       \E p \in IF o.ok THEN CreateSwapchainResources(renderer, o.d) ELSE {[d |-> o.d, r |-> renderer, ok |-> FALSE]} :
         \E q \in IF p.ok THEN CommandsMade(p.d) ELSE {p} :
           IF q.ok
           THEN /\ driver' = q.d /\ renderer' = p.r /\ isReady' = TRUE
                /\ UNCHANGED <<meshes, currentFrame, unsignaled>>
           ELSE \E d \in Shut([System EXCEPT !.d = q.d, !.r = p.r]) : BackIn(d)
  /\ UNCHANGED <<shown, frame, recorded>>

(* VulkanBackend::shutdown, also of the destructor.                        *)
Shutdown ==
  /\ Instance \in driver.held
  /\ \E d \in Shut(System) : BackIn(d)
  /\ Idles /\ UNCHANGED shown

-----------------------------------------------------------------------------
(* The calls of the game.                                                  *)

(* registerMeshResource: known meshes stay, but one that failed is tried   *)
(* again.                                                                  *)
Register(mesh) ==
  /\ isReady /\ meshes[mesh].state \in {"absent", "failed"}
  /\ meshes' = [meshes EXCEPT ![mesh] = [NoMesh EXCEPT !.state = "pending"]]
  /\ UNCHANGED <<driver, renderer, isReady, shown, currentFrame, frame, recorded, unsignaled>>

(* releaseMeshResource: what was uploaded stays for some frames.           *)
Release(mesh) ==
  /\ isReady /\ meshes[mesh].state \in {"pending", "failed", "resident"}
  /\ meshes' = [meshes EXCEPT ![mesh] =
                  IF @.state = "resident"
                  THEN [@ EXCEPT !.state = "retired", !.wait = FramesInFlight + 1] ELSE NoMesh]
  /\ UNCHANGED <<driver, renderer, isReady, shown, currentFrame, frame, recorded, unsignaled>>

(* The game takes and drops a UiTexture.                                   *)
Show(t) ==
  /\ shown' = IF t \in shown THEN shown \ {t} ELSE shown \cup {t}
  /\ UNCHANGED <<driver, renderer, meshes, isReady, currentFrame, frame, recorded, unsignaled>>

(* beginFrame when the window has another size.                            *)
WindowChanged ==
  /\ isReady /\ frame = NoFrame
  /\ \E o \in Recreated(System) :
       driver' = o.d /\ renderer' = o.r /\ isReady' = o.ready
  /\ Idles /\ UNCHANGED <<meshes, shown, currentFrame, unsignaled>>

(* beginFrame up to vkAcquireNextImageKHR: the fence of the slot is waited *)
(* for, then everything the frame f needs is prepared.  `posed`: the       *)
(* meshes whose new vertices are written.                                  *)
MeshesPrepared(posed) ==
  {UpdateMeshes(s, posed) :
     s \in Each(RetireMeshes([System EXCEPT !.d.work[currentFrame] = {}]), UploadMeshes)}

Prepared(f, cooled, posed) ==
  Each(Each(Each(MeshesPrepared(posed), LAMBDA s : PrepareShadows(s, f)),
            LAMBDA s : PrepareMaterialTextures(s, f, cooled)),
       LAMBDA s : PrepareInterface(s, f))

Begins(f) ==
  /\ isReady /\ frame = NoFrame /\ currentFrame \notin unsignaled
  /\ \A i \in DOMAIN f.interface : f.interface[i] \in shown \cup {White}

(* An image was acquired: the command buffer is reset and recorded.        *)
Records(s, f) ==
  /\ driver' = Rewrite(s.d, {CommandBuffer(currentFrame)})
  /\ renderer' = s.r /\ meshes' = s.m
  /\ \E image \in Images : recorded' = Recorded(s, f, image)
  /\ frame' = f /\ UNCHANGED isReady

(* No image can be acquired: the frame is skipped.                         *)
Skips(s) ==
  /\ driver' = s.d /\ renderer' = s.r /\ meshes' = s.m
  /\ UNCHANGED <<isReady, frame, recorded>>

(* The swapchain is out of date.                                           *)
Rebuilds(s) ==
  /\ \E o \in Recreated(s) :
       driver' = o.d /\ renderer' = o.r /\ meshes' = o.m /\ isReady' = o.ready
  /\ UNCHANGED <<frame, recorded>>

BeginFrame(f, cooled, posed) ==
  /\ Begins(f)
  /\ \E s \in Prepared(f, cooled, posed) : Records(s, f) \/ Skips(s) \/ Rebuilds(s)
  /\ UNCHANGED <<shown, currentFrame, unsignaled>>

(* endFrame: the frame is submitted and presented; presenting may ask for  *)
(* another swapchain.                                                      *)
Submitted == [System EXCEPT !.d = Submit(driver, currentFrame, recorded)]
Aged(m) == [mesh \in Meshes |-> [m[mesh] EXCEPT !.wait = IF @ > 0 THEN @ - 1 ELSE 0]]

EndFrame(rebuild) ==
  /\ isReady /\ frame # NoFrame
  /\ \E o \in IF rebuild THEN Recreated(Submitted) ELSE {[d |-> Submitted.d, r |-> renderer, ready |-> TRUE]} :
       driver' = o.d /\ renderer' = o.r /\ isReady' = o.ready
  /\ meshes' = Aged(meshes)
  /\ currentFrame' = (currentFrame + 1) % FramesInFlight
  /\ Idles /\ UNCHANGED <<shown, unsignaled>>

(* ... when vkQueueSubmit fails.                                           *)
SubmitFails ==
  /\ isReady /\ frame # NoFrame /\ MayRefuse(driver)
  /\ driver' = Refuse(driver)
  /\ unsignaled' = unsignaled \cup {currentFrame}
  /\ Idles /\ UNCHANGED <<renderer, meshes, isReady, shown, currentFrame>>

Step ==
  \/ Create \/ Shutdown \/ WindowChanged \/ SubmitFails
  \/ \E mesh \in game.meshes : Register(mesh) \/ Release(mesh)
  \/ \E t \in game.sources : Show(t)
  \/ \E f \in game.requests, cooled \in BOOLEAN, posed \in SUBSET (Dynamic \cap game.meshes) :
       (f.sky = NoSky => cooled) /\ BeginFrame(f, cooled, posed)
  \/ \E rebuild \in BOOLEAN : EndFrame(rebuild)

Next == Step /\ UNCHANGED game

Spec == Init /\ [][Next]_vars

-----------------------------------------------------------------------------
(* Nothing the GPU may still read or write is destroyed or written by the  *)
(* host: not by retiring a mesh, replacing shadow maps, resizing the       *)
(* interface's buffers, expiring a texture, giving up an upload whose end  *)
(* could not be confirmed, recreating the swapchain or shutting down.      *)
NothingBusyIsTouched == "busy" \notin driver.misuses

(* No call is given, and no submitted command buffer refers to, an object  *)
(* that was never made or is gone, whichever call failed before.           *)
NothingGoneIsUsed == "dead" \notin driver.misuses

(* Between two calls every object that exists is in one of the program's   *)
(* handles and every handle names one that exists; no handle was ever      *)
(* overwritten, and no device destroyed before its objects.                *)
NothingIsLost ==
  /\ driver.alive = driver.held
  /\ {"lost", "orphan"} \cap driver.misuses = {}

(* The material images that exist are those somebody refers to - a mesh,   *)
(* the defaults, the reflections, an upload in doubt - and exactly those   *)
(* are counted against the budget, which they never exceed.                *)
ImagesAreAccounted ==
  LET existing == {n \in Names : Image(n) \in driver.alive}
  IN  /\ existing = Kept(renderer.materials) \cup UNION {meshes[mesh].images : mesh \in Meshes}
      /\ renderer.materials.used = Cardinality(existing)
      /\ renderer.materials.used <= ImageBudget

(* A frame drawn with reflections shows those of its own sky, and they are *)
(* the ones the generation gate has on record as completed.                *)
ReflectionsAreOfTheFrame ==
  frame # NoFrame /\ "environment" \in renderer.prepared =>
    /\ renderer.materials.written = frame.sky /\ renderer.materials.shows = frame.sky
    /\ renderer.materials.gate.completed = frame.sky

(* As long as no call failed, a frame that asks for shadows or materials   *)
(* has them, after any number of swapchains.                               *)
FeaturesComeBack ==
  frame # NoFrame /\ driver.refusals = 0 =>
    /\ frame.resolution # 0 => "shadows" \in renderer.prepared
    /\ frame.materials => "materials" \in renderer.prepared
=============================================================================
