# TLA+ models of the NovaCore Engine

This directory models the parts of NovaCore Engine whose correctness depends on
order: on messages that are lost or repeated, on work that is spread over several
frames, on state that is kept between two calls. Each module is translated from
the C++ source; `PROJECT.json` names, for every definition, the lines it stands
for. TLC checks the modules on small instances (the `MC*.cfg` files), TLAPS proves
the theorems in the `*_proofs` modules for every value of the constants.

    tlc -workers 2 -config MCPacketChannel.cfg MCPacketChannel
    tlapm Network_proofs.tla

## The system

NovaCore is a C++23 engine library (`engine/`), a demonstration program
(`sandbox/`) and a server program (`server/`). The program is single threaded:
one thread runs `Application::run`, fixed ticks and frames; concurrency comes from
the GPU, from the network, from other programs that write files and, in the
asset and texture paths, from work that is spread over frames. Hard behaviour is
therefore rarely a data race. It is state read in one frame and used in a later
one, a message that arrives late, a failure between two of the steps of one call.

| Component | State it keeps | Operations | What makes it correct | Module |
|---|---|---|---|---|
| `net/SequenceBuffer` | ring of slots, newest sequence, size | store, erase, eraseThrough, eraseAfter, clear | it is the map of the newest sequences, the counter counts, nothing outside the window is live | `SequenceBuffer`, `SequenceWindow` |
| `net/Protocol` | next sequence, ledger of packets sent, receive window | make a header, track it, observe, process acknowledgements, reset | an acknowledged packet was received; a packet is accepted once; the window tells the truth | `PacketChannel`, `SequenceNumbers` |
| `net/Reconciliation` | predicted frames, newest and acknowledged tick | record, reconcile, acknowledge, clear | a plan replays exactly what is unconfirmed, the client comes to agree | `PredictionBuffer`, `PredictedClient` |
| `net/SnapshotReplication` | baselines by id | build and apply a delta, store, find, acknowledge | what the client reconstructs is what the server took | `SnapshotDelta`, `BaselineStore`, `SnapshotReplication` |
| `render/Renderer` registry | slots with generations, assets | register, release, update | a stale handle stays dead, the backend follows | `MeshResources` |
| `render/VulkanBackend` frame loop | frame slots, fences, semaphores, upload queue, deferred destroys, pending poses | beginFrame, endFrame, recreate, register, release, queue a pose, shutdown | nothing the GPU reads is destroyed or written, every pose arrives | `VulkanFrames` |
| `render/VulkanBackend` as an owner | device, swapchain, pipelines, mesh buffers, the features attempted | initialise, draw a frame, rebuild the swapchain, release, shut down, each with a call that fails | nothing busy is touched, nothing gone is used, nothing is lost | `VulkanResources`, `VulkanDriver` |
| `render/VulkanDirectionalShadowMap` | pass, casters, a map per frame slot, the resolution that failed | ensure, prepare, draw, shut down | maps are replaced only when no frame reads them | `ShadowMap` |
| `render/VulkanMaterialTextures` | images by content, their budget, sets by mesh, an upload in doubt, the reflections of a sky | register, release, prepare a frame, shut down | images are counted once, reflections are those of the frame's sky | `MaterialTextures` |
| `render/VulkanUiRenderer` | geometry buffers and retained textures per slot | initialise, prepare a frame, shut down | a texture outlives the frames that draw it | `UiRenderer` |
| `physics/RigidBodyWorld` | slots with generations, sensor pairs, pending exits, tick | initialize, create, remove, move, step | events alternate, no exit is lost, no tick is run twice | `RigidBodyWorld` |
| `core/ConfigRegistry`, `io/FileSystem` | entries, file stamps | watch, unwatch, poll | a changed file is noticed | `ConfigRegistry` |
| `ecs/World` | slots with generations, free list, component stores | create, destroy, add, remove | an id names one entity, components die with it | `EcsWorld` |
| `assets/AssetStreamer` | request queue and index | request, cancel, pop by budget | requests are merged, the best goes first | planned |
| `core/Application`, `FixedStep` | accumulator, frame counter, stop flag | run, advance | ticks follow time, catching up is bounded | planned |
| `platform/Input`, `InputAction` | buttons, edges | beginFrame, setButton, update | no edge is lost or seen twice | planned |
| `net/InterpolationBuffer` | that of its ring | sample at a tick, sample at a position | a sample lies on the motion of its neighbours | `InterpolationBuffer` |
| `animation` | base playback, transition, layers, pose, root motion | play, cross-fade, set and clear layers, seek, update | the pose is that of what plays, root motion adds up | `Skeleton`, `AnimationClip`, `AnimationRuntime` |
| `assets/GltfAnimationBridge` | none between calls | build a skeleton with clips, skin a mesh | joints and sockets are where the scene has them, skinning does not drift | `GltfAnimationBridge`, `AnimatedAsset` |
| `physics/CharacterController`, `PhysicsSystem` | colliders with velocities, motor state | step the motor (resolve, sweep), advance colliders | nobody falls through, passengers stay, jumps are earned, impacts are true | `CharacterWorld`, `CharacterMotor` |
| glTF file parsing, image decoding, JSON parsing, bit packing, shadow and camera maths, logging, window | none between calls, or forwarding | | pure functions of their input | not modelled |

How they meet: the game calls `Renderer`, which calls `VulkanBackend` outside
`beginFrame`; the GPU signals fences. `RigidBodyWorld::step` reads the colliders of
`PhysicsWorld` and returns events; the character motor asks the same colliders where
there is ground, and the game moves them between two of its steps. The importer turns
a glTF scene into a skeleton with clips, the runtime plays them, and skinning feeds the
poses that `MeshResources` delivers. `VulkanBackend` owns the shadow maps, material
textures and interface renderer and calls each of them once a frame, while other
frames are still in flight. `PredictionBuffer` keeps its frames in a
`SequenceBuffer`. `SequenceChannel` and the snapshot stores are tied together by a
transport that the repository describes (`docs/08_NETCODE.md`) and has not written
yet; the composing modules say so and mark the transport external.

## The modules, and how they correspond to the code

* `SequenceWindow` is the promise: a set of entries and the newest sequence, each
  operation a set expression. `SequenceBuffer` is the template as written, with
  slots at `sequence % Capacity`; a free slot's stale bytes are not modelled
  because every reader tests `occupied` first. `SequenceBuffer` implements
  `SequenceWindow` under the mapping `Content`.
* `InterpolationBuffer` is what is shown between two snapshots: both `sample` calls,
  each a walk over the ring in the order of its slots (`Found`, `FoundAround`), as the
  code's loops go. It adds no state; alpha is kept as a fraction of half ticks.
* `SequenceNumbers` has the arithmetic on the circle, modulo 2^32 in the code.
  `PacketChannel` is two `SequenceChannel`s and the network between them. The
  32 history bits are the set of distances whose bit is set. A header is made,
  then tracked and sent, or dropped when `encodePacket` refuses it; observing a
  packet and processing its acknowledgement are separate calls in the code and
  separate actions here. `network` never forgets, which makes loss, repetition
  and reordering behaviours of the same model.
* `PredictionBuffer` uses `SequenceWindow` as its container, as the code uses the
  ring. A state is a number and the error of a prediction a difference.
  `PredictedClient` adds the client and the server of the documentation.
* `SnapshotDelta` is the whole of `buildSnapshotDelta` and `applySnapshotDelta`,
  validation included, as functions on worlds (entity ids to a generation and
  components). `BaselineStore` is the bounded store. `SnapshotReplication` lets a
  server send deltas from acknowledged baselines over a bad network.
* `VulkanFrames` is the frame loop, with one primitive per mesh. `beginFrame` is two
  actions because the GPU runs while it waits for a fence; everything from the fence to
  the acquisition is one. The serial number of a frame is abstracted to the number of
  frames a retired buffer still has to wait for. Each new swapchain comes with a pipeline
  for meshes or without (`worldMeshPipeline`): that it could not be made is ignored, and
  without it no mesh is uploaded and none drawn in colour. The game makes no call while
  `beginFrame` waits (`Calling`): one thread does both. `MeshResources` adds the
  registry and its calls.
* `VulkanDriver` is the driver as seen by a validation layer: the objects that exist,
  the handles the program holds, what submitted work refers to, and the misuses so far.
  Every operation that may fail has a set of outcomes. `ShadowMap`, `UiRenderer` and
  `MaterialTextures` are the three owners written over it, in the order of the calls of
  the code, with their roll-backs; `VulkanResources` is the backend that initialises
  them, draws frames with them, rebuilds the swapchain and tears everything down, from
  any point where making them stopped. It does not repeat the fences of `VulkanFrames`:
  work is running until the code waits for it.
* `Skeleton` and `AnimationClip` are the values with their validation,
  `AnimationRuntime` the player with one action per public call,
  `GltfAnimationBridge` the importer's operators, refusals included, and
  `AnimatedAsset` a game that imports scenes, plays their clips and skins the mesh after
  each call into the output of the last. There is one axis: translations and scales are
  whole numbers, rotations half turns, which is enough for the order of transforms to
  matter. Weights are quarters.
* `CharacterWorld` has the queries of `PhysicsWorld` in one column: every collider over
  one rectangle, moving up and down. `CharacterMotor` is `stepCharacterMotor` as one
  action, in the order of the code: timers and crouch, ground before the move, jump,
  gravity, sweep, ground after the move, landing. The game steps and then advances the
  colliders, as the sandbox does (`EngineSandbox.cpp:558-572`). Lengths are whole
  millimetres, speeds millimetres per tick, parts of a sweep thousandths. Whoever is
  pushed out of a collider stands `beside` the column, where it still touches its edge
  (`horizontalCircleOverlapsAabb` has that tolerance). `press`, `lost` and `crest` are
  history: the age of the last unused press, how long ago support was lost if there was
  no jump since, and the height a fall began at.
* `RigidBodyWorld` takes the contacts of a tick and the failures of the solver as
  inputs. `synchronize` is two walks, over the slots (`Swept`, which removes stale
  bodies) and over the colliders in map order (`Synchronized`), the second of which may
  end half way. `events` is what a call returned, `open` what a listener of all events
  believes, `told` which bodies were given a target since the last tick.
* `ConfigRegistry` splits each call at the file accesses, so that another program
  may write in between: the stamp, the read, and the scan of each tracked file.
* `EcsWorld` keeps generations modulo a constant (2^32 in the code). A component's
  value is the entity it was added to, which is what the properties ask about.

Definitions whose comment begins with "Variant for" are faulty versions of another
definition. The specifications never use them; substituting one for the definition
it names must break the property `PROJECT.json` pairs it with.

## What each run checks

| Run | Bounds | What it shows |
|---|---|---|
| `MCSequenceBuffer` | 3 slots, sequences 0 to 7, 2 values | every order of stores, erases and clears; the window slides over each slot more than once. Refinement of `SequenceWindow`; samples at every half tick, with and without extrapolation, follow the motion, and both ways of sampling agree |
| `MCPacketChannel` | 12 sequence numbers from just before the wrap, window 2, ledger 3, a long and a short sender, the long one reset once at any moment | truth of acknowledgements until a reset, exact receive window, single acceptance |
| `MCPredictedClient` | 3 frames, 5 ticks, 3 states, 2 disturbances | the history holds what is pending and nothing else; the client shows the confirmed state plus the pending commands; it agrees in the end |
| `MCSnapshotReplication` | 4 snapshots of 4 worlds, ids across the wrap, stores of 2 | the client's snapshots are the server's; no baseline is ahead of the client; it becomes current |
| `MCMeshResources` | 1 dynamic mesh in 2 generations, 2 frames in flight, 3 poses, 2 resizes, 1 failed submission | no buffer is destroyed or written while it is read; stale slots are marked; destructions are finished as long as submissions succeed, and so are poses, those of a mesh that waits for its upload as long as there is a mesh pipeline |
| `MCMeshSemaphore` | 1 mesh | violation, the finding below |
| `MCVulkanResources` | 4 small games, 2 frames in flight, 2 meshes, 2 image contents, 2 skies, a budget of 4 images, 1 call that fails | objects in use, objects gone, objects lost, the image budget, reflections, features after a new swapchain |
| `MCAnimatedAsset` | 2 scenes that are accepted and 2 that are refused, 2 layer slots, frame times 1 and 3, a fade of 2, clips followed for 4 | poses, root motion, import, layer masks, skinning |
| `MCCharacterMotor` | ticks of 50 ms; a lift, a platform faster than a character can follow, a bridge, a gate that comes down, a lift under a beam, a platform that falls away | jumps, fast falls, passengers, impacts |
| `MCRigidBodyWorld` | 3 bodies, 2 events, 3 ticks, 2 worlds, 4 other calls | the event stream, no tick twice, kinematic targets |
| `MCConfigRegistry` | 2 names over 2 files, 3 writes, 3 calls | stale documents are noticed and become fresh |
| `MCEcsWorld` | 2 slots, 2 component types, 3 generations, 7 entities | free list, components, stale ids across the wrap of the generations |

Why the bounds are enough to be interesting: each ring, window, ledger and store is
smaller than the number of items that pass through it, so everything is overwritten or
expired at least once; each modulus is wrapped; each slot is reused; there is at least
one failure of each kind the code handles, at any moment. The counters that would run
for ever (`MaxRefusals`, `MaxTravel`, `MaxSends`, `MaxTick`, `MaxSnapshots`, `MaxCalls`,
`MaxWrites`, `MaxBirths`, `MaxGeneration`, `MaxResizes`, ...) are bounded in the guards
of the actions and named with the constants; where such a bound really stops a model,
the configuration switches the deadlock check off. `CHECK_DEADLOCK FALSE` says nothing
else. The owners of Vulkan objects and the motor run without bounds other than the
failures and the ranges of the colliders, and never stop.

The games of `MCVulkanResources` and the worlds of `MCCharacterMotor` are chosen in the
initial state, because together they would multiply and no two of them meet: each brings
one conflict (two meshes that share an image; reflections that must be made again;
interface textures and shadow maps that change size), with one failure at any call. The
motor runs with the numbers of `CharacterMotorConfig` in millimetres per tick at 20 Hz
(gravity 60, jump 360, snap 360, step 420), so that a fall passes more than a collider's
thickness in a tick, and lifts of 2.4 and 8 metres per second are one that a character
can follow and one it cannot.

Two limits are stated as conditions because the code does not keep the property
beyond them. With the largest 64-bit sequence number stored,
`SequenceBuffer::windowFloor` overflows to 0 and nothing expires, so
`LiveEntriesInWindow` (the theorem `WindowRespected`), the refinement and their runs
leave that number out (`MaxSequence \notin Sequences`); no caller reaches it. And
`FileChangeTracker` keeps one stamp for a file: a second name watching the same
file, or unwatching it, loses a change the first has not been told of. The model
does the same; `StaleIsNoticed` and `EventuallyFresh` are claimed of files that
never had two names at one time (`shared`).

## Fairness

* `FairSpec` of `SnapshotReplication`: both ends send again and again and a message
  sent again and again is not lost for ever. Without it nothing can be promised of
  any transport.
* `FairWorldSpec` of `PredictedClient`: both loops tick, a replay that was begun is
  finished (it is a loop in one call), and the last update arrives.
* `FairGameSpec` of `MeshResources`: the loop calls `beginFrame` and `endFrame`, the
  GPU finishes what was submitted, and for each frame slot an acquisition and a
  submission succeed infinitely often if they are tried infinitely often. That is
  strong fairness, per slot, since the presentation engine may answer otherwise in
  between. Nothing is assumed of the window; a backend that gave up (`ready`
  false) or waits for the fence of a failed submission is excluded in the conclusions
  (`Ended`). Nor is anything assumed of the mesh pipeline: while there is none, a mesh
  that waits for its upload is owed nothing (`Stranded`), and everything again once a
  swapchain came with one.
* `FairConfigSpec` of `ConfigRegistry`: the game polls every frame and finishes each poll.

## What is proved

Every theorem holds for all values of the constants that satisfy the named
assumptions.

* `Network_proofs`, the ring of `SequenceBuffer` (`RingTypeCorrect`, `SizeCorrect`,
  `WindowRespected`, `RingImplementsWindow`, `SamplesLieOnTheMotion`). The inductive
  invariant `IInv` says that a slot holds only a sequence that hashes to it, that the
  newest sequence bounds the live ones and that the size counts the occupied slots.
  `WindowRespected` needs the first part: two live entries closer than the capacity cannot
  share a slot. The refinement goes operation by operation from the lemma `VacateEffect`,
  which says what clearing a set of slots does to size and content. `SizeCorrect` and
  `WindowRespected` are proved only; the run looks at what follows from them.
  `SamplesLieOnTheMotion` is about loops: what either walk has found after n slots are the
  nearest neighbours, and the two newest, among the entries of those n slots, whatever
  order they lie in. From that at `Capacity` each case of the two `sample` calls is
  compared with where the motion should be. It assumes, as `WindowRespected` does, that
  the largest sequence number is not used.
* `Network_proofs`, channel: `AcknowledgementsAreTrue` (until an end is reset) rests on
  an invariant that follows a sequence from the ledger to the datagram, into the peer's
  window and back: whatever any acknowledgement in any datagram names was accepted by
  its sender (`AckInv`). `TrackerTellsTheTruth` and `PacketsAcceptedOnce` (resets
  included) rest on `TrackerInv`: the window *summarises* the set of accepted sequences,
  which by `SessionInv` all lie within half the circle after the first one of the
  session, so that the circular order is the order of sending. `SummaryOfNewest`,
  `SummaryOfLate` and `SummaryOfFirst` say that observing a packet keeps the summary in
  each of the three cases.
* `Network_proofs`, snapshots (`DeltaReconstructs`, `ClientsMirrorTheServer`,
  `BaselinesAreShared`). Applying the delta between two snapshots to the first gives the
  second, for any set of entities and components within the limits; that is a theorem
  about the operators, without behaviour. `ClientsMirrorTheServer` rests on it: every
  message is a snapshot taken or the delta between two, every store holds nothing else
  (`MirrorInv`), and two snapshots taken under one id are the same (`IdsDiffer`, while
  no id is used twice), so the baseline the client finds under a delta's id is the one
  the server built it on. `BaselinesAreShared` follows an acknowledged id back
  (`SharedInv`): it is that of a snapshot the client held, and from then on the client
  holds that one or a later one, since its store drops the oldest (`Passed`). Newer is
  decided on the circle of ids, so the hypothesis is that the snapshots of the behaviour
  span at most half of it (`MaxSnapshots <= HalfRange + 1`; 2^31 in the code).
* `CoreState_proofs`, client (`HistoryStaysOneWindow`, `HistoryStaysPending`,
  `ClientsShowConfirmedPlusPending`). The first is a lemma about the buffer alone, proved
  only: its newest tick is that of its container and every frame lies within `Capacity`
  ticks of it, whatever the order of calls. It says nothing of the acknowledged
  tick, and could not: `record` takes the newest tick again after its acknowledgement.
  What ties the frames to the acknowledged tick is `HistoryStaysPending`, for a client that carries out each plan
  before it takes the next update: all frames are of later ticks, with the commands sent
  for them, and none is missing after the oldest (`PendingInv`; what a plan has still to
  record are those ticks, each with its own command). For the third the invariant
  `ShownInv` names how far a replay has got: up to some tick r the client's state and the frames it holds are those of the newest
  confirmed state followed by the commands sent, and every later tick is waiting to be
  replayed, once and with its own command. What is expected is a recursive function over
  ticks: two that start alike and take the same steps are one (`OutcomeIsUnique`). The
  theorem assumes `CorrectionThreshold = 0`: with a greater threshold the client is
  allowed to show a state that differs by that much, and the run uses 0 too.
* `CoreState_proofs`, entities and files (`FreeListStaysExact`,
  `ComponentsStayWithTheirEntity`, `StaleIdsNeverRevive`, `StaleDocumentsAreNoticed`). Of
  the entity world the first
  two are inductive together with the types: the slot given away was on the free list,
  hence dead, hence without components. The third needs `SerialInv`: the c-th owner of a
  slot has generation c modulo the number of generations, and a dead slot already
  carries its next owner's. Two owners under one generation are then whole rounds apart
  (`RoundsApart`). The last is about the registry, with the hypothesis that no file is
  removed: an absent file has stamp 0 again and again. Its invariant follows a stale
  document through the phases of a poll: its file shows a stamp not seen yet, or its
  path is among the changed ones, or its name is about to be read (`Noticed`); stamps
  only grow, and unshared files stay tracked (`AllFollow`).
* `MeshResources_proofs` (`DrawnIsNeverDestroyed`, `BusySlotsStayUntouched`,
  `NoSlotForgetsAPose`, the three safety properties of the frame loop). The invariant
  counts frames. A slot that is in flight comes round again after `Distance(slot)` more
  submissions, and what its command buffer draws is resident or deferred for more than
  that (`Kept`, `AgesInv`); the frame being recorded is as far as it can be, which is
  why a release waits one frame more than there are slots. Every submission takes one
  off both numbers (`DistanceShrinks`). The rest of `IInv` is what keeps a mesh resident
  until it is released: a mesh is queued for upload once and only while it is pending
  (`UploadsInv`), and a slot is in flight once and not while its fence is signaled
  (`OrderInv`). There is at least one slot (`FramesAssumption`); nothing else is assumed
  of their number, of the bounds of the run or of the answers of the device. That no
  slot is written under a reader follows from `OrderInv`: what a frame writes is the
  slot it has just waited for. That no pose is forgotten needs `PosesInv`: an update
  carries the newest pose, and while its mesh is not uploaded every slot of it is dirty,
  so that a failed upload discards it whole and a mesh registered again starts clean.

* `VulkanParts_proofs` (`ReflectionsHold`): a frame drawn with reflections shows
  those of its own sky. Most of the proof is that the steps in between - uploads,
  retirements, meshes that go, pipelines, swapchains, calls that fail - change nothing
  that decides about reflections (`Alike`, `SameReflections`); the invariant (`RInv`)
  says that what the set was written for is what the images show and what the gate has
  on record. Loops over sequences of any length are folds of one named step (`Stage`),
  with one lemma for what every step keeps (`RunKeeps`).
* `VulkanParts_proofs` and `VulkanResources_proofs`, ownership (`BusyObjectsAreLeftAlone`,
  `OnlyLivingObjectsAreUsed`, `EveryObjectHasItsHandle`, `ImagesMatchTheBudget`): for any
  number of frames in flight, swapchain images, meshes, maps and textures, any budget, any
  requests for frames, and with every call that may fail failing at any moment. The
  properties look at what the driver has seen so far, so none of them is inductive. The
  invariant `KInv` says why no call can go wrong:
  * The driver is clean (`Clean`): what exists is what the program holds, and what
    submitted work uses is among it.
  * Every part owns what its state says and nothing else of its kinds (`ShadowsOwn`,
    `UiHolds`, `MatOwns`, `MeshesHold`, `AssetsHold`, `PipelinesHold`, together `Owned`).
    A flag such as `coreReady`, a set of retained textures, an upload in doubt or a budget
    is thereby tied to objects. The kinds of the parts are disjoint, so a call of one part
    cannot disturb another (`Becomes`). A list of creations that is broken off
    anywhere leaves a part of what it would make (`Adds`, `TryEachMakes`), and the
    roll-back of the code, or the next attempt, is shown to deal with every such part.
  * The backend is `Dressed` with swapchain and pipelines, or `Undressed` and switched
    off. `create` goes through states that are neither; each is at `Rests`, from which the
    code's undoing leads back to nothing (`UndoneKeeps`).
  * What the work of a frame slot uses outlives it (`WorksStay`): memory is the slot's own,
    textures are retained for the slot, meshes with their materials and images are resident
    or retired for longer than the slot's turn is away (`Distance`, `InUse`). This is where
    the wait of `FramesInFlight + 1` frames comes in again.
  * The work recorded for a frame consists of such objects (`FrameInv`), because what a
    frame is marked with is there (`FrameReady`): pipelines and sets for shadows,
    materials and reflections exist if they are in `prepared`.

  `ImagesMatchTheBudget` is the part `Stock` of it: images are counted once, also while a
  copy that was not confirmed keeps one pending. There is at least one frame in flight and
  one swapchain image, there are finitely many meshes and default textures, and draw data
  with commands has vertices; nothing else is assumed.
* `RigidBodyWorld_proofs` (`ListenersAreUpToDate`, `TicksRunOnce`, `PairsAlternate`,
  `KinematicsFollowOrders`: all properties of its run). The invariant `RigidInv` has
  three parts besides types: what a listener believes is what the world remembers and
  the exits it still owes (`Listening`), a body glides in the next tick exactly if it
  was told to (`Steerable`), and the exits owed fit into the buffer (`OpenFits`). The
  last is a counting argument: every exit owed ends a pair the listener believes open,
  each of them once, and after every tick those are within the limit. `synchronize`
  removes and creates bodies in two walks; each part is first shown to survive one
  `Removed` and one `Created`, then the walks.

* `CharacterMotor_proofs` (`JumpsAreAlwaysEarned`, `NobodyFallsThrough`), for any
  column of colliders and any speeds, heights and times (`GamesAssumption`,
  `MotorConstants`). `MotorInv` says what is left of a press (`PressInv`: its time less
  its age, until a jump uses it), that the clocks of standing agree with the ground
  (`ClockInv`) and that the colliders keep their kinds and ranges. A jump is then
  compared with what the first look for ground found: `Resolution` says what a look
  for ground finds and where it puts the feet. The theorem leaves open whether a jump
  is accepted shortly after support was lost, where code and documents differ. `NobodyFallsThrough` goes through a step
  stage by stage: each look for ground (`StaysAbove`), each part of a sweep
  (`AdvancedAbove`: the earliest hit is no later than that of any ground below the feet,
  and a part of a way rounded to whole millimetres does not pass it), hence the whole
  sweep (`SweepFacts`). Its hypothesis is that the column has no ramps and slides: they
  are snapped onto from farther above (`rampRise`), past a ground in between.

* `AnimatedAsset_proofs` (`PosesAreCurrent`, `RootMotionAddsUp`,
  `SkinningStartsAfresh`, `LayersMoveWhatIsUnderThem`, `PosesFollowTheScene`), for any
  scenes, clips, wishes of the game and frame times.
  `PosesAreCurrent` needs to know that whatever plays suits the skeleton (`Fits`). Then
  the steps that change what plays without building a pose change no sample: a fade of
  weight zero is the clip it leaves (`FadeEnds`), a finished one is its target, and a
  clock brought back into its clip shows the same key (`CompactedShape`).
  `RootMotionAddsUp` is algebra: motions are a group, `Power` is the multiple its
  squarings stand for (`PowerIsTimes`), the way of a loop is the same after whole turns
  but for those turns (`ExtendedShifts`), and the clock and what was counted differ by
  whole turns (`InStep`). Of a clip that is held at its end the same holds because a
  clock never lies beyond the end it starts from (`Onward`): otherwise a clip played
  backwards from after its end, brought back to the end between two frames, would move
  more than was counted.
  `SkinningStartsAfresh` says that the mesh handed in is empty or differs from the
  source only where skinning writes (`MeshFits`).
  `LayersMoveWhatIsUnderThem` says that a layer moves exactly the joints whose node
  lies at or under the layer's root in the glTF scene, although the skeleton leaves
  nodes out and orders the others anew. Its steps: a walk up the scene ends at a root or
  turns in a circle, for it is longer than the scene has nodes and then some node is in
  it twice (`Crowded`), so no parent is missing from it (`AncestryClosed`); hence the
  posed nodes hold every ancestor of theirs, without repetition, behind the palette
  (`PosedNodesFacts`); hence a joint's parent is the joint of its node's parent
  (`BuiltBody`), and the walk up the skeleton goes together with the one up the scene
  (`WalksTogether`, `MaskFollowsTheScene`). Then the pose is compared with the layers
  one by one (`LayersLieOver`), and every layer is shown to have been put on with the
  mask of its root (`Dressed`).
  `PosesFollowTheScene` says that the skeleton, with a clip that plays alone, puts every
  joint and every bound socket where the glTF scene has its node. A joint is sampled as
  its node would be (`SampledAsScene`): the clip has one track for every posed node that
  the animation moves and none for others (`BuiltTracks`). The product along a walk up
  the scene is the parent's times the node's own matrix, because products associate
  (`SceneUp`, `Products`), so the matrices of the scene satisfy the recursion of
  `evaluateGlobalPose`; and since every walk up a valid skeleton ends, that recursion has
  one solution (`OneGlobalPose`). A socket that is posed hangs on its own joint with no
  transform. One that is not is moved by no animation, has a posed parent
  (`PosedNodesFacts`) and keeps its own transform (`SocketFollows`): that is why an
  animated socket has to be posed itself.
  What the import makes of the channels of a scene is not proved but assumed in
  `GameAssumption`, which TLC evaluates for the scenes of the run: keys and bind
  transforms are values of the one axis (`OnAxis`). Scenes are lists of nodes with
  numbers from 0 on and of animations (`IsScene`), and the game puts layers on joints there are.

The walks, the parts of a sweep, and what is expected of a client, are recursive
functions over data of any size. What is proved of all their stages is proved without an
induction rule: if some stage failed there would be a least one (the library's
`SmallestExists` and `LeastNumber`, facts about natural numbers without an operator
parameter), and the stage before it gives the contradiction. That a recursive function
exists at all is shown the same way, before its definition is unfolded. A fold of the
library is such a function on the sets of indices; `FoldExists` and `FoldGathers` turn
it into one that gathers index by index.

The constants are assumed to be what the code's types say and nothing more, in the
module that declares them: capacities are positive (`StoresAssumption`), ticks and
commands are natural numbers and there are finitely many states (`WorldAssumption`),
`Order` lists the names (`NamesAssumption`). Where a theorem needs more, it is a
hypothesis of the theorem, named above.

Only model checked: liveness everywhere and what depends on `ENABLED` (out of TLAPS'
reach); `PassengersStayAboard` and `HardLandingsAreHighFalls`, which are true of the
speeds of the run and not of all (a ground too fast for the adhesion, gravity that does
not divide a fall); and `FeaturesComeBack`, which is true only if the budget has room
for the default textures. The code sees to that (a budget is a quarter of the heap, up to
1 GiB, `VulkanMaterialTextures.cpp:651`); the theorems above need no such assumption.

## Finding

`VulkanBackend::beginFrame` treats `VK_SUBOPTIMAL_KHR` as if no image had been
acquired. The slot's semaphore stays signaled and is passed to the next
acquisition, which Vulkan forbids (`MCMeshSemaphore`).

## Differences from the documents

What follows is modelled as the code does it and has no run of its own; what is said of
the motor was also seen by running it.

* A swapchain that cannot be recreated once, for instance while the window is
  minimised, ends rendering for good (`VulkanBackend.cpp:3640`);
  `docs/02_RENDERER_VULKAN.md:228` lists "Resume rendering".
* A configuration reload that fails hides the valid document that was loaded
  (`ConfigRegistry.cpp:76`, `docs/13_TESTING_ACCEPTANCE.md:70`). A file rewritten with
  the same size and time is not noticed.
* A mesh pipeline that cannot be made is not noticed (`VulkanBackend.cpp:3606`): the
  backend stays ready, `processMeshUploadQueue` returns at once (`:2822`), and a pose for
  a mesh still in the queue is tried again every frame and never arrives (`:2756`), until
  another swapchain brings the pipeline. `PosesReachEverySlot` excepts those meshes.
* Coyote time accepts no jump later than the tick in which support is lost: that tick
  leaves `groundedSeconds` at 0 and the state not grounded, so `hasGroundHistory` is
  false in the next one (`PhysicsSystem.cpp:309`, `:444`).
  `tests/physics_kcc_tests.cpp:286` asks for such a jump, and tests it with a state made
  by hand that no step leaves behind; `docs/13_TESTING_ACCEPTANCE.md:38` and
  `docs/PROJECT_STATUS.md:5` list it. `JumpsAreEarned` allows the jump and does not demand
  it, so it decides nothing here. It would not allow the condition on `groundedSeconds`
  to be dropped and nothing else: `timeSinceGrounded` as a jump sets it (`:323`) is
  overwritten at the end of the tick (`:445`), and a second press could jump in the air.
* A character that falls beside or under a ground collider whose top is above its feet
  hovers: the sweep takes a surface above the feet as crossed at fraction 0
  (`CharacterController.cpp:1022`). `NoTunnelling` holds all the same.
* Landing by sweep on a lift that sinks stops the character at where the top will be,
  which is inside the lift until the colliders advance; the next look at the sides
  pushes it to the edge. `NoTunnelling` therefore speaks of colliders that do not sink.
  It needs a fall faster than the snap distance in a tick.
* A landing by the snap on a rising platform reports the platform's speed as impact.
  A ground lower than the floor takes the floor's place (`resolveGroundSurfaces`). A
  jump blocked at once by a ceiling ends on the ground with `jumped` set. Standing up
  below a ceiling is never refused: nothing sets `crouchBlocked`.
* Passengers of a ground that moves farther in a tick than the step or the snap are
  lost; `PassengersStayAboard` is claimed of slower ones.
* `AnimationRuntime::play` and `setLayer` report an error but keep the changed playback
  when the pose cannot be rebuilt; a negative update leaves the old root motion, a
  failing one still advances the clocks. A valid clip can fail while it is sampled,
  when the sign of a scale changes. "No animation clip targets joints" is only
  reported when every clip is invalid, since a clip without tracks is valid.
* `--fail-fast` does nothing in the sandbox's movement replay.

## What is not modelled, and why

* Wire formats, checksums and bit packing are abstracted to the value they carry; a
  datagram that does not decode is a lost one. `BitStream`, `Loopback`, `Client` and
  `Server` forward or count.
* Of Vulkan: the choice of a device, the contents of pipelines and shaders, the pixels
  of generated skies, culling, light matrices. Waits whose result the code ignores
  (`endSingleTimeCommands`, the clean-up of an interface upload, `vkDeviceWaitIdle`
  before a new swapchain and in `shutdown`) are taken to have worked;
  `VK_ERROR_DEVICE_LOST` while an upload is confirmed is left out; every mesh has one
  primitive and every frame draws the sky, the boxes and the debug shapes. There
  (`VulkanResources`) the uploads of one frame are taken together: their limit of 32 is
  never reached. After three failed waits in teardown the code
  calls `std::terminate`, and so the model has no successor there.
* Of animation: space (one axis, half turns, so that a rotation is blended only at full
  weight), floating point (a value that is not finite is one that is no integer),
  errors of single primitives in `skinGltfMesh`, which are only reported. Made-up joint
  names are distinct from authored ones; in the code an authored `joint_3` may collide.
  Clips are not changed after they were validated.
* Of the character: walking, slopes (ramps are flat), side hits of a sweep and steps
  during one, which need a way along the ground; wall and mantle probes; the bounds of
  the world; telemetry and its hashes; the replay of `MovementSimulation`, which folds
  the motor over a list of inputs. Timers stop counting where no test tells them apart.
* Of rigid bodies: poses, impulses, tags, queries; contacts and failures are inputs.
* glTF files, images, JSON and metadata are parsed in one call without state; geometry
  and camera maths are floating-point functions; logging and the window forward.
  `AssetStreamer`, `FixedStep`, `Application` and `Input` keep little state and are used
  by one thread without order to get wrong beyond their own calls; they are next in the
  plan. `InterpolationBuffer` divides exactly here: rounding of alpha is left out.
* File writes are atomic and change size or time. Numbers are bounded only where their
  width matters (sequence numbers, generations).

`PROJECT.json` lists every component with its status, and under `hazards` what was
looked for.

## Plan

Done: the network core, the frame loop with its meshes, the owners of Vulkan objects,
animation from import to skinning, the character motor, rigid bodies, configuration
reload and the entity world. What is left, in this order:

1. Proofs: `FeaturesComeBack` for a budget with room for the defaults, and
   `PassengersStayAboard` with the speeds it needs as a hypothesis.
2. `AssetStreamer` (merged requests, what popping returns), `FixedStep` and
   `Application` (bounded catch-up), `Input` (edges over frames).
3. A character that walks, with one horizontal axis: steps and walls during a sweep.
4. Refinements: the entity world and the mesh registry each implement one allocator of
   handles that are issued once.
