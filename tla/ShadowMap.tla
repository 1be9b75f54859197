----------------------------- MODULE ShadowMap ------------------------------
(***************************************************************************)
(* render/VulkanDirectionalShadowMap.cpp: the light's depth pass and the   *)
(* shadow maps, one per frame slot, made when a frame first asks for       *)
(* shadows and made anew for another resolution.  The state `s` is the     *)
(* part of Impl that decides what happens; the Vulkan handles are the      *)
(* driver's `held`.                                                        *)
(***************************************************************************)
EXTENDS VulkanDriver

DepthPass == <<"shadow pass", 0>>
ReceiverLayout == <<"shadow receiver layout", 0>>
CasterLayout == <<"shadow caster layout", 0>>
ShadowSampler == <<"shadow sampler", 0>>
CasterShader == <<"shadow shader", 0>>
MeshCaster == <<"shadow mesh pipeline", 0>>
BoxCaster == <<"shadow box pipeline", 0>>
MapPool == <<"shadow pool", 0>>
MapImage(slot) == <<"shadow image", slot>>
MapMemory(slot) == <<"shadow image memory", slot>>
MapView(slot) == <<"shadow view", slot>>
MapTarget(slot) == <<"shadow framebuffer", slot>>
MapUniforms(slot) == <<"shadow uniforms", slot>>
MapUniformMemory(slot) == <<"shadow uniform memory", slot>>
MapSet(slot) == <<"shadow descriptor", slot>>

(* Impl::Slot without the descriptor set, which belongs to the pool.       *)
SlotObjects(slot) ==
  {MapTarget(slot), MapView(slot), MapImage(slot), MapMemory(slot), MapUniforms(slot),
   MapUniformMemory(slot)}
MapSets == {MapSet(slot) : slot \in FrameSlots}
CoreObjects == {MeshCaster, BoxCaster, CasterLayout, ShadowSampler, ReceiverLayout, DepthPass}

(* Impl as constructed: no device.  The resolution 0 stands for no maps.   *)
NoShadows ==
  [device |-> FALSE, attemptedCore |-> FALSE, coreReady |-> FALSE,
   resolution |-> 0, failedResolution |-> 0]

(* create *)
ShadowsCreated(s) == [s EXCEPT !.device = TRUE]

(* destroyMaps *)
DestroyMaps(d) ==
  Forget(Destroy(DestroyPool(d, MapPool, MapSets), UNION {SlotObjects(t) : t \in FrameSlots}), MapSets)

-----------------------------------------------------------------------------
(* The depth pass, its layouts and the two caster pipelines, attempted     *)
(* once per creation.                                                      *)

CreatePass(d) == Try(d, <<Call({}), Make(DepthPass, {})>>)

CreateLayouts(d) ==
  Try(d, <<Make(ReceiverLayout, {}), Make(CasterLayout, {}), Make(ShadowSampler, {})>>)

(* createPipeline: the shader module goes whether or not it succeeds.      *)
CreateCaster(d, pipeline) ==
  Finally(Try(d, <<Make(CasterShader, {}), Make(pipeline, {CasterShader, CasterLayout, DepthPass})>>),
          {CasterShader})

CreateCoreOnce(s, d) ==
  IF s.attemptedCore THEN Returns(d, s.coreReady)
  ELSE AndThen(AndThen(AndThen(CreatePass(d), CreateLayouts),
                       LAMBDA e : CreateCaster(e, MeshCaster)),
               LAMBDA e : CreateCaster(e, BoxCaster))

(* createMaps *)
SlotCalls(slot) ==
  <<Make(MapImage(slot), {}), Make(MapMemory(slot), {}),
    Make(MapView(slot), {MapImage(slot)}), Make(MapTarget(slot), {DepthPass, MapView(slot)}),
    Make(MapUniforms(slot), {}), Make(MapUniformMemory(slot), {}), Call({MapUniformMemory(slot)}),
    Make(MapSet(slot), {MapPool, ReceiverLayout, ShadowSampler})>>

CreateMaps(d) ==
  AndThen(Try(d, <<Make(MapPool, {})>>),
          LAMBDA e : TryEach(e, [n \in 1 .. FramesInFlight |-> SlotCalls(n - 1)]))

-----------------------------------------------------------------------------
(* The maps of every slot are replaced once the device is idle, and none   *)
(* is left when one cannot be made.                                        *)
Resized(s, d, resolution) ==
  UNION {IF ~ w.ok THEN {[d |-> w.d, s |-> s, ok |-> FALSE]}
         ELSE {[d |-> IF m.ok THEN m.d ELSE DestroyMaps(m.d), ok |-> m.ok,
                s |-> [s EXCEPT !.resolution = IF m.ok THEN resolution ELSE 0,
                                !.failedResolution = IF m.ok THEN 0 ELSE resolution]] :
                 m \in CreateMaps(DestroyMaps(w.d))} :
         w \in WaitIdle(d)}

(* A resolution that failed is not tried again before another one worked.  *)
MapsFor(s, d, resolution) ==
  IF s.resolution = resolution THEN {[d |-> d, s |-> s, ok |-> TRUE]}
  ELSE IF s.failedResolution = resolution THEN {[d |-> d, s |-> s, ok |-> FALSE]}
  ELSE Resized(s, d, resolution)

(* The slot's uniforms are written through the persistent mapping.         *)
WriteUniforms(o, slot) ==
  IF o.ok THEN [o EXCEPT !.d = Rewrite(@, {MapUniformMemory(slot)})] ELSE o

(* prepare, for a frame that asks for shadows of this resolution; 0 stands *)
(* for a frame without shadows, or with settings that are not valid.       *)
PrepareMaps(s, d, slot, resolution) ==
  IF resolution = 0 \/ ~ s.device THEN {[d |-> d, s |-> s, ok |-> FALSE]}
  ELSE UNION {LET tried == [s EXCEPT !.attemptedCore = TRUE, !.coreReady = c.ok]
              IN  IF c.ok THEN {WriteUniforms(o, slot) : o \in MapsFor(tried, c.d, resolution)}
                  ELSE {[d |-> c.d, s |-> tried, ok |-> FALSE]} :
              c \in CreateCoreOnce(s, d)}

(* begin, drawMesh, drawBox and bindReceiver: what a command buffer with a *)
(* shadow pass refers to.                                                  *)
ShadowWork(slot) ==
  SlotObjects(slot) \cup {DepthPass, MeshCaster, BoxCaster, CasterLayout, MapSet(slot), ShadowSampler}

(* shutdown: everything is destroyed and Impl is as constructed.           *)
DestroyShadows(s, d) ==
  IF s.device THEN Forget(Destroy(DestroyMaps(d), CoreObjects), CoreObjects) ELSE d
=============================================================================
