----------------------------- MODULE UiRenderer -----------------------------
(***************************************************************************)
(* render/VulkanUiRenderer.cpp: the pipeline for the game's own interface, *)
(* a pair of geometry buffers per frame slot, and the textures uploaded    *)
(* for it.  A texture stays as long as somebody holds its source: the game *)
(* (`shown`), or a frame slot that drew it and has not been prepared since *)
(* (`retained`).                                                           *)
(***************************************************************************)
EXTENDS VulkanDriver

CONSTANTS
  Sources,          (* the game's UiTextures                               *)
  White             (* the texture of a draw without one; never expires    *)

ASSUME SourcesAssumption == White \notin Sources

UiSetLayout == <<"ui set layout", 0>>
UiDescriptors == <<"ui descriptors", 0>>
UiSampler == <<"ui sampler", 0>>
UiLayout == <<"ui layout", 0>>
UiPipeline == <<"ui pipeline", 0>>
UiVertexShader == <<"ui vertex shader", 0>>
UiFragmentShader == <<"ui fragment shader", 0>>
Buffer(name, slot) == <<name, slot>>
Memory(name, slot) == <<name, slot, "memory">>
Geometry == {"ui vertices", "ui indices"}
GeometryOf(slot) ==
  {Buffer(name, slot) : name \in Geometry} \cup {Memory(name, slot) : name \in Geometry}
GeometryObjects == UNION {GeometryOf(slot) : slot \in FrameSlots}

Staging == Buffer("ui staging", 0)
StagingMemory == Memory("ui staging", 0)
UploadCommand == <<"ui upload command", 0>>
StagingParts == {UploadCommand, Staging, StagingMemory}
TextureImage(t) == <<"ui image", t>>
TextureMemory(t) == <<"ui image memory", t>>
TextureView(t) == <<"ui view", t>>
TextureSet(t) == <<"ui set", t>>
TextureObjects(t) == {TextureSet(t), TextureView(t), TextureImage(t), TextureMemory(t)}
PipelineObjects == {UiPipeline, UiLayout, UiSampler, UiDescriptors, UiSetLayout}

(* Impl: the sources with a texture, and of each frame slot the sources it *)
(* retains, how much its buffers take, and whether it can be recorded.     *)
NoUi ==
  [device |-> FALSE, textures |-> {},
   retained |-> [slot \in FrameSlots |-> {}], ready |-> [slot \in FrameSlots |-> FALSE],
   capacity |-> [slot \in FrameSlots |-> [name \in Geometry |-> 0]]]

(* shutdown: geometry and textures, then what they were made from.         *)
DestroyUi(u, d) ==
  IF u.device
  THEN Destroy(Destroy(d, GeometryObjects \cup UNION {TextureObjects(t) : t \in u.textures}),
               PipelineObjects)
  ELSE d

(* create: shut down first, and shut down what a failure leaves behind.    *)
UiCalls(pass) ==
  <<Make(UiSetLayout, {}), Make(UiDescriptors, {}), Make(UiSampler, {}),
    Make(UiLayout, {UiSetLayout}), Make(UiVertexShader, {}), Make(UiFragmentShader, {}),
    Make(UiPipeline, {UiVertexShader, UiFragmentShader, UiLayout, pass})>>

UiCreated == [NoUi EXCEPT !.device = TRUE]

CreateUi(u, d, pass) ==
  {[d |-> IF o.ok THEN o.d ELSE DestroyUi(UiCreated, o.d), ok |-> o.ok,
    u |-> IF o.ok THEN UiCreated ELSE NoUi] :
     o \in Finally(Try(DestroyUi(u, d), UiCalls(pass)), {UiVertexShader, UiFragmentShader})}

-----------------------------------------------------------------------------
(* The buffer of resize, when the contents are larger: the old buffer goes *)
(* first.  A failure leaves what was made.                                 *)
BufferCalls(name, slot) ==
  <<Make(Buffer(name, slot), {}), Make(Memory(name, slot), {}), Call({Memory(name, slot)})>>

Resize(d, name, slot) ==
  Try(Destroy(d, {Buffer(name, slot), Memory(name, slot)}), BufferCalls(name, slot))

(* write: map, copy, unmap.                                                *)
Write(name, slot) == Fill(Memory(name, slot))

(* Variant for Grown: the capacity outlives the buffer.                    *)
GrownKeepingCapacity(o, slot, name, size) ==
  IF ~ o.ok \/ size <= o.u.capacity[slot][name] THEN {o}
  ELSE {[d |-> r.d, ok |-> r.ok,
         u |-> IF r.ok THEN [o.u EXCEPT !.capacity[slot][name] = size] ELSE o.u] :
          r \in Resize(o.d, name, slot)}

(* resize; the capacity is 0 until a new buffer is complete.               *)
Grown(o, slot, name, size) ==
  IF ~ o.ok \/ size <= o.u.capacity[slot][name] THEN {o}
  ELSE {[d |-> r.d, ok |-> r.ok,
         u |-> [o.u EXCEPT !.capacity[slot][name] = IF r.ok THEN size ELSE 0]] :
          r \in Resize(o.d, name, slot)}

(* The slot's buffers, grown where they must be and filled.                *)
Written(o, slot) ==
  IF o.ok
  THEN {[d |-> w.d, u |-> o.u, ok |-> w.ok] :
          w \in Try(o.d, <<Write("ui vertices", slot), Write("ui indices", slot)>>)}
  ELSE {o}

WriteGeometry(u, d, slot, size) ==
  UNION {UNION {Written(i, slot) : i \in Grown(v, slot, "ui indices", size)} :
         v \in Grown([d |-> d, u |-> u, ok |-> TRUE], slot, "ui vertices", size)}

(* The copy is submitted and waited for.                                   *)
CopyTexture(d, t) ==
  WaitIdle(Submit(d, OneTime, StagingParts \cup {TextureImage(t), TextureMemory(t)}))

(* Variant for Cleaned: the view stays.                                    *)
CleanedLeavingView(d, t) ==
  Destroy(IF d.work[OneTime] # {} THEN IgnoredWait(d) ELSE d,
          StagingParts \cup (TextureObjects(t) \ {TextureView(t)}))

(* The handler of upload: a submitted copy is waited for once more, the    *)
(* answer ignored, before what it uses is destroyed.                       *)
Cleaned(d, t) ==
  Destroy(IF d.work[OneTime] # {} THEN IgnoredWait(d) ELSE d, StagingParts \cup TextureObjects(t))

(* upload, of a source without a texture: staging, image, copy, view, set. *)
TextureCalls(t) ==
  <<BufferCalls("ui staging", 0),
    <<Write("ui staging", 0), Make(TextureImage(t), {}), Make(TextureMemory(t), {}), Call({TextureMemory(t)})>>,
    <<Make(UploadCommand, {}), Call({UploadCommand})>>>>

Bind(d, t) ==
  Try(Destroy(d, StagingParts),
      <<Make(TextureView(t), {TextureImage(t)}), Make(TextureSet(t), {UiDescriptors, UiSetLayout, UiSampler})>>)

Upload(d, t) ==
  {IF o.ok THEN o ELSE [o EXCEPT !.d = Cleaned(@, t)] :
     o \in AndThen(AndThen(TryEach(d, TextureCalls(t)), LAMBDA e : CopyTexture(e, t)), LAMBDA e : Bind(e, t))}

-----------------------------------------------------------------------------
(* The textures whose source nobody holds any more.                        *)
Expired(u, shown) ==
  u.textures \ (shown \cup {White} \cup UNION {u.retained[slot] : slot \in FrameSlots})

(* Draws are uploaded in order; each one that has a texture is retained.   *)
UploadDraw(o, slot, t) ==
  IF ~ o.ok THEN {o}
  ELSE {[d |-> v.d, ok |-> v.ok,
         u |-> IF v.ok THEN [o.u EXCEPT !.textures = @ \cup {t}, !.retained[slot] = @ \cup {t}] ELSE o.u] :
          v \in IF t \in o.u.textures THEN Returns(o.d, TRUE) ELSE Upload(o.d, t)}

UploadDraws(u, d, slot, draws) ==
  InTurn({[d |-> d, u |-> u, ok |-> TRUE]}, draws, LAMBDA o, t : UploadDraw(o, slot, t))

(* prepare, for a frame with these draws, whose geometry has this size,    *)
(* while the game holds the sources `shown`.  No draws stand for a frame   *)
(* without interface, or whose draw data is not valid.                     *)
Unretained(u, slot) == [u EXCEPT !.ready[slot] = FALSE, !.retained[slot] = {}]
Swept(u, d, shown) ==
  [d |-> Destroy(d, UNION {TextureObjects(t) : t \in Expired(u, shown)}),
   u |-> [u EXCEPT !.textures = @ \ Expired(u, shown)], ok |-> TRUE]

PrepareDraws(o, slot, draws, size) ==
  UNION {IF ~ w.ok THEN {w}
         ELSE {IF v.ok THEN [v EXCEPT !.u.ready[slot] = TRUE] ELSE v :
                 v \in UploadDraws(w.u, w.d, slot, draws)} :
         w \in WriteGeometry(o.u, o.d, slot, size)}

PrepareUi(u, d, slot, draws, size, shown) ==
  IF UiPipeline \notin d.held THEN {[d |-> d, u |-> u, ok |-> FALSE]}
  ELSE UNION {IF draws = <<>> THEN {o} ELSE PrepareDraws(o, slot, draws, size) :
              o \in {Swept(Unretained(u, slot), d, shown)}}

(* record: the objects a command buffer with these draws refers to.        *)
UiWork(u, slot, draws) ==
  IF u.ready[slot] /\ draws # <<>>
  THEN {UiPipeline, UiLayout, UiSampler, UiDescriptors} \cup GeometryOf(slot)
         \cup UNION {TextureObjects(draws[i]) : i \in DOMAIN draws}
  ELSE {}
=============================================================================
