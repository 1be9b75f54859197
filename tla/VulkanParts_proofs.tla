------------------------- MODULE VulkanParts_proofs -------------------------
(***************************************************************************)
(* Proofs about VulkanResources, the first part: what a driver makes and   *)
(* destroys, and what each part of the renderer owns.                      *)
(*                                                                         *)
(* A driver whose calls were no misuse is clean (Clean): what exists is    *)
(* what is held, and what submitted work uses exists. Every call of a part *)
(* is shown to keep it so, provided the part owns what its state says: the *)
(* shadow maps (ShadowsOwn), the interface (UiHolds), the material images  *)
(* with their staging, budget and environment (MatOwns). Which objects a   *)
(* part can touch is told by their kinds, and the kinds of the parts are   *)
(* disjoint, so that the parts compose (Becomes).                          *)
(*                                                                         *)
(* Here too: a frame drawn with reflections shows the sky it asked for.    *)
(* The upload, the retirement and the loss of an image change nothing that *)
(* decides about that (Alike, SameReflections); the invariant (RInv) says  *)
(* of the rest that what the descriptor set shows is what the gate has on  *)
(* record.                                                                 *)
(***************************************************************************)
EXTENDS VulkanResources, FiniteSetTheorems, WellFoundedInduction, TLAPS

(* The kinds of objects: the first component of an object's name.          *)

ShadowKinds ==
  {"shadow pass", "shadow receiver layout", "shadow caster layout", "shadow sampler", "shadow shader",
   "shadow mesh pipeline", "shadow box pipeline", "shadow pool", "shadow image", "shadow image memory",
   "shadow view", "shadow framebuffer", "shadow uniforms", "shadow uniform memory", "shadow descriptor"}
UiKinds ==
  {"ui set layout", "ui descriptors", "ui sampler", "ui layout", "ui pipeline", "ui vertex shader",
   "ui fragment shader", "ui vertices", "ui indices", "ui staging", "ui upload command", "ui image",
   "ui image memory", "ui view", "ui set"}
ImageKinds == {"material image", "material image memory", "material view"}
StagingKinds == {"material staging", "material staging memory", "material command"}
CoreKinds ==
  {"material empty layout", "material layout", "material frame", "material frame memory",
   "material sampler"}
EnvironmentKinds ==
  {"environment layout", "environment pool", "environment set", "environment sampler"}
AssetKinds == {"asset pool", "asset sets", "asset uniforms", "asset uniform memory"}
MeshKinds ==
  {"mesh buffer", "mesh memory", "mesh staging", "mesh staging memory", "single time command"}
PipelineKinds == AllPipelines \cup {"vertex shader", "fragment shader"}
ChainKinds ==
  {"swapchain", "swapchain view", "framebuffer", "render pass", "depth image", "depth memory",
   "depth view"}
DeviceKinds ==
  {"instance", "surface", "device", "command pool", "command buffer", "image available",
   "render finished", "in flight"}

(* The held objects of these kinds.                                        *)
Of(kinds, held) == {x \in held : x[1] \in kinds}

-----------------------------------------------------------------------------
(* What each part owns; `own` are the held objects of its kinds.           *)

MapObjects == {MapPool} \cup MapSets \cup UNION {SlotObjects(slot) : slot \in FrameSlots}

ShadowStates ==
  [device : BOOLEAN, attemptedCore : BOOLEAN, coreReady : BOOLEAN, resolution : Nat, failedResolution : Nat]

ShadowsOwn(s, own) ==
  /\ s \in ShadowStates
  /\ own \subseteq CoreObjects \cup MapObjects
  /\ ~ s.device => s = NoShadows
  /\ ~ s.attemptedCore => ~ s.coreReady /\ CoreObjects \cap own = {}
  /\ s.coreReady => CoreObjects \subseteq own
  /\ IF s.resolution = 0 THEN MapObjects \cap own = {} ELSE MapObjects \subseteq own /\ s.coreReady

Textures == Sources \cup {White}
UiStates ==
  [device : BOOLEAN, textures : SUBSET Textures, retained : [FrameSlots -> SUBSET Textures],
   ready : [FrameSlots -> BOOLEAN], capacity : [FrameSlots -> [Geometry -> Nat]]]

GeometryFits(u, own) ==
  \A slot \in FrameSlots, name \in Geometry :
    u.capacity[slot][name] # 0 => {Buffer(name, slot), Memory(name, slot)} \subseteq own

UiOwns(u, own) ==
  /\ u \in UiStates
  /\ own \subseteq PipelineObjects \cup GeometryObjects \cup UNION {TextureObjects(t) : t \in u.textures}
  /\ IF u.device THEN PipelineObjects \subseteq own ELSE u = NoUi /\ own = {}
  /\ \A t \in u.textures : TextureObjects(t) \subseteq own
  /\ \A slot \in FrameSlots : u.retained[slot] \subseteq u.textures
  /\ GeometryFits(u, own)

AssetAll(mesh) == {AssetPool(mesh), AssetSets(mesh)} \cup AssetObjects(mesh)
MeshStates ==
  [state : {"absent", "pending", "failed", "resident", "retired"}, tried : BOOLEAN, textured : BOOLEAN,
   images : SUBSET Contents, wait : Nat]
Loaded(x) == x.state \in {"resident", "retired"}
Others(m) == UNION {m[mesh].images : mesh \in Meshes}

ChainObjects ==
  {Swapchain, RenderPass} \cup DepthObjects \cup {SwapView(i) : i \in Images} \cup {SwapTarget(i) : i \in Images}
DeviceObjects ==
  {Instance, Surface, Device, CommandPool} \cup CommandBuffers \cup UNION {SyncOf(slot) : slot \in FrameSlots}

-----------------------------------------------------------------------------
(* What submitted work refers to.                                          *)

Distance(slot, current) == IF slot >= current THEN slot - current ELSE slot - current + FramesInFlight
InUse(x, turns) == x.state = "resident" \/ (x.state = "retired" /\ x.wait > turns)

SlotMemory(slot) ==
  {MapUniformMemory(slot), FrameMemory(slot), CommandBuffer(slot)} \cup GeometryOf(slot)
    \cup BuffersOf({Vertices(mesh, slot) : mesh \in Dynamic})

(* Work of a frame slot refers to what belongs to the slot, the textures   *)
(* the slot retains, and meshes that stay for more than these turns.       *)
WorkIsKept(work, slot, turns, u, m) ==
  /\ \A other \in FrameSlots \ {slot} : work \cap SlotMemory(other) = {}
  /\ \A t \in Textures : work \cap TextureObjects(t) # {} => t \in u.retained[slot]
  /\ \A mesh \in Meshes : work \cap MeshObjects(mesh) # {} => InUse(m[mesh], turns)
  /\ \A mesh \in Meshes : work \cap AssetAll(mesh) # {} => InUse(m[mesh], turns) /\ m[mesh].textured
  /\ \A n \in Contents : work \cap ImageObjects(n) # {} =>
       \E mesh \in Meshes : n \in m[mesh].images /\ InUse(m[mesh], turns)

(* A driver whose calls were no misuse: what exists is what is held, and   *)
(* what is in use exists.                                                  *)
Driver(alive, held, work, misuses, refusals) ==
  [alive |-> alive, held |-> held, work |-> work, misuses |-> misuses, refusals |-> refusals]
Plain(held, work, refusals) == Driver(held, held, work, {}, refusals)

Clean(d) ==
  /\ d = Plain(d.held, d.work, d.refusals)
  /\ d.work = [w \in Works |-> d.work[w]]
  /\ Busy(d) \subseteq d.held
  /\ d.refusals \in Nat

-----------------------------------------------------------------------------

(* A set of numbers that is not empty has a least one.                     *)
LEMMA LeastNumber ==
  ASSUME NEW T, T \subseteq Nat, T # {}
  PROVE  \E x \in T : \A y \in T : x <= y
<1>1. PICK n \in T : TRUE
  OBVIOUS
<1> DEFINE D == {m \in T : m <= n}
           U == {0 .. m : m \in D}
<1>2. IsWellFoundedOn(StrictSubsetOrdering(0 .. n), SUBSET (0 .. n))
  <2>1. IsFiniteSet(0 .. n)
    BY FS_Interval
  <2>2. FiniteSubsetsOf(0 .. n) = SUBSET (0 .. n)
    BY <2>1, FS_FiniteSubsetsOfFinite
  <2>3. IsWellFoundedOn(StrictSubsetOrdering(0 .. n), FiniteSubsetsOf(0 .. n))
    BY FS_StrictSubsetOrderingWellFounded
  <2> QED BY <2>2, <2>3
<1>3. U \subseteq SUBSET (0 .. n) /\ U # {}
  BY <1>1
<1>4. PICK x \in U : \A y \in U : <<y, x>> \notin StrictSubsetOrdering(0 .. n)
  BY <1>2, <1>3, WFMin
<1>5. PICK k \in D : x = 0 .. k
  BY <1>4
<1>6. \A m \in D : m >= k
  <2> SUFFICES ASSUME NEW m \in D, m < k PROVE FALSE
    OBVIOUS
  <2>1. 0 .. m \in U /\ 0 .. m \subseteq 0 .. k /\ k \in 0 .. k /\ k \notin 0 .. m
    OBVIOUS
  <2>2. 0 .. m \in SUBSET (0 .. n) /\ 0 .. k \in SUBSET (0 .. n)
    OBVIOUS
  <2> QED BY <1>4, <1>5, <2>1, <2>2 DEF StrictSubsetOrdering
<1> QED BY <1>6

(* Counting up from 0 to N.                                                *)
LEMMA CountingUp ==
  ASSUME NEW N \in Nat, NEW S, 0 \in S, \A n \in 1 .. N : n - 1 \in S => n \in S
  PROVE  \A n \in 0 .. N : n \in S
<1> DEFINE T == {n \in 0 .. N : n \notin S}
<1> SUFFICES ASSUME T # {} PROVE FALSE
  OBVIOUS
<1>1. T \subseteq Nat
  OBVIOUS
<1> HIDE DEF T
<1>2. PICK x \in T : \A y \in T : x <= y
  BY <1>1, LeastNumber
<1>3. x \in 0 .. N /\ x \notin S
  BY <1>2 DEF T
<1>4. x \in 1 .. N /\ x - 1 \in 0 .. N
  BY <1>3
<1>5. x - 1 \notin T
  BY <1>1, <1>2, <1>4
<1> QED BY <1>3, <1>4, <1>5 DEF T

-----------------------------------------------------------------------------
(* The driver.                                                             *)

Adds(d, o, objects) ==
  /\ Clean(o.d) /\ o.ok \in BOOLEAN /\ o = [d |-> o.d, ok |-> o.ok]
  /\ o.d.work = d.work
  /\ d.held \subseteq o.d.held /\ o.d.held \subseteq d.held \cup objects
  /\ IF o.ok THEN o.d.held = d.held \cup objects /\ o.d.refusals = d.refusals
     ELSE o.d.refusals = d.refusals + 1

FitsIn(c, held, busy) ==
  /\ c.makes \cap held = {} /\ c.needs \subseteq held
  /\ c.writes \subseteq held /\ c.writes \cap busy = {}
Fits(calls, held, busy) ==
  /\ Len(calls) \in Nat /\ DOMAIN calls = 1 .. Len(calls)
  /\ \A i \in 1 .. Len(calls) : FitsIn(calls[i], held \cup MadeBy(calls, i - 1), busy)

(* Changing a field of a driver record gives a driver record.              *)
LEMMA DriverShape ==
  ASSUME NEW a, NEW h, NEW w, NEW x, NEW r, NEW v
  PROVE  /\ [Driver(a, h, w, x, r) EXCEPT !.alive = v] = Driver(v, h, w, x, r)
         /\ [Driver(a, h, w, x, r) EXCEPT !.held = v] = Driver(a, v, w, x, r)
         /\ [Driver(a, h, w, x, r) EXCEPT !.work = v] = Driver(a, h, v, x, r)
         /\ [Driver(a, h, w, x, r) EXCEPT !.misuses = v] = Driver(a, h, w, v, r)
         /\ [Driver(a, h, w, x, r) EXCEPT !.refusals = v] = Driver(a, h, w, x, v)
         /\ Driver(a, h, w, x, r).alive = a /\ Driver(a, h, w, x, r).held = h
         /\ Driver(a, h, w, x, r).work = w /\ Driver(a, h, w, x, r).misuses = x
         /\ Driver(a, h, w, x, r).refusals = r
BY DEF Driver

(* Several fields of a driver changed at once are changed one after the    *)
(* other.                                                                  *)
LEMMA DriverShapes ==
  ASSUME NEW d, NEW a, NEW h, NEW x
  PROVE  /\ [d EXCEPT !.alive = a, !.held = h, !.misuses = x]
              = [[[d EXCEPT !.alive = a] EXCEPT !.held = h] EXCEPT !.misuses = x]
         /\ [d EXCEPT !.alive = a, !.held = h] = [[d EXCEPT !.alive = a] EXCEPT !.held = h]
         /\ [d EXCEPT !.work = a, !.misuses = x] = [[d EXCEPT !.work = a] EXCEPT !.misuses = x]
OBVIOUS

(* The fields of a driver without misuse.                                  *)
LEMMA PlainShape ==
  ASSUME NEW held, NEW work, NEW refusals
  PROVE  /\ Plain(held, work, refusals) = Driver(held, held, work, {}, refusals)
         /\ Plain(held, work, refusals).alive = held /\ Plain(held, work, refusals).held = held
         /\ Plain(held, work, refusals).work = work /\ Plain(held, work, refusals).misuses = {}
         /\ Plain(held, work, refusals).refusals = refusals
BY DriverShape DEF Plain

(* What the destruction of objects leaves of a driver record.              *)
LEMMA GoneShape ==
  ASSUME NEW a, NEW h, NEW w, NEW x, NEW r, NEW gone, NEW cleared
  PROVE  Gone(Driver(a, h, w, x, r), gone, cleared)
           = Driver(a \ gone, h \ cleared, w, x \cup Touched(Driver(a, h, w, x, r), gone), r)
<1>1. PICK d : d = Driver(a, h, w, x, r)
  OBVIOUS
<1>2. PICK y : y = x \cup Touched(d, gone)
  OBVIOUS
<1>3. d.alive = a /\ d.held = h /\ d.misuses = x
  BY <1>1, DriverShape
<1>4. PICK b, c : b = a \ gone /\ c = h \ cleared
  OBVIOUS
<1>5. Gone(d, gone, cleared) = [d EXCEPT !.alive = b, !.held = c, !.misuses = y]
  BY <1>2, <1>3, <1>4 DEF Gone
<1>6. [d EXCEPT !.alive = b, !.held = c, !.misuses = y]
        = [[[d EXCEPT !.alive = b] EXCEPT !.held = c] EXCEPT !.misuses = y]
  BY DriverShapes
<1>7. [d EXCEPT !.alive = b] = Driver(b, h, w, x, r)
  BY <1>1, DriverShape
<1>8. [Driver(b, h, w, x, r) EXCEPT !.held = c] = Driver(b, c, w, x, r)
  BY DriverShape
<1>9. [Driver(b, c, w, x, r) EXCEPT !.misuses = y] = Driver(b, c, w, y, r)
  BY DriverShape
<1> QED BY <1>1, <1>2, <1>4, <1>5, <1>6, <1>7, <1>8, <1>9

(* What is busy depends on the submitted work alone.                       *)
LEMMA WorkIsBusy ==
  ASSUME NEW d, NEW e, e.work = d.work
  PROVE  Busy(e) = Busy(d)
BY DEF Busy

(* The fields of a clean driver: held objects are the living ones, nothing *)
(* was misused.                                                            *)
LEMMA CleanShape ==
  ASSUME NEW d, Clean(d)
  PROVE  /\ d = Plain(d.held, d.work, d.refusals) /\ d.alive = d.held /\ d.misuses = {}
         /\ d.work = [w \in Works |-> d.work[w]] /\ Busy(d) \subseteq d.held /\ d.refusals \in Nat
<1>1. /\ d = Plain(d.held, d.work, d.refusals) /\ d.work = [w \in Works |-> d.work[w]]
      /\ Busy(d) \subseteq d.held /\ d.refusals \in Nat
  BY DEF Clean
<1>2. d.alive = d.held /\ d.misuses = {}
  BY <1>1, PlainShape
<1> QED BY <1>1, <1>2

(* What makes a driver clean.                                              *)
LEMMA PlainIsClean ==
  ASSUME NEW held, NEW work, NEW refusals \in Nat, NEW e, e = Plain(held, work, refusals),
         work = [w \in Works |-> work[w]], \A w \in Works : work[w] \subseteq held
  PROVE  /\ Clean(e) /\ e.held = held /\ e.work = work /\ e.refusals = refusals
         /\ Busy(e) = UNION {work[w] : w \in Works}
<1>1. e.held = held /\ e.work = work /\ e.refusals = refusals
  BY PlainShape
<1>2. Busy(e) = UNION {work[w] : w \in Works}
  BY <1>1 DEF Busy
<1> QED BY <1>1, <1>2 DEF Clean

(* Submitted work of a clean driver uses held objects.                     *)
LEMMA WorkIsHeld ==
  ASSUME NEW d, Clean(d), NEW w \in Works
  PROVE  d.work[w] \subseteq d.held /\ d.work[w] \subseteq Busy(d)
BY DEF Clean, Busy

(* An idle driver is clean and busy with nothing.                          *)
LEMMA IdleIsClean ==
  ASSUME NEW d, Clean(d)
  PROVE  /\ Clean(Idle(d)) /\ Idle(d).held = d.held /\ Idle(d).refusals = d.refusals
         /\ Busy(Idle(d)) = {} /\ Idle(d).work = [w \in Works |-> {}]
<1> DEFINE work == [w \in Works |-> {}]
<1>1. d = Plain(d.held, d.work, d.refusals) /\ d.refusals \in Nat
  BY CleanShape
<1>2. Idle(d) = [d EXCEPT !.work = work]
  BY DEF Idle
<1>3. \A w \in Works : work[w] = {}
  OBVIOUS
<1>4. work = [w \in Works |-> work[w]]
  OBVIOUS
<1> HIDE DEF work
<1>5. Idle(d) = Plain(d.held, work, d.refusals)
  <2>1. PICK h, w, r : h = d.held /\ w = d.work /\ r = d.refusals
    OBVIOUS
  <2>2. d = Driver(h, h, w, {}, r)
    BY <1>1, <2>1 DEF Plain
  <2>3. [Driver(h, h, w, {}, r) EXCEPT !.work = work] = Driver(h, h, work, {}, r)
    BY DriverShape
  <2> QED BY <1>2, <2>1, <2>2, <2>3 DEF Plain
<1>6. /\ Clean(Idle(d)) /\ Idle(d).held = d.held /\ Idle(d).work = work /\ Idle(d).refusals = d.refusals
      /\ Busy(Idle(d)) = UNION {work[w] : w \in Works}
  BY <1>1, <1>3, <1>4, <1>5, PlainIsClean
<1>7. Busy(Idle(d)) = {}
  BY <1>3, <1>6
<1> QED BY <1>6, <1>7 DEF work

(* A refused call only counts.                                             *)
LEMMA RefuseIsClean ==
  ASSUME NEW d, Clean(d)
  PROVE  /\ Clean(Refuse(d)) /\ Refuse(d).held = d.held /\ Refuse(d).refusals = d.refusals + 1
         /\ Refuse(d).work = d.work
<1>1. /\ d = Plain(d.held, d.work, d.refusals) /\ d.refusals \in Nat
      /\ d.work = [w \in Works |-> d.work[w]]
  BY CleanShape
<1>2. Refuse(d) = [d EXCEPT !.refusals = d.refusals + 1]
  BY DEF Refuse
<1>3. PICK n : n = d.refusals + 1
  OBVIOUS
<1>4. Refuse(d) = Plain(d.held, d.work, n)
  <2>1. PICK h, w, r : h = d.held /\ w = d.work /\ r = d.refusals
    OBVIOUS
  <2>2. d = Driver(h, h, w, {}, r)
    BY <1>1, <2>1 DEF Plain
  <2>3. [Driver(h, h, w, {}, r) EXCEPT !.refusals = n] = Driver(h, h, w, {}, n)
    BY DriverShape
  <2> QED BY <1>2, <1>3, <2>1, <2>2, <2>3 DEF Plain
<1>5. \A w \in Works : d.work[w] \subseteq d.held
  BY WorkIsHeld
<1>6. n \in Nat
  BY <1>1, <1>3
<1> QED BY <1>1, <1>3, <1>4, <1>5, <1>6, PlainIsClean

(* Destroying objects that are not busy keeps a driver clean.              *)
LEMMA DestroyIsClean ==
  ASSUME NEW d, Clean(d), NEW objects, objects \cap Busy(d) = {}
  PROVE  /\ Clean(Destroy(d, objects)) /\ Destroy(d, objects).held = d.held \ objects
         /\ Destroy(d, objects).work = d.work /\ Destroy(d, objects).refusals = d.refusals
<1>1. /\ d = Plain(d.held, d.work, d.refusals) /\ d.refusals \in Nat
      /\ d.work = [w \in Works |-> d.work[w]] /\ d.alive = d.held
  BY CleanShape
<1>2. PICK g : g = objects \cap d.held
  OBVIOUS
<1>3. Touched(d, g) = {}
  BY <1>1, <1>2 DEF Touched, Dead, Misuse
<1>4. Destroy(d, objects) = Gone(d, g, objects)
  BY <1>2 DEF Destroy
<1>5. d = Driver(d.held, d.held, d.work, {}, d.refusals)
  BY <1>1 DEF Plain
<1>6. PICK a, h, w, r : a = d.held /\ h = d.held /\ w = d.work /\ r = d.refusals
  OBVIOUS
<1>7. Gone(Driver(a, h, w, {}, r), g, objects)
        = Driver(a \ g, h \ objects, w, {} \cup Touched(Driver(a, h, w, {}, r), g), r)
  BY GoneShape
<1>8. a \ g = h \ objects /\ {} \cup Touched(d, g) = {}
  BY <1>2, <1>3, <1>6
<1>9. Destroy(d, objects) = Plain(d.held \ objects, d.work, d.refusals)
  BY <1>4, <1>5, <1>6, <1>7, <1>8, Zenon DEF Plain
<1>10. \A v \in Works : d.work[v] \subseteq d.held \ objects
  BY WorkIsHeld
<1> QED BY <1>1, <1>9, <1>10, PlainIsClean

(* Writing to held objects that are not busy is no misuse.                 *)
LEMMA RewriteIsClean ==
  ASSUME NEW d, Clean(d), NEW objects, objects \subseteq d.held, objects \cap Busy(d) = {}
  PROVE  Rewrite(d, objects) = d
<1>1. d.alive = d.held /\ d.misuses = {} /\ d = Plain(d.held, d.work, d.refusals)
  BY CleanShape
<1>2. Touched(d, objects) = {}
  BY <1>1 DEF Touched, Dead, Misuse
<1>3. d.misuses \cup Touched(d, objects) = {}
  BY <1>1, <1>2
<1>4. Rewrite(d, objects) = [d EXCEPT !.misuses = {}]
  BY <1>3, Zenon DEF Rewrite
<1>5. PICK h, w, r : h = d.held /\ w = d.work /\ r = d.refusals
  OBVIOUS
<1>6. d = Driver(h, h, w, {}, r)
  BY <1>1, <1>5 DEF Plain
<1>7. [Driver(h, h, w, {}, r) EXCEPT !.misuses = {}] = Driver(h, h, w, {}, r)
  BY DriverShape
<1> QED BY <1>4, <1>6, <1>7

(* A pool that goes with what was allocated from it.                       *)
LEMMA PoolIsClean ==
  ASSUME NEW d, Clean(d), NEW pool, NEW contents, NEW more,
         pool \notin contents, more \cap contents = {},
         contents \cap d.held # {} => pool \in d.held,
         ({pool} \cup contents \cup more) \cap Busy(d) = {}
  PROVE  LET e == Forget(Destroy(DestroyPool(d, pool, contents), more), contents)
         IN  /\ Clean(e) /\ e.held = d.held \ ({pool} \cup contents \cup more)
             /\ e.work = d.work /\ e.refusals = d.refusals
<1>1. /\ d = Plain(d.held, d.work, d.refusals) /\ d.refusals \in Nat
      /\ d.work = [w \in Works |-> d.work[w]] /\ d.alive = d.held /\ d.misuses = {}
  BY CleanShape
<1>2. PICK h, w, r : h = d.held /\ w = d.work /\ r = d.refusals
  OBVIOUS
<1>3. d = Driver(h, h, w, {}, r)
  BY <1>1, <1>2 DEF Plain
<1>4. PICK a : a = h \ ({pool} \cup contents)
  OBVIOUS
<1>5. DestroyPool(d, pool, contents) = Driver(a, h \ {pool}, w, {}, r)
  <2>1. CASE pool \in d.held
    <3>1. PICK g : g = {pool} \cup (contents \cap d.alive)
      OBVIOUS
    <3>2. Touched(d, g) = {}
      BY <2>1, <1>1, <3>1 DEF Touched, Dead, Misuse
    <3>3. DestroyPool(d, pool, contents) = Gone(d, g, {pool})
      BY <2>1, <3>1 DEF DestroyPool
    <3>4. Gone(Driver(h, h, w, {}, r), g, {pool})
            = Driver(h \ g, h \ {pool}, w, {} \cup Touched(Driver(h, h, w, {}, r), g), r)
      BY GoneShape
    <3>5. h \ g = a /\ {} \cup Touched(d, g) = {}
      BY <1>1, <1>2, <1>4, <3>1, <3>2
    <3> QED BY <1>3, <3>3, <3>4, <3>5
  <2>2. CASE pool \notin d.held
    <3>1. a = h /\ h \ {pool} = h
      BY <2>2, <1>2, <1>4
    <3>2. DestroyPool(d, pool, contents) = d
      BY <2>2 DEF DestroyPool
    <3> QED BY <1>3, <3>1, <3>2
  <2> QED BY <2>1, <2>2
<1>6. PICK p : p = DestroyPool(d, pool, contents)
  OBVIOUS
<1>7. p.alive = a /\ p.held = h \ {pool} /\ p.work = w /\ p.misuses = {}
  BY <1>5, <1>6, DriverShape
<1>8. Destroy(p, more) = Driver(a \ more, (h \ {pool}) \ more, w, {}, r)
  <2>1. PICK g : g = more \cap p.held
    OBVIOUS
  <2>2. Busy(p) = Busy(d)
    BY <1>2, <1>7 DEF Busy
  <2>3. Touched(p, g) = {}
    BY <1>2, <1>4, <1>7, <2>1, <2>2 DEF Touched, Dead, Misuse
  <2>4. Destroy(p, more) = Gone(p, g, more)
    BY <2>1 DEF Destroy
  <2>5. Gone(Driver(a, h \ {pool}, w, {}, r), g, more)
          = Driver(a \ g, (h \ {pool}) \ more, w, {} \cup Touched(Driver(a, h \ {pool}, w, {}, r), g), r)
    BY GoneShape
  <2>6. a \ g = a \ more /\ {} \cup Touched(p, g) = {}
    BY <1>4, <1>7, <2>1, <2>3
  <2> QED BY <1>5, <1>6, <2>4, <2>5, <2>6
<1>9. PICK q : q = Destroy(p, more)
  OBVIOUS
<1>10. PICK k : k = h \ ({pool} \cup contents \cup more)
  OBVIOUS
<1>11. a \ more = k /\ ((h \ {pool}) \ more) \ contents = k
  BY <1>4, <1>10
<1>12. q.held = (h \ {pool}) \ more
  BY <1>8, <1>9, DriverShape
<1>13. Forget(q, contents) = [q EXCEPT !.held = k]
  BY <1>11, <1>12 DEF Forget
<1>14. @ = Driver(a \ more, k, w, {}, r)
  <2>1. PICK b, c : b = a \ more /\ c = (h \ {pool}) \ more
    OBVIOUS
  <2>2. [Driver(b, c, w, {}, r) EXCEPT !.held = k] = Driver(b, k, w, {}, r)
    BY DriverShape
  <2> QED BY <1>8, <1>9, <2>1, <2>2
<1>15. Forget(q, contents) = Plain(k, w, r)
  BY <1>11, <1>13, <1>14 DEF Plain
<1>16. \A v \in Works : d.work[v] \subseteq k
  <2> TAKE v \in Works
  <2>1. d.work[v] \subseteq d.held /\ d.work[v] \subseteq Busy(d)
    BY WorkIsHeld
  <2> QED BY <2>1, <1>2, <1>10
<1>17. PICK e : e = Forget(q, contents)
  OBVIOUS
<1>18. Clean(e) /\ e.held = k /\ e.work = w /\ e.refusals = r
  BY <1>1, <1>2, <1>15, <1>16, <1>17, PlainIsClean
<1> QED BY <1>2, <1>6, <1>9, <1>10, <1>17, <1>18

(* Submitting work on held objects keeps a driver clean.                   *)
LEMMA SubmitIsClean ==
  ASSUME NEW d, Clean(d), NEW w \in Works, NEW objects, objects \subseteq d.held
  PROVE  LET e == Submit(d, w, objects)
         IN  /\ Clean(e) /\ e.held = d.held /\ e.refusals = d.refusals
             /\ e.work = [d.work EXCEPT ![w] = @ \cup objects]
<1>1. /\ d = Plain(d.held, d.work, d.refusals) /\ d.refusals \in Nat
      /\ d.work = [v \in Works |-> d.work[v]] /\ d.alive = d.held /\ d.misuses = {}
  BY CleanShape
<1>2. d.misuses \cup Dead(d, objects) = {}
  BY <1>1 DEF Dead, Misuse
<1>3. PICK work : work = [d.work EXCEPT ![w] = @ \cup objects]
  OBVIOUS
<1>4. Submit(d, w, objects) = [d EXCEPT !.work = work, !.misuses = {}]
  <2>1. Submit(d, w, objects) = [d EXCEPT !.work[w] = @ \cup objects, !.misuses = {}]
    BY <1>2, Zenon DEF Submit
  <2> QED BY <2>1, <1>1, <1>3
<1>5. PICK h, r : h = d.held /\ r = d.refusals
  OBVIOUS
<1>6. d = Driver(h, h, d.work, {}, r)
  BY <1>1, <1>5 DEF Plain
<1>7. [d EXCEPT !.work = work, !.misuses = {}] = [[d EXCEPT !.work = work] EXCEPT !.misuses = {}]
  BY DriverShapes
<1>8. [d EXCEPT !.work = work] = Driver(h, h, work, {}, r)
  <2>1. PICK v : v = d.work
    OBVIOUS
  <2>2. [Driver(h, h, v, {}, r) EXCEPT !.work = work] = Driver(h, h, work, {}, r)
    BY DriverShape
  <2> QED BY <1>6, <2>1, <2>2
<1>9. [Driver(h, h, work, {}, r) EXCEPT !.misuses = {}] = Driver(h, h, work, {}, r)
  BY DriverShape
<1>10. Submit(d, w, objects) = Plain(h, work, r)
  BY <1>4, <1>7, <1>8, <1>9 DEF Plain
<1>11. work = [v \in Works |-> work[v]]
  BY <1>1, <1>3
<1>12. \A v \in Works : d.work[v] \subseteq h
  BY WorkIsHeld, <1>5
<1>13. \A v \in Works : work[v] \subseteq h
  BY <1>1, <1>3, <1>5, <1>12
<1>14. PICK e : e = Submit(d, w, objects)
  OBVIOUS
<1>15. Clean(e) /\ e.held = h /\ e.work = work /\ e.refusals = r
  BY <1>1, <1>5, <1>10, <1>11, <1>13, <1>14, PlainIsClean
<1> QED BY <1>3, <1>5, <1>14, <1>15

(* vkDeviceWaitIdle or vkQueueWaitIdle: nothing is busy, or it failed.     *)
LEMMA WaitIsClean ==
  ASSUME NEW d, Clean(d), NEW o \in WaitIdle(d)
  PROVE  /\ o = [d |-> o.d, ok |-> o.ok] /\ o.ok \in BOOLEAN
         /\ Clean(o.d) /\ o.d.held = d.held
         /\ IF o.ok THEN Busy(o.d) = {} /\ o.d.work = [w \in Works |-> {}] /\ o.d.refusals = d.refusals
            ELSE o.d.work = d.work /\ o.d.refusals = d.refusals + 1
<1>1. o = [d |-> Idle(d), ok |-> TRUE] \/ o = [d |-> Refuse(d), ok |-> FALSE]
  BY DEF WaitIdle, Returns
<1>2. CASE o = [d |-> Idle(d), ok |-> TRUE]
  <2>1. o.d = Idle(d) /\ o.ok = TRUE
    BY <1>2
  <2>2. /\ Clean(Idle(d)) /\ Idle(d).held = d.held /\ Idle(d).refusals = d.refusals
        /\ Busy(Idle(d)) = {} /\ Idle(d).work = [w \in Works |-> {}]
    BY IdleIsClean
  <2> QED BY <1>2, <2>1, <2>2
<1>3. CASE o = [d |-> Refuse(d), ok |-> FALSE]
  <2>1. o.d = Refuse(d) /\ o.ok = FALSE
    BY <1>3
  <2>2. /\ Clean(Refuse(d)) /\ Refuse(d).held = d.held /\ Refuse(d).refusals = d.refusals + 1
        /\ Refuse(d).work = d.work
    BY RefuseIsClean
  <2> QED BY <1>3, <2>1, <2>2
<1> QED BY <1>1, <1>2, <1>3

(* A driver with more objects has the form of one.                         *)
LEMMA WithIsPlain ==
  ASSUME NEW d, Clean(d), NEW objects
  PROVE  With(d, objects) = Plain(d.held \cup objects, d.work, d.refusals)
<1>1. PICK h, w, r : h = d.held /\ w = d.work /\ r = d.refusals
  OBVIOUS
<1>2. d = Driver(h, h, w, {}, r) /\ d.alive = h
  BY <1>1, CleanShape DEF Plain
<1>3. PICK k : k = h \cup objects
  OBVIOUS
<1>4. With(d, objects) = [d EXCEPT !.alive = k, !.held = k]
  BY <1>1, <1>2, <1>3 DEF With
<1>5. [d EXCEPT !.alive = k, !.held = k] = [[d EXCEPT !.alive = k] EXCEPT !.held = k]
  BY DriverShapes
<1>6. [Driver(h, h, w, {}, r) EXCEPT !.alive = k] = Driver(k, h, w, {}, r)
  BY DriverShape
<1>7. [Driver(k, h, w, {}, r) EXCEPT !.held = k] = Driver(k, k, w, {}, r)
  BY DriverShape
<1> QED BY <1>1, <1>2, <1>3, <1>4, <1>5, <1>6, <1>7 DEF Plain

(* A call that fits what exists misuses nothing.                           *)
LEMMA NotMisused ==
  ASSUME NEW d, Clean(d), NEW made, NEW c, FitsIn(c, d.held \cup made, Busy(d))
  PROVE  Misused(With(d, made), c) = {}
<1>1. PICK e : e = With(d, made)
  OBVIOUS
<1>2. e.alive = d.held \cup made /\ e.held = d.held \cup made /\ e.work = d.work
  BY <1>1, WithIsPlain, PlainShape
<1>3. Busy(e) = Busy(d)
  BY <1>2 DEF Busy
<1>4. Misused(e, c) = {}
  BY <1>2, <1>3 DEF Misused, Misuse, Dead, Touched, FitsIn
<1> QED BY <1>1, <1>4

(* After any number of a list of fitting calls the driver is clean and     *)
(* holds what they made.                                                   *)
LEMMA AfterIsClean ==
  ASSUME NEW d, Clean(d), NEW calls, Fits(calls, d.held, Busy(d)), NEW n \in 0 .. Len(calls)
  PROVE  LET e == After(d, calls, n)
         IN  /\ Clean(e) /\ e.held = d.held \cup MadeBy(calls, n)
             /\ e.work = d.work /\ e.refusals = d.refusals
<1>1. PICK made : made = MadeBy(calls, n)
  OBVIOUS
<1>2. PICK w : w = With(d, made)
  OBVIOUS
<1>3. w = Plain(d.held \cup made, d.work, d.refusals)
  BY <1>2, WithIsPlain
<1>4. w.misuses = {}
  BY <1>3, PlainShape
<1>5. \A i \in 1 .. n : Misused(With(d, MadeBy(calls, i - 1)), calls[i]) = {}
  <2> TAKE i \in 1 .. n
  <2>1. FitsIn(calls[i], d.held \cup MadeBy(calls, i - 1), Busy(d))
    BY DEF Fits
  <2> QED BY <2>1, NotMisused
<1>6. UNION {Misused(With(d, MadeBy(calls, i - 1)), calls[i]) : i \in 1 .. n} = {}
  BY <1>5
<1>7. After(d, calls, n) = [w EXCEPT !.misuses = @ \cup {}]
  BY <1>1, <1>2, <1>6, Zenon DEF After
<1>8. @ = [w EXCEPT !.misuses = {}]
  BY <1>4
<1>9. PICK h, v, r : h = d.held \cup made /\ v = d.work /\ r = d.refusals
  OBVIOUS
<1>10. [Driver(h, h, v, {}, r) EXCEPT !.misuses = {}] = Driver(h, h, v, {}, r)
  BY DriverShape
<1>11. PICK e : e = After(d, calls, n)
  OBVIOUS
<1>12. e = Plain(h, v, r)
  BY <1>3, <1>7, <1>8, <1>9, <1>10, <1>11 DEF Plain
<1>13. \A k \in Works : v[k] \subseteq h
  BY <1>9, WorkIsHeld
<1>14. v = [k \in Works |-> v[k]] /\ r \in Nat
  BY <1>9, CleanShape
<1>15. Clean(e) /\ e.held = h /\ e.work = v /\ e.refusals = r
  BY <1>12, <1>13, <1>14, PlainIsClean
<1> QED BY <1>1, <1>9, <1>11, <1>15

(* More calls make more objects.                                           *)
LEMMA MadeByGrows ==
  ASSUME NEW calls, NEW n \in Nat, NEW k \in 0 .. n
  PROVE  MadeBy(calls, k) \subseteq MadeBy(calls, n)
<1>1. 1 .. k \subseteq 1 .. n
  OBVIOUS
<1> QED BY <1>1 DEF MadeBy

(* Calls that fit: what they make is there when they succeed, and a part of *)
(* it - not what the last one makes - when they fail.                       *)
LEMMA TryAdds ==
  ASSUME NEW d, Clean(d), NEW calls, Fits(calls, d.held, Busy(d)), NEW o \in Try(d, calls)
  PROVE  /\ Adds(d, o, MadeBy(calls, Len(calls)))
         /\ ~ o.ok => \E n \in 0 .. Len(calls) - 1 : o.d.held = d.held \cup MadeBy(calls, n)
<1>0. Len(calls) \in Nat /\ DOMAIN calls = 1 .. Len(calls)
  BY DEF Fits
<1>1. \/ o = [d |-> After(d, calls, Len(calls)), ok |-> TRUE]
      \/ \E n \in DOMAIN calls : o = [d |-> Refuse(After(d, calls, n - 1)), ok |-> FALSE]
  BY DEF Try
<1>2. CASE o = [d |-> After(d, calls, Len(calls)), ok |-> TRUE]
  <2>0. PICK k \in Nat : k = Len(calls)
    BY <1>0
  <2>1. PICK n \in 0 .. Len(calls) : n = Len(calls)
    BY <2>0
  <2>2. PICK e : e = After(d, calls, n)
    OBVIOUS
  <2>3. Clean(e) /\ e.held = d.held \cup MadeBy(calls, n) /\ e.work = d.work /\ e.refusals = d.refusals
    BY <2>2, AfterIsClean
  <2>4. o = [d |-> e, ok |-> TRUE] /\ o.d = e /\ o.ok = TRUE
    BY <1>2, <2>1, <2>2
  <2> QED BY <2>1, <2>3, <2>4 DEF Adds
<1>3. CASE \E n \in DOMAIN calls : o = [d |-> Refuse(After(d, calls, n - 1)), ok |-> FALSE]
  <2>1. PICK n \in 1 .. Len(calls) : o = [d |-> Refuse(After(d, calls, n - 1)), ok |-> FALSE]
    BY <1>0, <1>3
  <2>2. PICK k \in 0 .. Len(calls) - 1 : k = n - 1
    BY <1>0
  <2>3. k \in 0 .. Len(calls)
    BY <1>0
  <2>4. PICK e : e = After(d, calls, k)
    OBVIOUS
  <2>5. Clean(e) /\ e.held = d.held \cup MadeBy(calls, k) /\ e.work = d.work /\ e.refusals = d.refusals
    BY <2>3, <2>4, AfterIsClean
  <2>6. PICK f : f = Refuse(e)
    OBVIOUS
  <2>7. Clean(f) /\ f.held = e.held /\ f.refusals = e.refusals + 1 /\ f.work = e.work
    BY <2>5, <2>6, RefuseIsClean
  <2>8. o = [d |-> f, ok |-> FALSE] /\ o.d = f /\ o.ok = FALSE
    BY <2>1, <2>2, <2>4, <2>6
  <2>9. MadeBy(calls, k) \subseteq MadeBy(calls, Len(calls))
    BY <1>0, <2>3, MadeByGrows
  <2> QED BY <2>5, <2>7, <2>8, <2>9 DEF Adds
<1> QED BY <1>1, <1>2, <1>3

-----------------------------------------------------------------------------
(* Lists of calls.                                                         *)

(* Calls that fit, and what they make.                                     *)
Makes(calls, held, busy, objects) ==
  Fits(calls, held, busy) /\ MadeBy(calls, Len(calls)) = objects

Longer(more, calls, c) ==
  /\ Len(more) = Len(calls) + 1 /\ DOMAIN more = 1 .. Len(more)
  /\ \A i \in 1 .. Len(calls) : more[i] = calls[i]
  /\ more[Len(more)] = c

(* No calls make nothing.                                                  *)
LEMMA MakesNone ==
  ASSUME NEW held, NEW busy
  PROVE  Makes(<<>>, held, busy, {})
BY DEF Makes, Fits, MadeBy

(* A list with one more fitting call makes that call's objects too.        *)
LEMMA MakesMore ==
  ASSUME NEW calls, NEW held, NEW busy, NEW objects, Makes(calls, held, busy, objects),
         NEW c, NEW more, Longer(more, calls, c), FitsIn(c, held \cup objects, busy)
  PROVE  /\ Makes(more, held, busy, objects \cup c.makes)
         /\ MadeBy(more, Len(more) - 1) = objects
<1>1. PICK k \in Nat : k = Len(calls)
  BY DEF Makes, Fits
<1>2. Fits(calls, held, busy) /\ MadeBy(calls, k) = objects
  BY <1>1 DEF Makes
<1>3. /\ Len(more) = k + 1 /\ DOMAIN more = 1 .. k + 1
      /\ \A i \in 1 .. k : more[i] = calls[i]
      /\ more[k + 1] = c
  BY <1>1 DEF Longer
<1>4. \A n \in 0 .. k : MadeBy(more, n) = MadeBy(calls, n)
  <2> TAKE n \in 0 .. k
  <2>1. 1 .. n \subseteq 1 .. k
    OBVIOUS
  <2> QED BY <1>3, <2>1 DEF MadeBy
<1>5. MadeBy(more, k + 1) = objects \cup c.makes
  <2>1. 1 .. k + 1 = (1 .. k) \cup {k + 1}
    OBVIOUS
  <2> QED BY <1>2, <1>3, <2>1 DEF MadeBy
<1>6. ASSUME NEW i \in 1 .. k + 1
      PROVE  FitsIn(more[i], held \cup MadeBy(more, i - 1), busy)
  <2>1. CASE i \in 1 .. k
    <3>1. i - 1 \in 0 .. k /\ more[i] = calls[i]
      BY <1>3, <2>1
    <3>2. MadeBy(more, i - 1) = MadeBy(calls, i - 1)
      BY <1>4, <3>1
    <3>3. FitsIn(calls[i], held \cup MadeBy(calls, i - 1), busy)
      BY <1>1, <1>2, <2>1 DEF Fits
    <3> QED BY <3>1, <3>2, <3>3
  <2>2. CASE i = k + 1
    <3>1. i - 1 = k /\ k \in 0 .. k /\ more[i] = c
      BY <1>3, <2>2
    <3>2. MadeBy(more, i - 1) = objects
      BY <1>2, <1>4, <3>1
    <3> QED BY <3>1, <3>2
  <2> QED BY <2>1, <2>2
<1>7. Len(more) - 1 = k /\ k \in 0 .. k
  BY <1>3
<1>8. MadeBy(more, Len(more) - 1) = objects
  BY <1>2, <1>4, <1>7
<1>9. Fits(more, held, busy)
  BY <1>3, <1>6 DEF Fits
<1> QED BY <1>3, <1>5, <1>8, <1>9 DEF Makes

(* Tuples as lists with one call more.                                     *)
LEMMA LongerLists ==
  ASSUME NEW a, NEW b, NEW c, NEW d, NEW e, NEW f, NEW g, NEW h
  PROVE  /\ Longer(<<a>>, <<>>, a) /\ Longer(<<a, b>>, <<a>>, b)
         /\ Longer(<<a, b, c>>, <<a, b>>, c) /\ Longer(<<a, b, c, d>>, <<a, b, c>>, d)
         /\ Longer(<<a, b, c, d, e>>, <<a, b, c, d>>, e)
         /\ Longer(<<a, b, c, d, e, f>>, <<a, b, c, d, e>>, f)
         /\ Longer(<<a, b, c, d, e, f, g>>, <<a, b, c, d, e, f>>, g)
         /\ Longer(<<a, b, c, d, e, f, g, h>>, <<a, b, c, d, e, f, g>>, h)
BY DEF Longer

(* What a list of one fitting call makes.                                  *)
LEMMA MakesOne ==
  ASSUME NEW held, NEW busy, NEW a,
         FitsIn(a, held, busy)
  PROVE  Makes(<<a>>, held, busy, a.makes)
<1>1. PICK calls, more, made : calls = <<>> /\ more = <<a>> /\ made = {}
  OBVIOUS
<1>2. Makes(calls, held, busy, made)
  BY <1>1, MakesNone
<1>3. Longer(more, calls, a)
  BY <1>1, LongerLists
<1>4. FitsIn(a, held \cup made, busy)
  BY <1>1
<1>5. /\ Makes(more, held, busy, made \cup a.makes)
      /\ MadeBy(more, Len(more) - 1) = made
  BY <1>2, <1>3, <1>4, MakesMore
<1> QED BY <1>1, <1>5

(* What a list of two fitting calls makes.                                 *)
LEMMA MakesTwo ==
  ASSUME NEW held, NEW busy, NEW a, NEW b,
         FitsIn(a, held, busy),
         FitsIn(b, held \cup (a.makes), busy)
  PROVE  Makes(<<a, b>>, held, busy, a.makes \cup b.makes)
<1>1. PICK calls, more, made : calls = <<a>> /\ more = <<a, b>> /\ made = a.makes
  OBVIOUS
<1>2. Makes(calls, held, busy, made)
  BY <1>1, MakesOne
<1>3. Longer(more, calls, b)
  BY <1>1, LongerLists
<1>4. FitsIn(b, held \cup made, busy)
  BY <1>1
<1>5. /\ Makes(more, held, busy, made \cup b.makes)
      /\ MadeBy(more, Len(more) - 1) = made
  BY <1>2, <1>3, <1>4, MakesMore
<1> QED BY <1>1, <1>5

(* What a list of three fitting calls makes.                               *)
LEMMA MakesThree ==
  ASSUME NEW held, NEW busy, NEW a, NEW b, NEW c,
         FitsIn(a, held, busy),
         FitsIn(b, held \cup (a.makes), busy),
         FitsIn(c, held \cup (a.makes \cup b.makes), busy)
  PROVE  Makes(<<a, b, c>>, held, busy, a.makes \cup b.makes \cup c.makes)
<1>1. PICK calls, more, made : calls = <<a, b>> /\ more = <<a, b, c>> /\ made = a.makes \cup b.makes
  OBVIOUS
<1>2. Makes(calls, held, busy, made)
  BY <1>1, MakesTwo
<1>3. Longer(more, calls, c)
  BY <1>1, LongerLists
<1>4. FitsIn(c, held \cup made, busy)
  BY <1>1
<1>5. /\ Makes(more, held, busy, made \cup c.makes)
      /\ MadeBy(more, Len(more) - 1) = made
  BY <1>2, <1>3, <1>4, MakesMore
<1> QED BY <1>1, <1>5

(* What a list of four fitting calls makes.                                *)
LEMMA MakesFour ==
  ASSUME NEW held, NEW busy, NEW a, NEW b, NEW c, NEW d,
         FitsIn(a, held, busy),
         FitsIn(b, held \cup (a.makes), busy),
         FitsIn(c, held \cup (a.makes \cup b.makes), busy),
         FitsIn(d, held \cup (a.makes \cup b.makes \cup c.makes), busy)
  PROVE  /\ Makes(<<a, b, c, d>>, held, busy, a.makes \cup b.makes \cup c.makes \cup d.makes)
         /\ MadeBy(<<a, b, c, d>>, 3) = a.makes \cup b.makes \cup c.makes /\ Len(<<a, b, c, d>>) = 4
<1>1. PICK calls, more, made : calls = <<a, b, c>> /\ more = <<a, b, c, d>> /\ made = a.makes \cup b.makes \cup c.makes
  OBVIOUS
<1>2. Makes(calls, held, busy, made)
  BY <1>1, MakesThree
<1>3. Longer(more, calls, d)
  BY <1>1, LongerLists
<1>4. FitsIn(d, held \cup made, busy)
  BY <1>1
<1>5. /\ Makes(more, held, busy, made \cup d.makes)
      /\ MadeBy(more, Len(more) - 1) = made
  BY <1>2, <1>3, <1>4, MakesMore
<1>6. Len(more) = 4 /\ Len(more) - 1 = 3
  BY <1>1
<1> QED BY <1>1, <1>5, <1>6

(* What a list of five fitting calls makes.                                *)
LEMMA MakesFive ==
  ASSUME NEW held, NEW busy, NEW a, NEW b, NEW c, NEW d, NEW e,
         FitsIn(a, held, busy),
         FitsIn(b, held \cup (a.makes), busy),
         FitsIn(c, held \cup (a.makes \cup b.makes), busy),
         FitsIn(d, held \cup (a.makes \cup b.makes \cup c.makes), busy),
         FitsIn(e, held \cup (a.makes \cup b.makes \cup c.makes \cup d.makes), busy)
  PROVE  Makes(<<a, b, c, d, e>>, held, busy, a.makes \cup b.makes \cup c.makes \cup d.makes \cup e.makes)
<1>1. PICK calls, more, made : calls = <<a, b, c, d>> /\ more = <<a, b, c, d, e>> /\ made = a.makes \cup b.makes \cup c.makes \cup d.makes
  OBVIOUS
<1>2. Makes(calls, held, busy, made)
  BY <1>1, MakesFour
<1>3. Longer(more, calls, e)
  BY <1>1, LongerLists
<1>4. FitsIn(e, held \cup made, busy)
  BY <1>1
<1>5. /\ Makes(more, held, busy, made \cup e.makes)
      /\ MadeBy(more, Len(more) - 1) = made
  BY <1>2, <1>3, <1>4, MakesMore
<1> QED BY <1>1, <1>5

(* What a list of six fitting calls makes.                                 *)
LEMMA MakesSix ==
  ASSUME NEW held, NEW busy, NEW a, NEW b, NEW c, NEW d, NEW e, NEW f,
         FitsIn(a, held, busy),
         FitsIn(b, held \cup (a.makes), busy),
         FitsIn(c, held \cup (a.makes \cup b.makes), busy),
         FitsIn(d, held \cup (a.makes \cup b.makes \cup c.makes), busy),
         FitsIn(e, held \cup (a.makes \cup b.makes \cup c.makes \cup d.makes), busy),
         FitsIn(f, held \cup (a.makes \cup b.makes \cup c.makes \cup d.makes \cup e.makes), busy)
  PROVE  Makes(<<a, b, c, d, e, f>>, held, busy, a.makes \cup b.makes \cup c.makes \cup d.makes \cup e.makes \cup f.makes)
<1>1. PICK calls, more, made : calls = <<a, b, c, d, e>> /\ more = <<a, b, c, d, e, f>> /\ made = a.makes \cup b.makes \cup c.makes \cup d.makes \cup e.makes
  OBVIOUS
<1>2. Makes(calls, held, busy, made)
  BY <1>1, MakesFive
<1>3. Longer(more, calls, f)
  BY <1>1, LongerLists
<1>4. FitsIn(f, held \cup made, busy)
  BY <1>1
<1>5. /\ Makes(more, held, busy, made \cup f.makes)
      /\ MadeBy(more, Len(more) - 1) = made
  BY <1>2, <1>3, <1>4, MakesMore
<1> QED BY <1>1, <1>5

(* What a list of seven fitting calls makes.                               *)
LEMMA MakesSeven ==
  ASSUME NEW held, NEW busy, NEW a, NEW b, NEW c, NEW d, NEW e, NEW f, NEW g,
         FitsIn(a, held, busy),
         FitsIn(b, held \cup (a.makes), busy),
         FitsIn(c, held \cup (a.makes \cup b.makes), busy),
         FitsIn(d, held \cup (a.makes \cup b.makes \cup c.makes), busy),
         FitsIn(e, held \cup (a.makes \cup b.makes \cup c.makes \cup d.makes), busy),
         FitsIn(f, held \cup (a.makes \cup b.makes \cup c.makes \cup d.makes \cup e.makes), busy),
         FitsIn(g, held \cup (a.makes \cup b.makes \cup c.makes \cup d.makes \cup e.makes \cup f.makes), busy)
  PROVE  Makes(<<a, b, c, d, e, f, g>>, held, busy, a.makes \cup b.makes \cup c.makes \cup d.makes \cup e.makes \cup f.makes \cup g.makes)
<1>1. PICK calls, more, made : calls = <<a, b, c, d, e, f>> /\ more = <<a, b, c, d, e, f, g>> /\ made = a.makes \cup b.makes \cup c.makes \cup d.makes \cup e.makes \cup f.makes
  OBVIOUS
<1>2. Makes(calls, held, busy, made)
  BY <1>1, MakesSix
<1>3. Longer(more, calls, g)
  BY <1>1, LongerLists
<1>4. FitsIn(g, held \cup made, busy)
  BY <1>1
<1>5. /\ Makes(more, held, busy, made \cup g.makes)
      /\ MadeBy(more, Len(more) - 1) = made
  BY <1>2, <1>3, <1>4, MakesMore
<1> QED BY <1>1, <1>5

(* What a list of eight fitting calls makes.                               *)
LEMMA MakesEight ==
  ASSUME NEW held, NEW busy, NEW a, NEW b, NEW c, NEW d, NEW e, NEW f, NEW g, NEW h,
         FitsIn(a, held, busy),
         FitsIn(b, held \cup (a.makes), busy),
         FitsIn(c, held \cup (a.makes \cup b.makes), busy),
         FitsIn(d, held \cup (a.makes \cup b.makes \cup c.makes), busy),
         FitsIn(e, held \cup (a.makes \cup b.makes \cup c.makes \cup d.makes), busy),
         FitsIn(f, held \cup (a.makes \cup b.makes \cup c.makes \cup d.makes \cup e.makes), busy),
         FitsIn(g, held \cup (a.makes \cup b.makes \cup c.makes \cup d.makes \cup e.makes \cup f.makes), busy),
         FitsIn(h, held \cup (a.makes \cup b.makes \cup c.makes \cup d.makes \cup e.makes \cup f.makes \cup g.makes), busy)
  PROVE  Makes(<<a, b, c, d, e, f, g, h>>, held, busy, a.makes \cup b.makes \cup c.makes \cup d.makes \cup e.makes \cup f.makes \cup g.makes \cup h.makes)
<1>1. PICK calls, more, made : calls = <<a, b, c, d, e, f, g>> /\ more = <<a, b, c, d, e, f, g, h>> /\ made = a.makes \cup b.makes \cup c.makes \cup d.makes \cup e.makes \cup f.makes \cup g.makes
  OBVIOUS
<1>2. Makes(calls, held, busy, made)
  BY <1>1, MakesSeven
<1>3. Longer(more, calls, h)
  BY <1>1, LongerLists
<1>4. FitsIn(h, held \cup made, busy)
  BY <1>1
<1>5. /\ Makes(more, held, busy, made \cup h.makes)
      /\ MadeBy(more, Len(more) - 1) = made
  BY <1>2, <1>3, <1>4, MakesMore
<1> QED BY <1>1, <1>5

(* Calls that make objects and fail or not.                                *)
LEMMA TryMakes ==
  ASSUME NEW d, Clean(d), NEW calls, NEW objects, Makes(calls, d.held, Busy(d), objects), NEW o \in Try(d, calls)
  PROVE  Adds(d, o, objects)
BY TryAdds DEF Makes

(* What the three forms of a call make, need and write.                    *)
LEMMA CallsMake ==
  ASSUME NEW object, NEW needs, NEW memory
  PROVE  /\ Make(object, needs).makes = {object} /\ Make(object, needs).needs = needs
         /\ Make(object, needs).writes = {}
         /\ Call(needs).makes = {} /\ Call(needs).needs = needs /\ Call(needs).writes = {}
         /\ Fill(memory).makes = {} /\ Fill(memory).needs = {memory} /\ Fill(memory).writes = {memory}
BY DEF Make, Call, Fill

(* A creation fits when its object is new and its needs exist.             *)
LEMMA MakeFits ==
  ASSUME NEW object, NEW needs, NEW held, NEW busy, object \notin held, needs \subseteq held
  PROVE  FitsIn(Make(object, needs), held, busy)
BY DEF FitsIn, Make

(* A plain call fits when its needs exist.                                 *)
LEMMA CallFits ==
  ASSUME NEW needs, NEW held, NEW busy, needs \subseteq held
  PROVE  FitsIn(Call(needs), held, busy)
BY DEF FitsIn, Call

(* A mapped write fits when the memory exists and nobody reads it.         *)
LEMMA FillFits ==
  ASSUME NEW memory, NEW held, NEW busy, memory \in held, memory \notin busy
  PROVE  FitsIn(Fill(memory), held, busy)
BY DEF FitsIn, Fill

-----------------------------------------------------------------------------
(* Loops.  The steps of the loops have one name here, so that a function   *)
(* of what is reached after each item is shown to exist once for all.      *)
Stage(kind, slot, o, x) ==
  CASE kind = "calls" -> IF o.ok THEN Try(o.d, x) ELSE {o}
    [] kind = "frame buffer" -> IF o.ok THEN FrameBufferMade(o.d, x - 1) ELSE {o}
    [] kind = "default" -> DefaultMade(o, x)
    [] kind = "draw" -> UploadDraw(o, slot, x)
    [] kind = "map" -> WithTexture(o, x)
    [] kind = "pipeline" -> PlainPipelineMade(o.d, x)
    [] kind = "destroy" -> {DestroyMesh(o, x)}
    [] kind = "upload" -> UploadMesh(o, x)
    [] kind = "materials" -> MaterialUploaded(o, x)

Staged(f, kind, slot, outcomes, items, n) ==
  IF n = 0 THEN outcomes ELSE UNION {Stage(kind, slot, o, items[n]) : o \in f[n - 1]}
IsRun(f, kind, slot, outcomes, items, last) ==
  f = [n \in 0 .. last |-> Staged(f, kind, slot, outcomes, items, n)]

(* A loop of the renderer (a for over draws, meshes, slots) has a function *)
(* of what is reached after each item.                                     *)
LEMMA RunExists ==
  ASSUME NEW kind, NEW slot, NEW outcomes, NEW items, NEW last \in Nat
  PROVE  \E f : IsRun(f, kind, slot, outcomes, items, last)
<1> DEFINE S == {n \in 0 .. last : \E f : IsRun(f, kind, slot, outcomes, items, n)}
<1>1. 0 \in S
  <2>1. PICK f : f = [n \in 0 .. 0 |-> outcomes]
    OBVIOUS
  <2>2. f = [n \in 0 .. 0 |-> Staged(f, kind, slot, outcomes, items, n)]
    <3>1. \A n \in 0 .. 0 : Staged(f, kind, slot, outcomes, items, n) = outcomes
      BY DEF Staged
    <3> QED BY <2>1, <3>1
  <2> QED BY <2>2 DEF IsRun
<1>2. ASSUME NEW n \in 1 .. last, n - 1 \in S
      PROVE  n \in S
  <2>1. PICK f : IsRun(f, kind, slot, outcomes, items, n - 1)
    BY <1>2
  <2>2. PICK y : y = Staged(f, kind, slot, outcomes, items, n)
    OBVIOUS
  <2>3. PICK g : g = [k \in 0 .. n |-> IF k = n THEN y ELSE f[k]]
    OBVIOUS
  <2>4. ASSUME NEW k \in 0 .. n
        PROVE  g[k] = Staged(g, kind, slot, outcomes, items, k)
    <3>1. k # 0 => k - 1 \in 0 .. n - 1 /\ g[k - 1] = f[k - 1]
      BY <2>3
    <3>2. Staged(g, kind, slot, outcomes, items, k) = Staged(f, kind, slot, outcomes, items, k)
      BY <3>1 DEF Staged
    <3>3. CASE k = n
      BY <2>2, <2>3, <3>2, <3>3
    <3>4. CASE k \in 0 .. n - 1
      <4>1. f[k] = Staged(f, kind, slot, outcomes, items, k)
        BY <2>1, <3>4 DEF IsRun
      <4>2. g[k] = f[k]
        BY <2>3, <3>4
      <4> QED BY <3>2, <4>1, <4>2
    <3> QED BY <3>3, <3>4
  <2>5. g = [k \in 0 .. n |-> g[k]]
    BY <2>3
  <2>6. g = [k \in 0 .. n |-> Staged(g, kind, slot, outcomes, items, k)]
    BY <2>4, <2>5
  <2> QED BY <2>6 DEF IsRun
<1> HIDE DEF S
<1>3. \A n \in 0 .. last : n \in S
  BY <1>1, <1>2, CountingUp
<1> QED BY <1>3 DEF S

-----------------------------------------------------------------------------
(* What a second creation adds to a first that succeeded.                  *)
LEMMA AddsMore ==
  ASSUME NEW d, NEW o, NEW p, NEW first, NEW then, NEW both, d.refusals \in Nat,
         Adds(d, o, first), o.ok, Adds(o.d, p, then), both = first \cup then
  PROVE  Adds(d, p, both)
BY DEF Adds

(* A creation that failed adds no more than a longer one may.              *)
LEMMA AddsLess ==
  ASSUME NEW d, NEW o, NEW first, NEW both,
         Adds(d, o, first), ~ o.ok, first \subseteq both
  PROVE  Adds(d, o, both)
BY DEF Adds

(* Returning TRUE adds nothing.                                            *)
LEMMA AddsNothing ==
  ASSUME NEW d, Clean(d), NEW o \in Returns(d, TRUE)
  PROVE  Adds(d, o, {})
<1>1. o = [d |-> d, ok |-> TRUE]
  BY DEF Returns
<1>2. o.d = d /\ o.ok = TRUE
  BY <1>1
<1> QED BY <1>1, <1>2 DEF Adds

Upto(sets, n) == UNION {sets[j] : j \in 1 .. n}

(* Lists of calls tried in turn until one fails add at most what all make. *)
LEMMA TryEachMakes ==
  ASSUME NEW d, Clean(d), NEW lists, NEW last \in Nat, last = Len(lists), NEW sets,
         \A i \in 1 .. last : Makes(lists[i], d.held \cup Upto(sets, i - 1), Busy(d), sets[i]),
         NEW o \in TryEach(d, lists)
  PROVE  Adds(d, o, Upto(sets, last))
<1> DEFINE Turn(p, x) == IF p.ok THEN Try(p.d, x) ELSE {p}
           G(f, n) == IF n = 0 THEN Returns(d, TRUE) ELSE UNION {Turn(p, lists[n]) : p \in f[n - 1]}
           after == CHOOSE f : f = [n \in 0 .. last |-> G(f, n)]
<1>1. TryEach(d, lists) = after[last]
  BY DEF TryEach, InTurn
<1>2. PICK f : IsRun(f, "calls", 0, Returns(d, TRUE), lists, last)
  BY RunExists
<1>3. \A p, x : Stage("calls", 0, p, x) = Turn(p, x)
  BY DEF Stage
<1> HIDE DEF Turn
<1>4. \A n \in 0 .. last : Staged(f, "calls", 0, Returns(d, TRUE), lists, n) = G(f, n)
  BY <1>3 DEF Staged
<1>5. after = [n \in 0 .. last |-> G(after, n)]
  <2> HIDE DEF G
  <2>1. f = [n \in 0 .. last |-> G(f, n)]
    BY <1>2, <1>4 DEF IsRun
  <2> QED BY <2>1
<1> HIDE DEF after, G
<1> DEFINE S == {n \in 0 .. last : \A p \in after[n] : Adds(d, p, Upto(sets, n))}
<1>6. 0 \in S
  <2>1. after[0] = Returns(d, TRUE)
    BY <1>5 DEF G
  <2>2. Upto(sets, 0) = {}
    BY DEF Upto
  <2>3. \A p \in Returns(d, TRUE) : Adds(d, p, {})
    BY AddsNothing
  <2>4. 0 \in 0 .. last
    OBVIOUS
  <2> QED BY <2>1, <2>2, <2>3, <2>4
<1>7. ASSUME NEW n \in 1 .. last, n - 1 \in S
      PROVE  n \in S
  <2> SUFFICES ASSUME NEW q \in after[n] PROVE Adds(d, q, Upto(sets, n))
    OBVIOUS
  <2>1. after[n] = UNION {Turn(p, lists[n]) : p \in after[n - 1]}
    <3>1. n \in 0 .. last /\ n # 0
      OBVIOUS
    <3>2. after[n] = G(after, n)
      BY <1>5, <3>1
    <3> QED BY <3>1, <3>2 DEF G
  <2>2. PICK p \in after[n - 1] : q \in Turn(p, lists[n])
    BY <2>1
  <2>3. Adds(d, p, Upto(sets, n - 1))
    BY <1>7, <2>2
  <2>4. Upto(sets, n) = Upto(sets, n - 1) \cup sets[n]
    <3>1. 1 .. n = (1 .. n - 1) \cup {n}
      OBVIOUS
    <3> QED BY <3>1 DEF Upto
  <2>5. CASE p.ok
    <3>1. /\ Clean(p.d) /\ p.d.work = d.work /\ p.d.held = d.held \cup Upto(sets, n - 1)
      BY <2>3, <2>5 DEF Adds
    <3>2. Busy(p.d) = Busy(d)
      BY <3>1, WorkIsBusy
    <3>3. PICK e, calls, objects : e = p.d /\ calls = lists[n] /\ objects = sets[n]
      OBVIOUS
    <3>4. Makes(calls, e.held, Busy(e), objects)
      BY <3>1, <3>2, <3>3
    <3>5. Adds(e, q, objects)
      <4>1. q \in Try(e, calls)
      BY <2>2, <2>5, <3>3 DEF Turn
    <4> QED BY <3>1, <3>3, <3>4, <4>1, TryMakes
    <3>6. d.refusals \in Nat
      BY CleanShape
    <3> QED BY <2>3, <2>4, <2>5, <3>3, <3>5, <3>6, AddsMore
  <2>6. CASE ~ p.ok
    <3>1. q = p
      BY <2>2, <2>6 DEF Turn
    <3> QED BY <2>3, <2>4, <2>6, <3>1, AddsLess
  <2> QED BY <2>5, <2>6
<1> HIDE DEF S
<1>8. last \in S
  BY <1>6, <1>7, CountingUp
<1> QED BY <1>1, <1>8 DEF S

(* What a loop reaches after an item, its step made of something reached   *)
(* before it.                                                              *)
LEMMA RunStep ==
  ASSUME NEW kind, NEW slot, NEW outcomes, NEW items, NEW last \in Nat, NEW f,
         IsRun(f, kind, slot, outcomes, items, last), NEW n \in 1 .. last, NEW q \in f[n]
  PROVE  \E o \in f[n - 1] : q \in Stage(kind, slot, o, items[n])
<1>1. f[n] = UNION {Stage(kind, slot, o, items[n]) : o \in f[n - 1]}
  <2>1. n \in 0 .. last /\ n # 0
    OBVIOUS
  <2>2. f[n] = Staged(f, kind, slot, outcomes, items, n)
    BY <2>1 DEF IsRun
  <2> QED BY <2>1, <2>2 DEF Staged
<1> QED BY <1>1

(* Before the first item a loop has reached what it starts from.           *)
LEMMA RunStart ==
  ASSUME NEW kind, NEW slot, NEW outcomes, NEW items, NEW last \in Nat, NEW f,
         IsRun(f, kind, slot, outcomes, items, last)
  PROVE  f[0] = outcomes
<1>1. 0 \in 0 .. last
  OBVIOUS
<1>2. f[0] = Staged(f, kind, slot, outcomes, items, 0)
  BY <1>1 DEF IsRun
<1> QED BY <1>2 DEF Staged

-----------------------------------------------------------------------------
(* Any loop: what holds of the outcomes it starts from, and is kept by each *)
(* of its steps, holds of what it ends with.                               *)
Reached(f, last) == UNION {f[n] : n \in 0 .. last}

(* What holds before the first item and is kept by every step of a loop    *)
(* holds after it.                                                         *)
LEMMA RunKeeps ==
  ASSUME NEW kind, NEW slot, NEW outcomes, NEW items, NEW last \in Nat, NEW f,
         IsRun(f, kind, slot, outcomes, items, last), NEW G,
         \A o \in outcomes \cap Reached(f, last) : o \in G,
         \A n \in 1 .. last : \A o \in f[n - 1] \cap G :
           \A q \in Stage(kind, slot, o, items[n]) \cap Reached(f, last) : q \in G
  PROVE  f[last] \subseteq G
<1> DEFINE S == {n \in 0 .. last : f[n] \subseteq G}
<1>0. \A n \in 0 .. last : f[n] \subseteq Reached(f, last)
  BY DEF Reached
<1>1. 0 \in S
  <2>1. 0 \in 0 .. last
    OBVIOUS
  <2>2. f[0] = outcomes
    BY RunStart
  <2> QED BY <1>0, <2>1, <2>2
<1>2. ASSUME NEW n \in 1 .. last, n - 1 \in S
      PROVE  n \in S
  <2>1. \A q \in f[n] : \E o \in f[n - 1] : q \in Stage(kind, slot, o, items[n])
    BY RunStep
  <2>2. f[n - 1] \subseteq G /\ f[n] \subseteq Reached(f, last)
    BY <1>0, <1>2
  <2>3. f[n] \subseteq G
    BY <2>1, <2>2
  <2> QED BY <2>3
<1> HIDE DEF S
<1>3. \A n \in 0 .. last : n \in S
  BY <1>1, <1>2, CountingUp
<1>4. last \in 0 .. last
  OBVIOUS
<1> QED BY <1>3, <1>4 DEF S

(* The maps of a material, one after the other.                            *)
LEMMA TextureRun ==
  ASSUME NEW m, NEW d, NEW mesh, NEW maps,
         Len(maps) \in Nat, NEW o \in InTurn(AssetStarted(m, d, mesh), maps, WithTexture)
  PROVE  \E f : IsRun(f, "map", 0, AssetStarted(m, d, mesh), maps, Len(maps)) /\ o \in f[Len(maps)]
<1> DEFINE Turn(p, x) == WithTexture(p, x)
           G(f, n) == IF n = 0 THEN AssetStarted(m, d, mesh) ELSE UNION {Turn(p, maps[n]) : p \in f[n - 1]}
           after == CHOOSE f : f = [n \in 0 .. Len(maps) |-> G(f, n)]
<1>1. InTurn(AssetStarted(m, d, mesh), maps, WithTexture) = after[Len(maps)]
  BY DEF InTurn
<1>2. Len(maps) \in Nat
  BY DriverAssumption
<1>3. PICK f : IsRun(f, "map", 0, AssetStarted(m, d, mesh), maps, Len(maps))
  BY <1>2, RunExists
<1>4. \A p, x : Stage("map", 0, p, x) = Turn(p, x)
  BY DEF Stage
<1> HIDE DEF Turn
<1>5. \A n \in 0 .. Len(maps) : Staged(f, "map", 0, AssetStarted(m, d, mesh), maps, n) = G(f, n)
  BY <1>4 DEF Staged
<1>6. after = [n \in 0 .. Len(maps) |-> G(after, n)]
  <2> HIDE DEF G
  <2>1. f = [n \in 0 .. Len(maps) |-> G(f, n)]
    BY <1>3, <1>5 DEF IsRun
  <2> QED BY <2>1
<1>7. \A n \in 0 .. Len(maps) : Staged(after, "map", 0, AssetStarted(m, d, mesh), maps, n) = G(after, n)
  BY <1>4 DEF Staged
<1> HIDE DEF after, G
<1>8. IsRun(after, "map", 0, AssetStarted(m, d, mesh), maps, Len(maps))
  BY <1>6, <1>7 DEF IsRun
<1> QED BY <1>1, <1>8

(* The default images, one after the other.                                *)
LEMMA DefaultRun ==
  ASSUME NEW m, NEW d,
         Len(SetToSeq(Defaults)) \in Nat, NEW o \in CreateCore(m, d)
  PROVE  \E f : IsRun(f, "default", 0, Tried(m, FrameBuffersMade(d)), SetToSeq(Defaults), Len(SetToSeq(Defaults))) /\ o \in f[Len(SetToSeq(Defaults))]
<1> DEFINE Turn(p, x) == DefaultMade(p, x)
           G(f, n) == IF n = 0 THEN Tried(m, FrameBuffersMade(d)) ELSE UNION {Turn(p, SetToSeq(Defaults)[n]) : p \in f[n - 1]}
           after == CHOOSE f : f = [n \in 0 .. Len(SetToSeq(Defaults)) |-> G(f, n)]
<1>1. CreateCore(m, d) = after[Len(SetToSeq(Defaults))]
  BY DEF InTurn, CreateCore
<1>2. Len(SetToSeq(Defaults)) \in Nat
  BY DriverAssumption
<1>3. PICK f : IsRun(f, "default", 0, Tried(m, FrameBuffersMade(d)), SetToSeq(Defaults), Len(SetToSeq(Defaults)))
  BY <1>2, RunExists
<1>4. \A p, x : Stage("default", 0, p, x) = Turn(p, x)
  BY DEF Stage
<1> HIDE DEF Turn
<1>5. \A n \in 0 .. Len(SetToSeq(Defaults)) : Staged(f, "default", 0, Tried(m, FrameBuffersMade(d)), SetToSeq(Defaults), n) = G(f, n)
  BY <1>4 DEF Staged
<1>6. after = [n \in 0 .. Len(SetToSeq(Defaults)) |-> G(after, n)]
  <2> HIDE DEF G
  <2>1. f = [n \in 0 .. Len(SetToSeq(Defaults)) |-> G(f, n)]
    BY <1>3, <1>5 DEF IsRun
  <2> QED BY <2>1
<1>7. \A n \in 0 .. Len(SetToSeq(Defaults)) : Staged(after, "default", 0, Tried(m, FrameBuffersMade(d)), SetToSeq(Defaults), n) = G(after, n)
  BY <1>4 DEF Staged
<1> HIDE DEF after, G
<1>8. IsRun(after, "default", 0, Tried(m, FrameBuffersMade(d)), SetToSeq(Defaults), Len(SetToSeq(Defaults)))
  BY <1>6, <1>7 DEF IsRun
<1> QED BY <1>1, <1>8

(* The meshes that go, one after the other.                                *)
LEMMA DestroyRun ==
  ASSUME NEW s, NEW gone,
         Len(SetToSeq(gone)) \in Nat, NEW o \in DestroyMeshes(s, gone)
  PROVE  \E f : IsRun(f, "destroy", 0, {s}, SetToSeq(gone), Len(SetToSeq(gone))) /\ o \in f[Len(SetToSeq(gone))]
<1> DEFINE Turn(p, x) == {DestroyMesh(p, x)}
           G(f, n) == IF n = 0 THEN {s} ELSE UNION {Turn(p, SetToSeq(gone)[n]) : p \in f[n - 1]}
           after == CHOOSE f : f = [n \in 0 .. Len(SetToSeq(gone)) |-> G(f, n)]
<1>1. DestroyMeshes(s, gone) = after[Len(SetToSeq(gone))]
  BY DEF InTurn, DestroyMeshes
<1>2. Len(SetToSeq(gone)) \in Nat
  BY DriverAssumption
<1>3. PICK f : IsRun(f, "destroy", 0, {s}, SetToSeq(gone), Len(SetToSeq(gone)))
  BY <1>2, RunExists
<1>4. \A p, x : Stage("destroy", 0, p, x) = Turn(p, x)
  BY DEF Stage
<1> HIDE DEF Turn
<1>5. \A n \in 0 .. Len(SetToSeq(gone)) : Staged(f, "destroy", 0, {s}, SetToSeq(gone), n) = G(f, n)
  BY <1>4 DEF Staged
<1>6. after = [n \in 0 .. Len(SetToSeq(gone)) |-> G(after, n)]
  <2> HIDE DEF G
  <2>1. f = [n \in 0 .. Len(SetToSeq(gone)) |-> G(f, n)]
    BY <1>3, <1>5 DEF IsRun
  <2> QED BY <2>1
<1>7. \A n \in 0 .. Len(SetToSeq(gone)) : Staged(after, "destroy", 0, {s}, SetToSeq(gone), n) = G(after, n)
  BY <1>4 DEF Staged
<1> HIDE DEF after, G
<1>8. IsRun(after, "destroy", 0, {s}, SetToSeq(gone), Len(SetToSeq(gone)))
  BY <1>6, <1>7 DEF IsRun
<1> QED BY <1>1, <1>8

(* The meshes to upload, one after the other.                              *)
LEMMA UploadRun ==
  ASSUME NEW s, NEW items,
         Len(items) \in Nat, NEW o \in InTurn({s}, items, UploadMesh)
  PROVE  \E f : IsRun(f, "upload", 0, {s}, items, Len(items)) /\ o \in f[Len(items)]
<1> DEFINE Turn(p, x) == UploadMesh(p, x)
           G(f, n) == IF n = 0 THEN {s} ELSE UNION {Turn(p, items[n]) : p \in f[n - 1]}
           after == CHOOSE f : f = [n \in 0 .. Len(items) |-> G(f, n)]
<1>1. InTurn({s}, items, UploadMesh) = after[Len(items)]
  BY DEF InTurn
<1>2. Len(items) \in Nat
  BY DriverAssumption
<1>3. PICK f : IsRun(f, "upload", 0, {s}, items, Len(items))
  BY <1>2, RunExists
<1>4. \A p, x : Stage("upload", 0, p, x) = Turn(p, x)
  BY DEF Stage
<1> HIDE DEF Turn
<1>5. \A n \in 0 .. Len(items) : Staged(f, "upload", 0, {s}, items, n) = G(f, n)
  BY <1>4 DEF Staged
<1>6. after = [n \in 0 .. Len(items) |-> G(after, n)]
  <2> HIDE DEF G
  <2>1. f = [n \in 0 .. Len(items) |-> G(f, n)]
    BY <1>3, <1>5 DEF IsRun
  <2> QED BY <2>1
<1>7. \A n \in 0 .. Len(items) : Staged(after, "upload", 0, {s}, items, n) = G(after, n)
  BY <1>4 DEF Staged
<1> HIDE DEF after, G
<1>8. IsRun(after, "upload", 0, {s}, items, Len(items))
  BY <1>6, <1>7 DEF IsRun
<1> QED BY <1>1, <1>8

(* The drawn meshes, one after the other.                                  *)
LEMMA MaterialsRun ==
  ASSUME NEW s, NEW draws,
         Len(draws) \in Nat, NEW o \in InTurn({s}, draws, MaterialUploaded)
  PROVE  \E f : IsRun(f, "materials", 0, {s}, draws, Len(draws)) /\ o \in f[Len(draws)]
<1> DEFINE Turn(p, x) == MaterialUploaded(p, x)
           G(f, n) == IF n = 0 THEN {s} ELSE UNION {Turn(p, draws[n]) : p \in f[n - 1]}
           after == CHOOSE f : f = [n \in 0 .. Len(draws) |-> G(f, n)]
<1>1. InTurn({s}, draws, MaterialUploaded) = after[Len(draws)]
  BY DEF InTurn
<1>2. Len(draws) \in Nat
  BY DriverAssumption
<1>3. PICK f : IsRun(f, "materials", 0, {s}, draws, Len(draws))
  BY <1>2, RunExists
<1>4. \A p, x : Stage("materials", 0, p, x) = Turn(p, x)
  BY DEF Stage
<1> HIDE DEF Turn
<1>5. \A n \in 0 .. Len(draws) : Staged(f, "materials", 0, {s}, draws, n) = G(f, n)
  BY <1>4 DEF Staged
<1>6. after = [n \in 0 .. Len(draws) |-> G(after, n)]
  <2> HIDE DEF G
  <2>1. f = [n \in 0 .. Len(draws) |-> G(f, n)]
    BY <1>3, <1>5 DEF IsRun
  <2> QED BY <2>1
<1>7. \A n \in 0 .. Len(draws) : Staged(after, "materials", 0, {s}, draws, n) = G(after, n)
  BY <1>4 DEF Staged
<1> HIDE DEF after, G
<1>8. IsRun(after, "materials", 0, {s}, draws, Len(draws))
  BY <1>6, <1>7 DEF IsRun
<1> QED BY <1>1, <1>8

(* The draws of the interface, one after the other.                        *)
LEMMA DrawRun ==
  ASSUME NEW u, NEW d, NEW slot, NEW draws,
         Len(draws) \in Nat, NEW o \in UploadDraws(u, d, slot, draws)
  PROVE  \E f : IsRun(f, "draw", slot, {[d |-> d, u |-> u, ok |-> TRUE]}, draws, Len(draws)) /\ o \in f[Len(draws)]
<1> DEFINE Turn(p, x) == UploadDraw(p, slot, x)
           G(f, n) == IF n = 0 THEN {[d |-> d, u |-> u, ok |-> TRUE]} ELSE UNION {Turn(p, draws[n]) : p \in f[n - 1]}
           after == CHOOSE f : f = [n \in 0 .. Len(draws) |-> G(f, n)]
<1>1. UploadDraws(u, d, slot, draws) = after[Len(draws)]
  BY DEF InTurn, UploadDraws
<1>2. Len(draws) \in Nat
  BY DriverAssumption
<1>3. PICK f : IsRun(f, "draw", slot, {[d |-> d, u |-> u, ok |-> TRUE]}, draws, Len(draws))
  BY <1>2, RunExists
<1>4. \A p, x : Stage("draw", slot, p, x) = Turn(p, x)
  BY DEF Stage
<1> HIDE DEF Turn
<1>5. \A n \in 0 .. Len(draws) : Staged(f, "draw", slot, {[d |-> d, u |-> u, ok |-> TRUE]}, draws, n) = G(f, n)
  BY <1>4 DEF Staged
<1>6. after = [n \in 0 .. Len(draws) |-> G(after, n)]
  <2> HIDE DEF G
  <2>1. f = [n \in 0 .. Len(draws) |-> G(f, n)]
    BY <1>3, <1>5 DEF IsRun
  <2> QED BY <2>1
<1>7. \A n \in 0 .. Len(draws) : Staged(after, "draw", slot, {[d |-> d, u |-> u, ok |-> TRUE]}, draws, n) = G(after, n)
  BY <1>4 DEF Staged
<1> HIDE DEF after, G
<1>8. IsRun(after, "draw", slot, {[d |-> d, u |-> u, ok |-> TRUE]}, draws, Len(draws))
  BY <1>6, <1>7 DEF IsRun
<1> QED BY <1>1, <1>8

(* The pipelines a swapchain starts with, one after the other.             *)
LEMMA PipelineRun ==
  ASSUME NEW d,
         Len(PlainPipelineOrder) \in Nat, NEW o \in PlainPipelinesMade(d)
  PROVE  \E f : IsRun(f, "pipeline", 0, Returns(d, TRUE), PlainPipelineOrder, Len(PlainPipelineOrder)) /\ o \in f[Len(PlainPipelineOrder)]
<1> DEFINE Turn(p, x) == PlainPipelineMade(p.d, x)
           G(f, n) == IF n = 0 THEN Returns(d, TRUE) ELSE UNION {Turn(p, PlainPipelineOrder[n]) : p \in f[n - 1]}
           after == CHOOSE f : f = [n \in 0 .. Len(PlainPipelineOrder) |-> G(f, n)]
<1>1. PlainPipelinesMade(d) = after[Len(PlainPipelineOrder)]
  BY DEF InTurn, PlainPipelinesMade
<1>2. Len(PlainPipelineOrder) \in Nat
  BY DriverAssumption
<1>3. PICK f : IsRun(f, "pipeline", 0, Returns(d, TRUE), PlainPipelineOrder, Len(PlainPipelineOrder))
  BY <1>2, RunExists
<1>4. \A p, x : Stage("pipeline", 0, p, x) = Turn(p, x)
  BY DEF Stage
<1> HIDE DEF Turn
<1>5. \A n \in 0 .. Len(PlainPipelineOrder) : Staged(f, "pipeline", 0, Returns(d, TRUE), PlainPipelineOrder, n) = G(f, n)
  BY <1>4 DEF Staged
<1>6. after = [n \in 0 .. Len(PlainPipelineOrder) |-> G(after, n)]
  <2> HIDE DEF G
  <2>1. f = [n \in 0 .. Len(PlainPipelineOrder) |-> G(f, n)]
    BY <1>3, <1>5 DEF IsRun
  <2> QED BY <2>1
<1>7. \A n \in 0 .. Len(PlainPipelineOrder) : Staged(after, "pipeline", 0, Returns(d, TRUE), PlainPipelineOrder, n) = G(after, n)
  BY <1>4 DEF Staged
<1> HIDE DEF after, G
<1>8. IsRun(after, "pipeline", 0, Returns(d, TRUE), PlainPipelineOrder, Len(PlainPipelineOrder))
  BY <1>6, <1>7 DEF IsRun
<1> QED BY <1>1, <1>8

(* The uniforms of the frame slots, one after the other.                   *)
LEMMA FrameBufferRun ==
  ASSUME NEW d,
         NEW o \in FrameBuffersMade(d)
  PROVE  \E f : IsRun(f, "frame buffer", 0, Try(d, <<Make(EmptyLayout, {}), Make(MaterialLayout, {})>>), [k \in 1 .. FramesInFlight |-> k], Len([k \in 1 .. FramesInFlight |-> k])) /\ o \in f[Len([k \in 1 .. FramesInFlight |-> k])]
<1> DEFINE Turn(p, x) == IF p.ok THEN FrameBufferMade(p.d, x - 1) ELSE {p}
           G(f, n) == IF n = 0 THEN Try(d, <<Make(EmptyLayout, {}), Make(MaterialLayout, {})>>) ELSE UNION {Turn(p, ([k \in 1 .. FramesInFlight |-> k])[n]) : p \in f[n - 1]}
           after == CHOOSE f : f = [n \in 0 .. Len([k \in 1 .. FramesInFlight |-> k]) |-> G(f, n)]
<1>1. FrameBuffersMade(d) = after[Len([k \in 1 .. FramesInFlight |-> k])]
  BY DEF InTurn, FrameBuffersMade
<1>2. Len([k \in 1 .. FramesInFlight |-> k]) \in Nat
  BY DriverAssumption
<1>3. PICK f : IsRun(f, "frame buffer", 0, Try(d, <<Make(EmptyLayout, {}), Make(MaterialLayout, {})>>), [k \in 1 .. FramesInFlight |-> k], Len([k \in 1 .. FramesInFlight |-> k]))
  BY <1>2, RunExists
<1>4. \A p, x : Stage("frame buffer", 0, p, x) = Turn(p, x)
  BY DEF Stage
<1> HIDE DEF Turn
<1>5. \A n \in 0 .. Len([k \in 1 .. FramesInFlight |-> k]) : Staged(f, "frame buffer", 0, Try(d, <<Make(EmptyLayout, {}), Make(MaterialLayout, {})>>), [k \in 1 .. FramesInFlight |-> k], n) = G(f, n)
  BY <1>4 DEF Staged
<1>6. after = [n \in 0 .. Len([k \in 1 .. FramesInFlight |-> k]) |-> G(after, n)]
  <2> HIDE DEF G
  <2>1. f = [n \in 0 .. Len([k \in 1 .. FramesInFlight |-> k]) |-> G(f, n)]
    BY <1>3, <1>5 DEF IsRun
  <2> QED BY <2>1
<1>7. \A n \in 0 .. Len([k \in 1 .. FramesInFlight |-> k]) : Staged(after, "frame buffer", 0, Try(d, <<Make(EmptyLayout, {}), Make(MaterialLayout, {})>>), [k \in 1 .. FramesInFlight |-> k], n) = G(after, n)
  BY <1>4 DEF Staged
<1> HIDE DEF after, G
<1>8. IsRun(after, "frame buffer", 0, Try(d, <<Make(EmptyLayout, {}), Make(MaterialLayout, {})>>), [k \in 1 .. FramesInFlight |-> k], Len([k \in 1 .. FramesInFlight |-> k]))
  BY <1>6, <1>7 DEF IsRun
<1> QED BY <1>1, <1>8

-----------------------------------------------------------------------------
(* Reflections.                                                            *)

IsMaterials(m) == DOMAIN m = DOMAIN NoMaterials /\ DOMAIN m.gate = DOMAIN FreshGate
IsOutcome(o) == {"d", "m", "ok"} \subseteq DOMAIN o

(* An upload changes nothing that decides about reflections.               *)
Alike(m, n) ==
  /\ IsMaterials(n)
  /\ n.device = m.device /\ n.shows = m.shows /\ n.written = m.written
  /\ n.prepared = m.prepared /\ n.gate = m.gate

(* Materials are like themselves.                                          *)
LEMMA AlikeItself ==
  ASSUME NEW m, IsMaterials(m)
  PROVE  Alike(m, m)
BY DEF Alike

(* Changes that do not touch the reflections compose.                      *)
LEMMA AlikeThen ==
  ASSUME NEW m, NEW n, NEW k, Alike(m, n), Alike(n, k)
  PROVE  Alike(m, k)
BY DEF Alike

(* Of the fields of Impl these decide nothing about reflections.           *)
LEMMA AlikeFields ==
  ASSUME NEW m, IsMaterials(m), NEW v, NEW w
  PROVE  /\ Alike(m, [m EXCEPT !.used = v]) /\ Alike(m, [m EXCEPT !.pending = v])
         /\ Alike(m, [m EXCEPT !.used = v, !.pending = w])
         /\ Alike(m, [m EXCEPT !.defaults = v]) /\ Alike(m, [m EXCEPT !.brdf = v])
         /\ Alike(m, [m EXCEPT !.ready = v]) /\ Alike(m, [m EXCEPT !.attemptedCore = v])
BY DEF Alike, IsMaterials, NoMaterials

(* ~TextureImage changes the budget alone.                                 *)
LEMMA ReleasedAlike ==
  ASSUME NEW m, IsMaterials(m), NEW d, NEW names
  PROVE  /\ Alike(m, Released(m, d, names).m)
         /\ DOMAIN Released(m, d, names) = {"d", "m"}
BY AlikeFields DEF Released

(* uploadPixels changes nothing that decides about reflections.            *)
LEMMA UploadPixelsAlike ==
  ASSUME NEW m, IsMaterials(m), NEW d, NEW name, NEW o \in UploadPixels(m, d, name)
  PROVE  Alike(m, o.m) /\ IsOutcome(o)
<1>1. CASE o.m = m /\ IsOutcome(o)
  BY <1>1, AlikeItself
<1>2. CASE \E s : o \in Confirmed(m, s, name)
  <2>1. PICK s : o \in Confirmed(m, s, name)
    BY <1>2
  <2>2. PICK w \in WaitIdle(s) :
          o \in (IF ~ w.ok
         THEN {[d |-> w.d, m |-> [m EXCEPT !.used = @ + 1, !.pending = {name}], ok |-> FALSE]}
         ELSE {[d |-> IF v.ok THEN v.d ELSE Destroy(v.d, ImageObjects(name)), ok |-> v.ok,
                m |-> IF v.ok THEN [m EXCEPT !.used = @ + 1] ELSE m] :
                 v \in Try(Destroy(w.d, StagingObjects), <<Make(ImageView(name), {Image(name)})>>)})
    BY <2>1 DEF Confirmed
  <2>3. \/ o.m = m
        \/ o.m = [m EXCEPT !.used = m.used + 1]
        \/ o.m = [m EXCEPT !.used = m.used + 1, !.pending = {name}]
    <3>1. CASE ~ w.ok
      BY <2>2, <3>1
    <3>2. CASE w.ok
      BY <2>2, <3>2
    <3> QED BY <3>1, <3>2
  <2>4. IsOutcome(o)
    BY <2>2 DEF IsOutcome
  <2>5. Alike(m, o.m)
    BY <2>3 DEF Alike, IsMaterials, NoMaterials
  <2> QED BY <2>4, <2>5
<1>3. (o.m = m /\ IsOutcome(o)) \/ \E s : o \in Confirmed(m, s, name)
  <2>1. CASE m.pending # {}
    BY <2>1 DEF UploadPixels, IsOutcome
  <2>2. CASE m.pending = {}
    <3>1. PICK s : o \in (IF s.ok THEN Confirmed(m, Submit(s.d, OneTime, UploadWork(name)), name)
              ELSE {[d |-> Destroy(s.d, StagingObjects \cup ImageObjects(name)), m |-> m, ok |-> FALSE]})
      BY <2>2 DEF UploadPixels
    <3> QED BY <3>1 DEF IsOutcome
  <2> QED BY <2>1, <2>2
<1> QED BY <1>1, <1>2, <1>3

(* retirePendingUpload changes nothing that decides about reflections.     *)
LEMMA RetirePendingAlike ==
  ASSUME NEW m, IsMaterials(m), NEW d, NEW o \in RetirePending(m, d)
  PROVE  Alike(m, o.m) /\ IsOutcome(o)
<1>1. CASE o.m = m /\ IsOutcome(o)
  BY <1>1, AlikeItself
<1>2. CASE \E e : o = Answers(Released([m EXCEPT !.pending = {}], e, m.pending), TRUE)
  <2>1. PICK e, n : /\ o = Answers(Released(n, e, m.pending), TRUE)
                    /\ n = [m EXCEPT !.pending = {}]
    BY <1>2
  <2>2. Alike(m, n)
    BY <2>1, AlikeFields
  <2>3. IsMaterials(n)
    BY <2>2 DEF Alike
  <2>4. Alike(n, Released(n, e, m.pending).m)
    BY <2>3, ReleasedAlike
  <2>5. o.m = Released(n, e, m.pending).m /\ IsOutcome(o)
    BY <2>1 DEF Answers, IsOutcome
  <2> QED BY <2>2, <2>4, <2>5, AlikeThen
<1>3. \/ o.m = m /\ IsOutcome(o)
      \/ \E e : o = Answers(Released([m EXCEPT !.pending = {}], e, m.pending), TRUE)
  <2>1. CASE m.pending = {}
    <3>1. o = [d |-> d, m |-> m, ok |-> TRUE]
      BY <2>1 DEF RetirePending
    <3> QED BY <3>1 DEF IsOutcome
  <2>2. CASE m.pending # {}
    <3>1. PICK w : o = IF w.ok
        THEN Answers(Released([m EXCEPT !.pending = {}], Destroy(w.d, StagingObjects), m.pending), TRUE)
        ELSE [d |-> w.d, m |-> m, ok |-> FALSE]
      BY <2>2 DEF RetirePending
    <3>2. CASE w.ok
      <4>1. PICK e : e = Destroy(w.d, StagingObjects)
        OBVIOUS
      <4> QED BY <3>1, <3>2, <4>1
    <3>3. CASE ~ w.ok
      BY <3>1, <3>3 DEF IsOutcome
    <3> QED BY <3>2, <3>3
  <2> QED BY <2>1, <2>2
<1> QED BY <1>1, <1>2, <1>3

(* finishPendingUpload changes nothing that decides about reflections.     *)
LEMMA FinishPendingAlike ==
  ASSUME NEW m, IsMaterials(m), NEW d, NEW o \in FinishPending(m, d)
  PROVE  Alike(m, o.m)
<1>1. PICK p \in Again(RetirePending(m, d)) : IF p.ok THEN o = p ELSE o \in RetirePending(p.m, p.d)
  BY DEF FinishPending, Again
<1>2. PICK q \in RetirePending(m, d) : IF q.ok THEN p = q ELSE p \in RetirePending(q.m, q.d)
  BY <1>1 DEF Again
<1>3. Alike(m, q.m)
  BY <1>2, RetirePendingAlike
<1>4. Alike(m, p.m)
  <2>1. IsMaterials(q.m)
    BY <1>3 DEF Alike
  <2>2. p \in RetirePending(q.m, q.d) => Alike(q.m, p.m)
    BY <2>1, RetirePendingAlike
  <2> QED BY <1>2, <1>3, <2>2, AlikeThen
<1>5. IsMaterials(p.m)
  BY <1>4 DEF Alike
<1>6. o \in RetirePending(p.m, p.d) => Alike(p.m, o.m)
  BY <1>5, RetirePendingAlike
<1> QED BY <1>1, <1>4, <1>6, AlikeThen

(* createCore changes nothing that decides about reflections.              *)
LEMMA CreateCoreAlike ==
  ASSUME NEW m, IsMaterials(m), NEW d, NEW o \in CreateCore(m, d), Len(SetToSeq(Defaults)) \in Nat
  PROVE  Alike(m, o.m) /\ IsOutcome(o)
<1>1. PICK outcomes, items, last : outcomes = Tried(m, FrameBuffersMade(d)) /\ items = SetToSeq(Defaults) /\ last = Len(items)
  OBVIOUS
<1>2. PICK f : IsRun(f, "default", 0, outcomes, items, last) /\ o \in f[last]
  BY <1>1, DefaultRun
<1> DEFINE G == {p \in Reached(f, last) : Alike(m, p.m) /\ IsOutcome(p)}
<1>3. \A p \in outcomes : Alike(m, p.m) /\ IsOutcome(p)
  BY <1>1, AlikeItself DEF Tried, IsOutcome
<1>4. ASSUME NEW p, Alike(m, p.m), IsOutcome(p), NEW name, NEW q \in Stage("default", 0, p, name)
      PROVE  Alike(m, q.m) /\ IsOutcome(q)
  <2>1. q \in DefaultMade(p, name)
    BY <1>4 DEF Stage
  <2>2. CASE ~ p.ok
    BY <1>4, <2>1, <2>2 DEF DefaultMade
  <2>3. CASE p.ok
    <3>1. PICK i \in UploadPixels(p.m, p.d, name) : q = IF i.ok THEN [i EXCEPT !.m.defaults = @ \cup {name}] ELSE i
      BY <2>1, <2>3 DEF DefaultMade
    <3>2. IsMaterials(p.m)
      BY <1>4 DEF Alike
    <3>3. Alike(p.m, i.m) /\ IsOutcome(i)
      BY <3>2, UploadPixelsAlike
    <3>4. IsMaterials(i.m)
      BY <3>3 DEF Alike
    <3>5. q.m = i.m \/ q.m = [i.m EXCEPT !.defaults = i.m.defaults \cup {name}]
      BY <3>1, <3>3 DEF IsOutcome
    <3>6. Alike(i.m, q.m)
      BY <3>4, <3>5 DEF Alike, IsMaterials, NoMaterials
    <3>7. IsOutcome(q)
      BY <3>1, <3>3 DEF IsOutcome
    <3> QED BY <1>4, <3>3, <3>6, <3>7, AlikeThen
  <2> QED BY <2>2, <2>3
<1>5. last \in Nat
  BY <1>1
<1>6. \A p \in outcomes \cap Reached(f, last) : p \in G
  BY <1>3
<1>7. \A n \in 1 .. last : \A p \in f[n - 1] \cap G :
        \A q \in Stage("default", 0, p, items[n]) \cap Reached(f, last) : q \in G
  BY <1>4
<1> HIDE DEF G
<1>8. f[last] \subseteq G
  BY <1>2, <1>5, <1>6, <1>7, RunKeeps
<1> QED BY <1>2, <1>8 DEF G

(* SetToSeq names every element of a finite set once.                      *)
LEMMA SeqOfSet ==
  ASSUME NEW S, IsFiniteSet(S)
  PROVE  /\ Len(SetToSeq(S)) = Cardinality(S) /\ Cardinality(S) \in Nat
         /\ SetToSeq(S) \in [1 .. Cardinality(S) -> S]
         /\ \A x \in S : \E i \in 1 .. Cardinality(S) : SetToSeq(S)[i] = x
         /\ \A i, j \in 1 .. Cardinality(S) : SetToSeq(S)[i] = SetToSeq(S)[j] => i = j
<1>1. Cardinality(S) \in Nat /\ ExistsBijection(1 .. Cardinality(S), S)
  BY FS_CardinalityType
<1>2. PICK n \in Nat : n = Cardinality(S)
  BY <1>1
<1>3. PICK g \in Bijection(1 .. n, S) : TRUE
  BY <1>1, <1>2 DEF ExistsBijection
<1>4. g \in [1 .. n -> S] /\ IsInjective(g)
  BY <1>3 DEF Bijection, Injection
<1>5. PICK f : f = SetToSeq(S)
  OBVIOUS
<1>6. f = CHOOSE h \in [1 .. n -> S] : IsInjective(h)
  BY <1>2, <1>5 DEF SetToSeq
<1>7. f \in [1 .. n -> S] /\ IsInjective(f)
  BY <1>4, <1>6
<1>8. f \in Surjection(1 .. n, S)
  <2>1. f \in Injection(1 .. n, S)
    BY <1>7 DEF Injection
  <2>2. IsFiniteSet(1 .. n) /\ Cardinality(1 .. n) = n
    BY FS_Interval
  <2> QED BY <1>2, <2>1, <2>2, FS_Injection
<1>9. Len(f) = n
  BY <1>7
<1>10. \A x \in S : \E i \in 1 .. n : f[i] = x
  BY <1>8 DEF Surjection
<1>11. \A i, j \in 1 .. n : f[i] = f[j] => i = j
  BY <1>7 DEF IsInjective
<1> QED BY <1>2, <1>5, <1>7, <1>9, <1>10, <1>11

-----------------------------------------------------------------------------
(* What decides about reflections.  The reflections at hand are those the  *)
(* set was written for and the gate has on record.                         *)
Reflects(m) ==
  /\ IsMaterials(m)
  /\ m.shows # NoSky => m.written = m.shows /\ m.gate.completed = m.shows
  /\ ~ m.device => m.shows = NoSky
(* What is prepared for a frame is of its sky.                             *)
ReflectsFor(m, sky) ==
  Reflects(m) /\ (m.prepared => m.shows = sky /\ sky # NoSky)

(* What is like materials with consistent reflections has them too.        *)
LEMMA AlikeReflects ==
  ASSUME NEW m, Reflects(m), NEW n, Alike(m, n)
  PROVE  Reflects(n) /\ n.device = m.device /\ n.prepared = m.prepared /\ n.shows = m.shows
BY DEF Reflects, Alike

(* Observing, suspending and deactivating the generation gate leave on     *)
(* record which sky was completed.                                         *)
LEMMA GateKept ==
  ASSUME NEW gate, DOMAIN gate = DOMAIN FreshGate, NEW sky
  PROVE  /\ DOMAIN Observed(gate, sky) = DOMAIN FreshGate
         /\ Observed(gate, sky).completed = gate.completed
         /\ DOMAIN Suspended(gate) = DOMAIN FreshGate /\ Suspended(gate).completed = gate.completed
         /\ DOMAIN Deactivated(gate) = DOMAIN FreshGate /\ Deactivated(gate).completed = gate.completed
         /\ sky # NoSky => Observed(gate, sky).observed = sky
<1>1. /\ DOMAIN Suspended(gate) = DOMAIN FreshGate /\ Suspended(gate).completed = gate.completed
  BY DEF Suspended, FreshGate
<1>2. /\ DOMAIN Deactivated(gate) = DOMAIN FreshGate /\ Deactivated(gate).completed = gate.completed
  BY <1>1 DEF Deactivated, FreshGate
<1>3. CASE sky = NoSky
  BY <1>1, <1>2, <1>3 DEF Observed
<1>4. CASE sky # NoSky /\ sky = gate.observed
  BY <1>1, <1>2, <1>4 DEF Observed, FreshGate
<1>5. CASE sky # NoSky /\ sky # gate.observed
  BY <1>1, <1>2, <1>5 DEF Observed, FreshGate
<1> QED BY <1>3, <1>4, <1>5

(* An attempt is recorded for the observed sky, a completion for the       *)
(* attempted one.                                                          *)
LEMMA AttemptingKept ==
  ASSUME NEW gate, DOMAIN gate = DOMAIN FreshGate
  PROVE  /\ DOMAIN Attempting(gate) = DOMAIN FreshGate /\ Attempting(gate).completed = gate.completed
         /\ Attempting(gate).attempted = gate.observed
         /\ DOMAIN Completed(gate) = DOMAIN FreshGate /\ Completed(gate).completed = gate.attempted
BY DEF Attempting, Completed, FreshGate

(* Another gate that completed the same.                                   *)
LEMMA OtherGate ==
  ASSUME NEW m, Reflects(m), NEW gate, DOMAIN gate = DOMAIN FreshGate, gate.completed = m.gate.completed
  PROVE  LET n == [m EXCEPT !.gate = gate]
         IN  /\ Reflects(n) /\ n.device = m.device /\ n.prepared = m.prepared /\ n.shows = m.shows
             /\ n.gate = gate /\ n.brdf = m.brdf
BY DEF Reflects, IsMaterials, NoMaterials

(* Asking the gate changes no reflections, and records the sky an attempt  *)
(* is for.                                                                 *)
LEMMA AskedReflects ==
  ASSUME NEW m, Reflects(m), NEW sky, NEW cooled
  PROVE  LET n == Asked(m, sky, cooled)
         IN  /\ Reflects(n) /\ n.device = m.device /\ n.prepared = m.prepared /\ n.shows = m.shows
             /\ sky # NoSky /\ Generates(Observed(m.gate, sky), cooled) => n.gate.attempted = sky
<1>1. PICK g, a : g = Observed(m.gate, sky) /\ a = Attempting(g)
  OBVIOUS
<1>2. /\ DOMAIN g = DOMAIN FreshGate /\ g.completed = m.gate.completed
      /\ sky # NoSky => g.observed = sky
  BY <1>1, GateKept DEF Reflects, IsMaterials
<1>3. /\ DOMAIN a = DOMAIN FreshGate /\ a.completed = m.gate.completed /\ a.attempted = g.observed
  BY <1>1, <1>2, AttemptingKept
<1>4. PICK gate : gate = IF sky # NoSky /\ Generates(g, cooled) THEN a ELSE g
  OBVIOUS
<1>5. Asked(m, sky, cooled) = [m EXCEPT !.gate = gate]
  BY <1>1, <1>4 DEF Asked
<1>6. DOMAIN gate = DOMAIN FreshGate /\ gate.completed = m.gate.completed
  BY <1>2, <1>3, <1>4
<1>7. PICK n : n = [m EXCEPT !.gate = gate]
  OBVIOUS
<1>8. /\ Reflects(n) /\ n.device = m.device /\ n.prepared = m.prepared /\ n.shows = m.shows
      /\ n.gate = gate
  BY <1>6, <1>7, OtherGate
<1> QED BY <1>1, <1>2, <1>3, <1>4, <1>5, <1>7, <1>8

(* Uploading the lobe table changes no reflections.                        *)
LEMMA TableMadeAlike ==
  ASSUME NEW m, IsMaterials(m), NEW d, NEW o \in TableMade(m, d)
  PROVE  Alike(m, o.m) /\ IsOutcome(o)
<1>1. CASE m.brdf
  <2>1. o = [d |-> d, m |-> m, ok |-> TRUE]
    BY <1>1 DEF TableMade
  <2> QED BY <2>1, AlikeItself DEF IsOutcome
<1>2. CASE ~ m.brdf
  <2>1. PICK i \in UploadPixels(m, d, BrdfTable) : o = IF i.ok THEN [i EXCEPT !.m.brdf = TRUE] ELSE i
    BY <1>2 DEF TableMade
  <2>2. Alike(m, i.m) /\ IsOutcome(i)
    BY UploadPixelsAlike
  <2>3. o.m = i.m \/ o.m = [i.m EXCEPT !.brdf = TRUE]
    BY <2>1, <2>2 DEF IsOutcome
  <2>4. Alike(i.m, o.m)
    BY <2>2, <2>3 DEF Alike, IsMaterials, NoMaterials
  <2>5. IsOutcome(o)
    BY <2>1, <2>2 DEF IsOutcome
  <2> QED BY <2>2, <2>4, <2>5, AlikeThen
<1> QED BY <1>1, <1>2

(* The reflections of a sky that was attempted.                            *)
LEMMA BindReflects ==
  ASSUME NEW m, Reflects(m), m.device, NEW sky, sky # NoSky, m.gate.attempted = sky, ~ m.prepared,
         NEW d, NEW o \in BindEnvironment(m, d, sky)
  PROVE  ReflectsFor(o.m, sky) /\ o.m.device
<1>1. PICK b \in EnvironmentMade(d) :
        o = Answers(IF b.ok THEN Replace(m, b.d, sky) ELSE Released(m, b.d, {sky}), b.ok)
  BY DEF BindEnvironment
<1>2. CASE b.ok
  <2>1. PICK n, e, names :
          /\ n = [m EXCEPT !.shows = sky, !.written = sky, !.prepared = TRUE, !.gate = Completed(@)]
          /\ o.m = Released(n, e, names).m
    BY <1>1, <1>2 DEF Replace, Answers
  <2>2. IsMaterials(n) /\ n.shows = sky /\ n.written = sky /\ n.gate.completed = sky /\ n.device
    <3>1. PICK g : g = Completed(m.gate)
      OBVIOUS
    <3>2. DOMAIN g = DOMAIN FreshGate /\ g.completed = m.gate.attempted
      BY <3>1, AttemptingKept DEF Reflects, IsMaterials
    <3>3. n = [m EXCEPT !.shows = sky, !.written = sky, !.prepared = TRUE, !.gate = g]
      BY <2>1, <3>1
    <3> QED BY <3>2, <3>3 DEF Reflects, IsMaterials, NoMaterials
  <2>3. Reflects(n)
    BY <2>2 DEF Reflects
  <2>4. Alike(n, o.m)
    BY <2>1, <2>2, ReleasedAlike
  <2> QED BY <2>2, <2>3, <2>4, AlikeReflects DEF ReflectsFor
<1>3. CASE ~ b.ok
  <2>1. o.m = Released(m, b.d, {sky}).m
    BY <1>1, <1>3 DEF Answers
  <2>2. Alike(m, o.m)
    BY <2>1, ReleasedAlike DEF Reflects
  <2>3. Reflects(o.m) /\ o.m.device /\ o.m.prepared = m.prepared
    BY <2>2, AlikeReflects
  <2> QED BY <2>3 DEF ReflectsFor
<1> QED BY <1>2, <1>3

(* The images and the set of a sky, made or not: the reflections at hand   *)
(* stay consistent.                                                        *)
LEMMA EnvironmentReflects ==
  ASSUME NEW m, Reflects(m), m.device, NEW sky, sky # NoSky, m.gate.attempted = sky, ~ m.prepared,
         NEW d, NEW o \in Environment(m, d, sky)
  PROVE  ReflectsFor(o.m, sky) /\ o.m.device
<1>1. PICK q \in Continue(TableMade(m, d), LAMBDA n, e : UploadPixels(n, e, sky)) :
        IF q.ok THEN o \in BindEnvironment(q.m, q.d, sky) ELSE o = q
  BY DEF Environment, Continue
<1>2. PICK p \in TableMade(m, d) : IF p.ok THEN q \in UploadPixels(p.m, p.d, sky) ELSE q = p
  BY <1>1 DEF Continue
<1>3. IsMaterials(m)
  BY DEF Reflects
<1>4. Alike(m, p.m)
  BY <1>2, <1>3, TableMadeAlike
<1>5. Alike(m, q.m)
  <2>1. IsMaterials(p.m)
    BY <1>4 DEF Alike
  <2>2. q \in UploadPixels(p.m, p.d, sky) => Alike(p.m, q.m)
    BY <2>1, UploadPixelsAlike
  <2> QED BY <1>2, <1>4, <2>2, AlikeThen
<1>6. Reflects(q.m) /\ q.m.device /\ ~ q.m.prepared /\ q.m.gate.attempted = sky
  <2>1. Reflects(q.m) /\ q.m.device = m.device /\ q.m.prepared = m.prepared
    BY <1>5, AlikeReflects
  <2>2. q.m.gate = m.gate
    BY <1>5 DEF Alike
  <2> QED BY <2>1, <2>2
<1>7. q.ok => ReflectsFor(o.m, sky) /\ o.m.device
  BY <1>1, <1>6, BindReflects
<1>8. ~ q.ok => ReflectsFor(o.m, sky) /\ o.m.device
  BY <1>1, <1>6 DEF ReflectsFor
<1> QED BY <1>7, <1>8

(* prepareEnvironment                                                      *)
LEMMA PrepareEnvironmentReflects ==
  ASSUME NEW m, Reflects(m), m.device, ~ m.prepared, NEW sky, NEW cooled, NEW d,
         NEW o \in PrepareEnvironment(m, d, sky, cooled)
  PROVE  ReflectsFor(o.m, sky) /\ o.m.device /\ IsOutcome(o)
<1>1. PICK n : n = Asked(m, sky, cooled)
  OBVIOUS
<1>2. /\ Reflects(n) /\ n.device = m.device /\ n.prepared = m.prepared /\ n.shows = m.shows
      /\ sky # NoSky /\ Generates(Observed(m.gate, sky), cooled) => n.gate.attempted = sky
  BY <1>1, AskedReflects
<1>3. CASE sky # NoSky /\ ~ ShowsSky(m, d, sky) /\ Generates(Observed(m.gate, sky), cooled)
  <2>1. PICK p \in Tried(n, Try(d, <<Call({})>>)) : IF p.ok THEN o \in Environment(p.m, p.d, sky) ELSE o = p
    BY <1>1, <1>3 DEF PrepareEnvironment, Continue
  <2>2. p.m = n /\ IsOutcome(p)
    BY <2>1 DEF Tried, IsOutcome
  <2>3. p.ok => ReflectsFor(o.m, sky) /\ o.m.device
    BY <1>2, <1>3, <2>1, <2>2, EnvironmentReflects
  <2>4. ~ p.ok => ReflectsFor(o.m, sky) /\ o.m.device
    BY <1>2, <2>1, <2>2 DEF ReflectsFor
  <2>5. IsOutcome(o)
    <3>1. ASSUME NEW k, NEW e, NEW x \in Environment(k, e, sky), IsMaterials(k)
          PROVE  IsOutcome(x)
      <4>1. PICK q \in Continue(TableMade(k, e), LAMBDA i, c : UploadPixels(i, c, sky)) :
              IF q.ok THEN x \in BindEnvironment(q.m, q.d, sky) ELSE x = q
        BY <3>1 DEF Environment, Continue
      <4>2. PICK r \in TableMade(k, e) : IF r.ok THEN q \in UploadPixels(r.m, r.d, sky) ELSE q = r
        BY <4>1 DEF Continue
      <4>3. Alike(k, r.m) /\ IsOutcome(r)
        BY <3>1, <4>2, TableMadeAlike
      <4>4. IsOutcome(q)
        <5>1. IsMaterials(r.m)
          BY <4>3 DEF Alike
        <5>2. q \in UploadPixels(r.m, r.d, sky) => IsOutcome(q)
          BY <5>1, UploadPixelsAlike
        <5> QED BY <4>2, <4>3, <5>2
      <4>5. x \in BindEnvironment(q.m, q.d, sky) => IsOutcome(x)
        BY DEF BindEnvironment, Answers, IsOutcome
      <4> QED BY <4>1, <4>4, <4>5
    <3>2. IsMaterials(n)
      BY <1>2 DEF Reflects
    <3>3. o \in Environment(n, p.d, sky) => IsOutcome(o)
      BY <3>1, <3>2
    <3> QED BY <2>1, <2>2, <3>3
  <2> QED BY <1>2, <2>3, <2>4, <2>5
<1>4. CASE ~ (sky # NoSky /\ ~ ShowsSky(m, d, sky) /\ Generates(Observed(m.gate, sky), cooled))
  <2>1. PICK v : v = (n.prepared \/ (sky # NoSky /\ ShowsSky(m, d, sky)))
    OBVIOUS
  <2>2. o = [d |-> d, ok |-> TRUE,
             m |-> [n EXCEPT !.prepared = n.prepared \/ (sky # NoSky /\ ShowsSky(m, d, sky))]]
    BY <1>1, <1>4, Zenon DEF PrepareEnvironment
  <2>3. o.m = [n EXCEPT !.prepared = v] /\ IsOutcome(o)
    BY <2>1, <2>2 DEF IsOutcome
  <2>4. Reflects(o.m) /\ o.m.device = n.device /\ o.m.shows = n.shows /\ o.m.prepared = v
    BY <1>2, <2>3 DEF Reflects, IsMaterials, NoMaterials
  <2>5. v => m.shows = sky /\ sky # NoSky
    BY <1>2, <2>1 DEF ShowsSky
  <2> QED BY <1>2, <2>3, <2>4, <2>5 DEF ReflectsFor
<1> QED BY <1>3, <1>4

(* createCore when it was not attempted, and the sky.                      *)
LEMMA PrepareCoreAlike ==
  ASSUME NEW m, IsMaterials(m), NEW d, NEW o \in PrepareCore(m, d)
  PROVE  Alike(m, o.m) /\ IsOutcome(o)
<1>1. CASE m.attemptedCore
  <2>1. o = [d |-> d, m |-> m, ok |-> m.ready]
    BY <1>1 DEF PrepareCore
  <2> QED BY <2>1, AlikeItself DEF IsOutcome
<1>2. CASE ~ m.attemptedCore
  <2>1. PICK n : n = [m EXCEPT !.attemptedCore = TRUE]
    OBVIOUS
  <2>2. PICK p \in CreateCore(n, d) : o = [p EXCEPT !.m.ready = p.ok]
    BY <1>2, <2>1 DEF PrepareCore
  <2>3. Alike(m, n)
    BY <2>1 DEF Alike, IsMaterials, NoMaterials
  <2>4. Alike(n, p.m) /\ IsOutcome(p)
    <3>1. IsMaterials(n)
      BY <2>3 DEF Alike
    <3>2. Len(SetToSeq(Defaults)) \in Nat
      BY SeqOfSet, MaterialAssumption
    <3> QED BY <2>2, <3>1, <3>2, CreateCoreAlike
  <2>5. o.m = [p.m EXCEPT !.ready = p.ok] /\ IsOutcome(o)
    BY <2>2, <2>4 DEF IsOutcome
  <2>6. Alike(p.m, o.m)
    BY <2>4, <2>5 DEF Alike, IsMaterials, NoMaterials
  <2> QED BY <2>3, <2>4, <2>5, <2>6, AlikeThen
<1> QED BY <1>1, <1>2

(* prepare leaves reflections that are prepared only for the sky the frame *)
(* asked for.                                                              *)
LEMMA PrepareMaterialsReflects ==
  ASSUME NEW m, Reflects(m), m.device, NEW d, NEW slot, NEW wanted, NEW sky, NEW cooled, NEW available,
         NEW o \in PrepareMaterials(m, d, slot, wanted, sky, cooled, available)
  PROVE  ReflectsFor(o.m, sky) /\ o.m.device
<1>1. PICK n : n = Unprepared(m, wanted, sky)
  OBVIOUS
<1>2. Reflects(n) /\ n.device /\ ~ n.prepared
  <2>1. PICK g : g = IF wanted /\ sky # NoSky THEN m.gate ELSE Deactivated(m.gate)
    OBVIOUS
  <2>2. DOMAIN g = DOMAIN FreshGate /\ g.completed = m.gate.completed
    BY <2>1, GateKept DEF Reflects, IsMaterials
  <2>3. n = [m EXCEPT !.prepared = FALSE, !.gate = g]
    BY <1>1, <2>1 DEF Unprepared
  <2> QED BY <2>2, <2>3 DEF Reflects, IsMaterials, NoMaterials
<1>3. PICK r \in RetirePending(n, d) :
        o \in IF ~ r.ok \/ ~ wanted THEN {[r EXCEPT !.m.gate = Suspended(@), !.ok = FALSE]}
         ELSE UNION {IF ~ c.ok THEN {c}
                     ELSE {FillFrame(p, slot) : p \in PrepareSky(c.m, c.d, sky, cooled, available)} :
                     c \in PrepareCore(r.m, r.d)}
  BY <1>1 DEF PrepareMaterials
<1>4. Alike(n, r.m) /\ IsOutcome(r)
  BY <1>2, <1>3, RetirePendingAlike DEF Reflects
<1>5. Reflects(r.m) /\ r.m.device /\ ~ r.m.prepared
  BY <1>2, <1>4, AlikeReflects
<1>6. ASSUME NEW k, Reflects(k), k.device, ~ k.prepared
      PROVE  LET s == [k EXCEPT !.gate = Suspended(k.gate)] IN Reflects(s) /\ s.device /\ ~ s.prepared
  <2>1. PICK g : g = Suspended(k.gate)
    OBVIOUS
  <2>2. DOMAIN g = DOMAIN FreshGate /\ g.completed = k.gate.completed
    BY <1>6, <2>1, GateKept DEF Reflects, IsMaterials
  <2>3. LET s == [k EXCEPT !.gate = g] IN Reflects(s) /\ s.device /\ ~ s.prepared
    BY <1>6, <2>2, OtherGate
  <2> QED BY <2>1, <2>3
<1>7. CASE ~ r.ok \/ ~ wanted
  <2>1. o.m = [r.m EXCEPT !.gate = Suspended(r.m.gate)]
    BY <1>3, <1>4, <1>7 DEF IsOutcome
  <2> QED BY <1>5, <1>6, <2>1 DEF ReflectsFor
<1>8. CASE ~ (~ r.ok \/ ~ wanted)
  <2>1. PICK c \in PrepareCore(r.m, r.d) :
          IF ~ c.ok THEN o = c ELSE \E p \in PrepareSky(c.m, c.d, sky, cooled, available) : o = FillFrame(p, slot)
    BY <1>3, <1>8
  <2>2. Alike(r.m, c.m)
    BY <1>5, <2>1, PrepareCoreAlike DEF Reflects
  <2>3. Reflects(c.m) /\ c.m.device /\ ~ c.m.prepared
    BY <1>5, <2>2, AlikeReflects
  <2>4. CASE ~ c.ok
    BY <2>1, <2>3, <2>4 DEF ReflectsFor
  <2>5. CASE c.ok
    <3>1. PICK p \in PrepareSky(c.m, c.d, sky, cooled, available) : o = FillFrame(p, slot)
      BY <2>1, <2>5
    <3>2. CASE available
      <4>1. p \in PrepareEnvironment(c.m, c.d, sky, cooled)
        BY <3>1, <3>2 DEF PrepareSky
      <4>2. ReflectsFor(p.m, sky) /\ p.m.device /\ IsOutcome(p)
        BY <2>3, <4>1, PrepareEnvironmentReflects
      <4>3. o.m = p.m
        BY <3>1, <4>2 DEF FillFrame, IsOutcome
      <4> QED BY <4>2, <4>3
    <3>3. CASE ~ available
      <4>1. p = [d |-> c.d, m |-> [c.m EXCEPT !.gate = Suspended(c.m.gate)], ok |-> TRUE]
        BY <3>1, <3>3 DEF PrepareSky
      <4>2. p.m = [c.m EXCEPT !.gate = Suspended(c.m.gate)]
        BY <4>1
      <4>3. o.m = p.m
        BY <3>1, <4>1 DEF FillFrame
      <4>4. Reflects(p.m) /\ p.m.device /\ ~ p.m.prepared
        BY <1>6, <2>3, <4>2
      <4> QED BY <4>3, <4>4 DEF ReflectsFor
    <3> QED BY <3>2, <3>3
  <2> QED BY <2>4, <2>5
<1> QED BY <1>7, <1>8

-----------------------------------------------------------------------------
(* The materials of a mesh.                                                *)

(* ~Asset changes nothing that decides about reflections.                  *)
LEMMA DestroyAssetAlike ==
  ASSUME NEW m, IsMaterials(m), NEW d, NEW mesh, NEW names
  PROVE  Alike(m, DestroyAsset(m, d, mesh, names).m)
<1>1. PICK e, f : /\ DestroyAsset(m, d, mesh, names) = [Released(m, e, names) EXCEPT !.d = f]
  BY DEF DestroyAsset
<1>2. DestroyAsset(m, d, mesh, names).m = Released(m, e, names).m
  BY <1>1, ReleasedAlike
<1> QED BY <1>2, ReleasedAlike

IsLoading(o) == {"d", "m", "ok", "images", "fresh"} \subseteq DOMAIN o

(* A map of a material, uploaded or not, changes nothing that decides      *)
(* about reflections.                                                      *)
LEMMA WithTextureAlike ==
  ASSUME NEW o, IsLoading(o), IsMaterials(o.m), NEW content, NEW q \in WithTexture(o, content)
  PROVE  IsLoading(q) /\ Alike(o.m, q.m)
<1>1. CASE ~ o.ok
  <2>1. q = o
    BY <1>1 DEF WithTexture
  <2> QED BY <2>1, AlikeItself
<1>2. CASE o.ok
  <2>1. PICK i \in CachedImage(o.m, o.d, content) :
          q \in IF i.ok THEN SamplerForTexture(o, i, content, Fresh(o.d, content))
                ELSE {[o EXCEPT !.d = i.d, !.m = i.m, !.ok = i.m.pending = {}]}
    BY <1>2 DEF WithTexture
  <2>2. Alike(o.m, i.m)
    <3>1. CASE Image(content) \in o.d.alive
      <4>1. i = [d |-> o.d, m |-> o.m, ok |-> TRUE]
        BY <2>1, <3>1 DEF CachedImage
      <4> QED BY <4>1, AlikeItself
    <3>2. CASE Image(content) \notin o.d.alive
      <4>1. PICK p \in Tried(o.m, Try(o.d, <<Call({})>>)) :
              IF p.ok THEN i \in UploadPixels(p.m, p.d, content) ELSE i = p
        BY <2>1, <3>2 DEF CachedImage, Continue
      <4>2. p.m = o.m
        BY <4>1 DEF Tried
      <4>3. i \in UploadPixels(o.m, p.d, content) => Alike(o.m, i.m)
        BY UploadPixelsAlike
      <4> QED BY <4>1, <4>2, <4>3, AlikeItself
    <3> QED BY <3>1, <3>2
  <2>3. CASE i.ok
    <3>1. PICK s \in SamplerMade(i.d, 1) :
            q = IF s.ok
   THEN [o EXCEPT !.d = s.d, !.m = i.m, !.images = @ \cup {content}, !.fresh = @ \cup Fresh(o.d, content)]
   ELSE [o EXCEPT !.d = Released(i.m, s.d, Fresh(o.d, content)).d, !.m = Released(i.m, s.d, Fresh(o.d, content)).m]
      BY <2>1, <2>3 DEF SamplerForTexture
    <3>2. CASE s.ok
      <4>1. q.m = i.m /\ IsLoading(q)
        BY <3>1, <3>2 DEF IsLoading
      <4> QED BY <2>2, <4>1
    <3>3. CASE ~ s.ok
      <4>1. q.m = Released(i.m, s.d, Fresh(o.d, content)).m /\ IsLoading(q)
        BY <3>1, <3>3 DEF IsLoading
      <4>2. IsMaterials(i.m)
        BY <2>2 DEF Alike
      <4>3. Alike(i.m, q.m)
        BY <4>1, <4>2, ReleasedAlike
      <4> QED BY <2>2, <4>1, <4>3, AlikeThen
    <3> QED BY <3>2, <3>3
  <2>4. CASE ~ i.ok
    <3>1. q.m = i.m /\ IsLoading(q)
      BY <2>1, <2>4 DEF IsLoading
    <3> QED BY <2>2, <3>1
  <2> QED BY <2>3, <2>4
<1> QED BY <1>1, <1>2

(* The upload of a material changes nothing that decides about             *)
(* reflections.                                                            *)
LEMMA UploadAssetAlike ==
  ASSUME NEW m, IsMaterials(m), NEW d, NEW mesh, NEW maps, Len(maps) \in Nat,
         NEW o \in UploadAsset(m, d, mesh, maps)
  PROVE  Alike(m, o.m)
<1>1. CASE ~ m.ready \/ m.pending # {}
  <2>1. o = [d |-> d, m |-> m, ok |-> FALSE, images |-> {}]
    BY <1>1 DEF UploadAsset
  <2> QED BY <2>1, AlikeItself
<1>2. CASE ~ (~ m.ready \/ m.pending # {})
  <2>0. PICK p \in InTurn(AssetStarted(m, d, mesh), maps, WithTexture) : o \in {Uploaded(u, mesh) : u \in SetsMade(p, mesh)}
    BY <1>2 DEF UploadAsset
  <2>1. PICK u \in SetsMade(p, mesh) : o = Uploaded(u, mesh)
    BY <2>0
  <2>2. PICK outcomes, last : outcomes = AssetStarted(m, d, mesh) /\ last = Len(maps)
    OBVIOUS
  <2>3. PICK f : IsRun(f, "map", 0, outcomes, maps, last) /\ p \in f[last]
    BY <2>0, <2>2, TextureRun
  <2> DEFINE G == {x \in Reached(f, last) : Alike(m, x.m) /\ IsLoading(x)}
  <2>4. \A x \in outcomes : Alike(m, x.m) /\ IsLoading(x)
    <3> TAKE x \in outcomes
    <3>1. PICK y : x = [d |-> y.d, m |-> m, ok |-> y.ok, images |-> {}, fresh |-> {}]
      BY <2>2 DEF AssetStarted
    <3>2. x.m = m /\ IsLoading(x)
      BY <3>1 DEF IsLoading
    <3> QED BY <3>2, AlikeItself
  <2>5. \A x \in outcomes \cap Reached(f, last) : x \in G
    BY <2>4
  <2>6. ASSUME NEW n \in 1 .. last, NEW x \in f[n - 1] \cap G, NEW q \in Stage("map", 0, x, maps[n]) \cap Reached(f, last)
        PROVE  q \in G
    <3>1. q \in WithTexture(x, maps[n])
      BY <2>6 DEF Stage
    <3>2. IsMaterials(x.m)
      BY DEF Alike
    <3>3. IsLoading(q) /\ Alike(x.m, q.m)
      BY <3>1, <3>2, WithTextureAlike
    <3> QED BY <3>3, AlikeThen
  <2>7. last \in Nat
    BY <2>2
  <2> HIDE DEF G
  <2>8. f[last] \subseteq G
    BY <2>3, <2>5, <2>6, <2>7, RunKeeps
  <2>9. Alike(m, p.m) /\ IsLoading(p)
    BY <2>3, <2>8 DEF G
  <2>10. u.m = p.m
    BY <2>1, <2>9 DEF SetsMade, IsLoading
  <2>11. CASE u.ok
    <3>1. o.m = u.m
      BY <2>1, <2>11 DEF Uploaded
    <3> QED BY <2>9, <2>10, <3>1
  <2>12. CASE ~ u.ok
    <3>1. o.m = DestroyAsset(u.m, u.d, mesh, u.fresh).m
      BY <2>1, <2>12 DEF Uploaded
    <3>2. IsMaterials(u.m)
      BY <2>9, <2>10 DEF Alike
    <3>3. Alike(u.m, o.m)
      BY <3>1, <3>2, DestroyAssetAlike
    <3> QED BY <2>9, <2>10, <3>3, AlikeThen
  <2> QED BY <2>11, <2>12
<1> QED BY <1>1, <1>2

-----------------------------------------------------------------------------
(* The steps of a frame.                                                   *)

IsRenderer(r) == DOMAIN r = DOMAIN NoRenderer
(* A step of a frame that is about something else.                         *)
SameReflections(s, t) ==
  /\ {"d", "r", "m"} \subseteq DOMAIN t /\ IsRenderer(t.r)
  /\ Alike(s.r.materials, t.r.materials)
  /\ "environment" \in t.r.prepared <=> "environment" \in s.r.prepared
IsSystem(s) == {"d", "r", "m"} \subseteq DOMAIN s /\ IsRenderer(s.r) /\ IsMaterials(s.r.materials)

(* A system has the reflections of itself.                                 *)
LEMMA SameItself ==
  ASSUME NEW s, IsSystem(s)
  PROVE  SameReflections(s, s)
BY AlikeItself DEF SameReflections, IsSystem

(* Steps that leave the reflections alone compose.                         *)
LEMMA SameThen ==
  ASSUME NEW s, NEW t, NEW u, SameReflections(s, t), SameReflections(t, u)
  PROVE  SameReflections(s, u)
BY AlikeThen DEF SameReflections

(* Such a step leads to a system of the same form.                         *)
LEMMA SameIsSystem ==
  ASSUME NEW s, NEW t, SameReflections(s, t)
  PROVE  IsSystem(t)
BY DEF SameReflections, IsSystem, Alike

(* destroyGpuMeshAsset leaves the reflections alone.                       *)
LEMMA DestroyMeshSame ==
  ASSUME NEW s, IsSystem(s), NEW mesh
  PROVE  SameReflections(s, DestroyMesh(s, mesh))
<1>1. PICK gone, x, y :
        /\ DestroyMesh(s, mesh) = [d |-> x, r |-> [s.r EXCEPT !.materials = gone], m |-> y]
        /\ gone = s.r.materials \/ \E d, names : gone = DestroyAsset(s.r.materials, d, mesh, names).m
  BY DEF DestroyMesh
<1>2. Alike(s.r.materials, gone)
  BY <1>1, AlikeItself, DestroyAssetAlike DEF IsSystem
<1> QED BY <1>1, <1>2 DEF SameReflections, IsSystem, IsRenderer, NoRenderer

(* processDeferredMeshDestroys leaves the reflections alone.               *)
LEMMA DestroyMeshesSame ==
  ASSUME NEW s, IsSystem(s), NEW gone, IsFiniteSet(gone), NEW t \in DestroyMeshes(s, gone)
  PROVE  SameReflections(s, t)
<1>1. PICK items, last : items = SetToSeq(gone) /\ last = Len(items)
  OBVIOUS
<1>2. last \in Nat
  BY <1>1, SeqOfSet
<1>3. PICK f : IsRun(f, "destroy", 0, {s}, items, last) /\ t \in f[last]
  BY <1>1, <1>2, DestroyRun
<1> DEFINE G == {x \in Reached(f, last) : SameReflections(s, x)}
<1>4. \A x \in {s} \cap Reached(f, last) : x \in G
  BY SameItself
<1>5. ASSUME NEW n \in 1 .. last, NEW x \in f[n - 1] \cap G, NEW q \in Stage("destroy", 0, x, items[n]) \cap Reached(f, last)
      PROVE  q \in G
  <2>1. q = DestroyMesh(x, items[n])
    BY <1>5 DEF Stage
  <2>2. IsSystem(x)
    BY SameIsSystem
  <2>3. SameReflections(x, q)
    BY <2>1, <2>2, DestroyMeshSame
  <2> QED BY <2>3, SameThen
<1> HIDE DEF G
<1>6. f[last] \subseteq G
  BY <1>2, <1>3, <1>4, <1>5, RunKeeps
<1> QED BY <1>3, <1>6 DEF G

(* processMeshUploadQueue leaves the reflections alone.                    *)
LEMMA UploadMeshesSame ==
  ASSUME NEW s, IsSystem(s), NEW t \in UploadMeshes(s)
  PROVE  SameReflections(s, t)
<1>1. CASE ~ Exists(s.d, "mesh")
  <2>1. t = s
    BY <1>1 DEF UploadMeshes
  <2> QED BY <2>1, SameItself
<1>2. CASE Exists(s.d, "mesh")
  <2>1. PICK items, last : items = SetToSeq(In(s, "pending")) /\ last = Len(items)
    OBVIOUS
  <2>2. last \in Nat
    <3>1. IsFiniteSet(In(s, "pending"))
      BY ResourcesAssumption, FS_Subset DEF In
    <3> QED BY <2>1, <3>1, SeqOfSet
  <2>3. t \in InTurn({s}, items, UploadMesh)
    BY <1>2, <2>1 DEF UploadMeshes
  <2>4. PICK f : IsRun(f, "upload", 0, {s}, items, last) /\ t \in f[last]
    BY <2>1, <2>2, <2>3, UploadRun
  <2> DEFINE G == {x \in Reached(f, last) : SameReflections(s, x)}
  <2>5. \A x \in {s} \cap Reached(f, last) : x \in G
    BY SameItself
  <2>6. ASSUME NEW n \in 1 .. last, NEW x \in f[n - 1] \cap G, NEW q \in Stage("upload", 0, x, items[n]) \cap Reached(f, last)
        PROVE  q \in G
    <3>1. q \in UploadMesh(x, items[n])
      BY <2>6 DEF Stage
    <3>2. PICK o \in UploadMeshPrimitive(x.d, items[n]) :
            q = [x EXCEPT !.d = o.d, !.m[items[n]].state = IF o.ok THEN "resident" ELSE "failed"]
      BY <3>1 DEF UploadMesh
    <3>3. IsSystem(x)
      BY SameIsSystem
    <3>4. q.r = x.r /\ {"d", "r", "m"} \subseteq DOMAIN q
      BY <3>2, <3>3 DEF IsSystem
    <3>5. SameReflections(x, q)
      BY <3>3, <3>4, AlikeItself DEF SameReflections, IsSystem
    <3> QED BY <3>5, SameThen
  <2> HIDE DEF G
  <2>7. f[last] \subseteq G
    BY <2>2, <2>4, <2>5, <2>6, RunKeeps
  <2> QED BY <2>4, <2>7 DEF G
<1> QED BY <1>1, <1>2

(* Uploading the materials of the drawn meshes leaves the reflections      *)
(* alone.                                                                  *)
LEMMA UploadMaterialsSame ==
  ASSUME NEW s, IsSystem(s), NEW draws, Len(draws) \in Nat, Maps \in [Meshes -> Seq(Contents)],
         NEW t \in UploadMaterials(s, draws)
  PROVE  SameReflections(s, t)
<1>1. PICK start, last : start = [d |-> s.d, r |-> s.r, m |-> s.m, stop |-> FALSE] /\ last = Len(draws)
  OBVIOUS
<1>2. PICK v : v \in InTurn({start}, draws, MaterialUploaded) /\ t = [d |-> v.d, r |-> v.r, m |-> v.m]
  BY <1>1 DEF UploadMaterials
<1>3. PICK f : IsRun(f, "materials", 0, {start}, draws, last) /\ v \in f[last]
  BY <1>1, <1>2, MaterialsRun
<1> DEFINE G == {x \in Reached(f, last) : SameReflections(s, x)}
<1>4. \A x \in {start} \cap Reached(f, last) : x \in G
  <2>1. SameReflections(s, start)
    BY <1>1, AlikeItself DEF SameReflections, IsSystem
  <2> QED BY <2>1
<1>5. ASSUME NEW n \in 1 .. last, NEW x \in f[n - 1] \cap G, NEW q \in Stage("materials", 0, x, draws[n]) \cap Reached(f, last)
      PROVE  q \in G
  <2>1. PICK mesh : mesh = draws[n]
    OBVIOUS
  <2>2. q \in MaterialUploaded(x, mesh)
    BY <1>5, <2>1 DEF Stage
  <2>3. CASE q = x
    BY <2>3
  <2>4. CASE mesh \in Meshes /\ \E o \in UploadAsset(x.r.materials, x.d, mesh, Maps[mesh]) : \E y, z :
               q = [d |-> o.d, r |-> [x.r EXCEPT !.materials = o.m], stop |-> y, m |-> z]
    <3>1. PICK o, y, z : /\ o \in UploadAsset(x.r.materials, x.d, mesh, Maps[mesh])
                   /\ q = [d |-> o.d, r |-> [x.r EXCEPT !.materials = o.m], stop |-> y, m |-> z]
      BY <2>4
    <3>2. IsSystem(x)
      BY SameIsSystem
    <3>3. Len(Maps[mesh]) \in Nat
      BY <2>4
    <3>4. Alike(x.r.materials, o.m)
      BY <3>1, <3>2, <3>3, UploadAssetAlike DEF IsSystem
    <3>5. SameReflections(x, q)
      BY <3>1, <3>2, <3>4 DEF SameReflections, IsSystem, IsRenderer, NoRenderer
    <3> QED BY <3>5, SameThen
  <2>5. \/ q = x
        \/ mesh \in Meshes /\ \E o \in UploadAsset(x.r.materials, x.d, mesh, Maps[mesh]) : \E y, z :
               q = [d |-> o.d, r |-> [x.r EXCEPT !.materials = o.m], stop |-> y, m |-> z]
    <3>1. CASE x.stop \/ mesh \notin In(x, "resident") \/ x.m[mesh].tried
      BY <2>2, <3>1 DEF MaterialUploaded
    <3>2. CASE ~ (x.stop \/ mesh \notin In(x, "resident") \/ x.m[mesh].tried)
      <4>1. mesh \in Meshes
        BY <3>2 DEF In
      <4>2. PICK o \in UploadAsset(x.r.materials, x.d, mesh, Maps[mesh]) :
              q = [d |-> o.d, r |-> [x.r EXCEPT !.materials = o.m], stop |-> ~ o.ok,
                   m |-> [x.m EXCEPT ![mesh].tried = TRUE, ![mesh].textured = o.ok, ![mesh].images = o.images]]
        BY <2>2, <3>2 DEF MaterialUploaded
      <4>3. PICK y, z : y = ~ o.ok /\ z = [x.m EXCEPT ![mesh].tried = TRUE, ![mesh].textured = o.ok, ![mesh].images = o.images]
        OBVIOUS
      <4> QED BY <4>1, <4>2, <4>3
    <3> QED BY <3>1, <3>2
  <2> QED BY <2>3, <2>4, <2>5
<1> HIDE DEF G
<1>6. f[last] \subseteq G
  BY <1>1, <1>3, <1>4, <1>5, RunKeeps
<1>7. SameReflections(s, v)
  BY <1>3, <1>6 DEF G
<1> QED BY <1>2, <1>7 DEF SameReflections

(* What is prepared, apart from this.                                      *)
SameBut(what, s, t) ==
  /\ {"d", "r", "m"} \subseteq DOMAIN t /\ IsRenderer(t.r)
  /\ t.r.materials = s.r.materials
  /\ \A x : x # what => (x \in t.r.prepared <=> x \in s.r.prepared)

(* Preparing something else than reflections leaves them alone.            *)
LEMMA SameButEnvironment ==
  ASSUME NEW s, IsSystem(s), NEW t, NEW what, SameBut(what, s, t), what # "environment"
  PROVE  SameReflections(s, t)
BY AlikeItself DEF SameBut, SameReflections, IsSystem

(* Marking something as prepared changes nothing else.                     *)
LEMMA PreparesSame ==
  ASSUME NEW s, IsSystem(s), NEW what, NEW condition
  PROVE  SameBut(what, s, Prepares(s, what, condition))
<1>1. PICK v : /\ Prepares(s, what, condition) = [s EXCEPT !.r.prepared = v]
               /\ v = s.r.prepared \cup {what} \/ v = s.r.prepared \ {what}
  <2>1. PICK v : v = IF condition THEN s.r.prepared \cup {what} ELSE s.r.prepared \ {what}
    OBVIOUS
  <2>2. Prepares(s, what, condition) = [s EXCEPT !.r.prepared = v]
    BY <2>1, Zenon DEF Prepares
  <2> QED BY <2>1, <2>2
<1>2. PICK t : t = [s EXCEPT !.r.prepared = v]
  OBVIOUS
<1>3. /\ {"d", "r", "m"} \subseteq DOMAIN t /\ t.r = [s.r EXCEPT !.prepared = v]
  BY <1>2 DEF IsSystem
<1>4. IsRenderer(t.r) /\ t.r.materials = s.r.materials /\ t.r.prepared = v
  BY <1>3 DEF IsSystem, IsRenderer, NoRenderer
<1> QED BY <1>1, <1>2, <1>3, <1>4 DEF SameBut

(* An attempt at a pipeline changes the driver and what was attempted.     *)
LEMMA AttemptedSame ==
  ASSUME NEW s, IsSystem(s), NEW t, \E d, a : t = s \/ t = [s EXCEPT !.d = d, !.r.attempted = a]
  PROVE  SameReflections(s, t) /\ t.r.prepared = s.r.prepared /\ t.r.materials = s.r.materials
<1>0. PICK d, a : t = s \/ t = [s EXCEPT !.d = d, !.r.attempted = a]
  OBVIOUS
<1>1. CASE t = s
  BY <1>1, SameItself
<1>2. CASE t = [s EXCEPT !.d = d, !.r.attempted = a]
  <2>1. {"d", "r", "m"} \subseteq DOMAIN t /\ t.r = [s.r EXCEPT !.attempted = a]
    BY <1>2 DEF IsSystem
  <2>2. IsRenderer(t.r) /\ t.r.materials = s.r.materials /\ t.r.prepared = s.r.prepared
    BY <2>1 DEF IsSystem, IsRenderer, NoRenderer
  <2> QED BY <2>1, <2>2, AlikeItself DEF SameReflections, IsSystem
<1> QED BY <1>0, <1>1, <1>2

(* prepareDirectionalShadows leaves the reflections alone.                 *)
LEMMA PrepareShadowsSame ==
  ASSUME NEW s, IsSystem(s), NEW f, NEW t \in PrepareShadows(s, f)
  PROVE  SameReflections(s, t)
<1>1. PICK p \in MapsPrepared(s, f) : IF "shadows" \in p.r.prepared THEN t \in PrepareReceivers(p) ELSE t = p
  BY DEF PrepareShadows, OnlyIf
<1>2. SameReflections(s, p)
  <2>1. PICK o, v : /\ p = [d |-> o.d, m |-> s.m, r |-> [s.r EXCEPT !.shadows = o.s, !.prepared = v]]
                    /\ v = s.r.prepared \cup {"shadows"} \/ v = s.r.prepared \ {"shadows"}
    <3>1. PICK o : p = [d |-> o.d, m |-> s.m,
                        r |-> [s.r EXCEPT !.shadows = o.s,
                               !.prepared = IF o.ok THEN @ \cup {"shadows"} ELSE @ \ {"shadows"}]]
      BY <1>1 DEF MapsPrepared
    <3>2. PICK v : v = IF o.ok THEN s.r.prepared \cup {"shadows"} ELSE s.r.prepared \ {"shadows"}
      OBVIOUS
    <3>3. p = [d |-> o.d, m |-> s.m, r |-> [s.r EXCEPT !.shadows = o.s, !.prepared = v]]
      BY <3>1, <3>2, Zenon
    <3> QED BY <3>2, <3>3
  <2>2. p.r.materials = s.r.materials /\ IsRenderer(p.r) /\ p.r.prepared = v
    BY <2>1 DEF IsSystem, IsRenderer, NoRenderer
  <2> QED BY <2>1, <2>2, AlikeItself DEF SameReflections, IsSystem
<1>3. CASE "shadows" \in p.r.prepared
  <2>1. IsSystem(p)
    BY <1>2, SameIsSystem
  <2>2. PICK q, c : q \in Attempt(p, "receivers", CreateReceivers) /\ t = Prepares(q, "shadows", c)
    <3>1. PICK q \in Attempt(p, "receivers", CreateReceivers) :
            t = Prepares(q, "shadows", Exists(q.d, "box shadowed") /\ Exists(q.d, "mesh shadowed"))
      BY <1>1, <1>3 DEF PrepareReceivers
    <3> QED BY <3>1
  <2>3. \E d, a : q = p \/ q = [p EXCEPT !.d = d, !.r.attempted = a]
    BY <2>2 DEF Attempt
  <2>4. SameReflections(p, q)
    BY <2>1, <2>3, AttemptedSame
  <2>5. IsSystem(q)
    BY <2>4, SameIsSystem
  <2>6. SameBut("shadows", q, t)
    BY <2>2, <2>5, PreparesSame
  <2>7. SameReflections(q, t)
    BY <2>5, <2>6, SameButEnvironment
  <2> QED BY <1>2, <2>4, <2>7, SameThen
<1>4. CASE "shadows" \notin p.r.prepared
  BY <1>1, <1>2, <1>4
<1> QED BY <1>3, <1>4

(* Making a mesh pipeline leaves the reflections alone.                    *)
LEMMA MeshPipelineAttemptedSame ==
  ASSUME NEW s, IsSystem(s), NEW shadowed, NEW environment,
         NEW t \in MeshPipelineAttempted(s, shadowed, environment)
  PROVE  SameReflections(s, t) /\ t.r.prepared = s.r.prepared /\ t.r.materials = s.r.materials
<1>1. \E d, a : t = s \/ t = [s EXCEPT !.d = d, !.r.attempted = a]
  BY DEF MeshPipelineAttempted, Attempt
<1> QED BY <1>1, AttemptedSame

(* Making a pair of mesh pipelines changes what is prepared for them       *)
(* alone.                                                                  *)
LEMMA MeshPipelinesSame ==
  ASSUME NEW s, IsSystem(s), NEW what, NEW environment, NEW t \in MeshPipelinesFor(s, what, environment)
  PROVE  SameBut(what, s, t)
<1>1. PICK q, c : /\ q \in OnlyIf(MeshPipelineAttempted(s, FALSE, environment),
                                  "shadows", LAMBDA u : MeshPipelineAttempted(u, TRUE, environment))
                  /\ t = Prepares(q, what, c)
  <2>1. PICK q \in OnlyIf(MeshPipelineAttempted(s, FALSE, environment),
                                  "shadows", LAMBDA u : MeshPipelineAttempted(u, TRUE, environment)) :
          t = Prepares(q, what, /\ Exists(q.d, MeshPipeline(FALSE, TRUE, environment))
                     /\ \/ "shadows" \notin q.r.prepared
                        \/ Exists(q.d, MeshPipeline(TRUE, TRUE, environment)))
    BY DEF MeshPipelinesFor
  <2> QED BY <2>1
<1>2. PICK p \in MeshPipelineAttempted(s, FALSE, environment) :
        q = p \/ q \in MeshPipelineAttempted(p, TRUE, environment)
  BY <1>1 DEF OnlyIf
<1>4. SameReflections(s, p) /\ p.r.prepared = s.r.prepared /\ p.r.materials = s.r.materials
  BY <1>2, MeshPipelineAttemptedSame
<1>5. IsSystem(p)
  BY <1>4, SameIsSystem
<1>7. SameReflections(p, q) /\ q.r.prepared = p.r.prepared /\ q.r.materials = p.r.materials
  <2>1. CASE q = p
    BY <1>5, <2>1, SameItself
  <2>2. CASE q \in MeshPipelineAttempted(p, TRUE, environment)
    BY <1>5, <2>2, MeshPipelineAttemptedSame
  <2> QED BY <1>2, <2>1, <2>2
<1>8. IsSystem(q)
  BY <1>7, SameIsSystem
<1>9. SameBut(what, q, t)
  BY <1>1, <1>8, PreparesSame
<1> QED BY <1>4, <1>7, <1>9 DEF SameBut

(* What a frame finds of its reflections.                                  *)
ReflectsIn(s, sky) ==
  /\ IsSystem(s) /\ Reflects(s.r.materials) /\ s.r.materials.device
  /\ "environment" \in s.r.prepared => s.r.materials.shows = sky /\ sky # NoSky

(* Steps that leave the reflections alone leave them of the same sky.      *)
LEMMA SameReflectsIn ==
  ASSUME NEW s, NEW sky, ReflectsIn(s, sky), NEW t, SameReflections(s, t)
  PROVE  ReflectsIn(t, sky)
<1>1. Reflects(t.r.materials) /\ t.r.materials.device /\ t.r.materials.shows = s.r.materials.shows
  BY AlikeReflects DEF SameReflections, ReflectsIn
<1>2. IsSystem(t)
  BY SameIsSystem
<1> QED BY <1>1, <1>2 DEF ReflectsIn, SameReflections

(* prepareMaterialTextures prepares the environment only with reflections  *)
(* of the sky of the frame.                                                *)
LEMMA PrepareMaterialTexturesReflects ==
  ASSUME NEW s, IsSystem(s), Reflects(s.r.materials), s.r.materials.device,
         NEW f, Len(f.draws) \in Nat, NEW cooled,
         NEW t \in PrepareMaterialTextures(s, f, cooled)
  PROVE  ReflectsIn(t, f.sky)
<1>1. PICK c \in OnlyIf(OnlyIf(MaterialsPrepared(s, f, cooled),
                       "materials", LAMBDA u : MeshPipelinesFor(u, "materials", FALSE)),
                "materials", PrepareReflections) :
        t = c \/ t \in UploadMaterials(c, f.draws)
  BY DEF PrepareMaterialTextures, OnlyIf
<1>2. PICK b \in OnlyIf(MaterialsPrepared(s, f, cooled),
                       "materials", LAMBDA u : MeshPipelinesFor(u, "materials", FALSE)) :
        c = b \/ c \in PrepareReflections(b)
  BY <1>1 DEF OnlyIf
<1>3. PICK a \in MaterialsPrepared(s, f, cooled) : b = a \/ b \in MeshPipelinesFor(a, "materials", FALSE)
  BY <1>2 DEF OnlyIf
<1>4. /\ IsSystem(a) /\ ReflectsFor(a.r.materials, f.sky) /\ a.r.materials.device
      /\ "environment" \notin a.r.prepared
  <2>1. PICK o \in PrepareMaterials(s.r.materials, s.d, currentFrame, f.materials, f.sky, cooled, Exists(s.d, "sky")) :
          a = Prepares([d |-> o.d, m |-> s.m, r |-> [s.r EXCEPT !.materials = o.m, !.prepared = @ \ {"environment"}]],
            "materials", o.ok)
    BY <1>3 DEF MaterialsPrepared
  <2>2. ReflectsFor(o.m, f.sky) /\ o.m.device
    BY <2>1, PrepareMaterialsReflects
  <2>3. PICK x : x = [d |-> o.d, m |-> s.m, r |-> [s.r EXCEPT !.materials = o.m, !.prepared = @ \ {"environment"}]]
    OBVIOUS
  <2>4. x.r.materials = o.m /\ IsRenderer(x.r) /\ "environment" \notin x.r.prepared
    BY <2>3 DEF IsSystem, IsRenderer, NoRenderer
  <2>5. IsSystem(x)
    BY <2>2, <2>3, <2>4 DEF IsSystem, ReflectsFor, Reflects
  <2>6. SameBut("materials", x, a)
    BY <2>1, <2>3, <2>5, PreparesSame
  <2> QED BY <2>2, <2>4, <2>6 DEF SameBut, IsSystem, ReflectsFor, Reflects
<1>5. /\ IsSystem(b) /\ ReflectsFor(b.r.materials, f.sky) /\ b.r.materials.device
      /\ "environment" \notin b.r.prepared
  <2>1. b \in MeshPipelinesFor(a, "materials", FALSE) => SameBut("materials", a, b)
    BY <1>4, MeshPipelinesSame
  <2> QED BY <1>3, <1>4, <2>1 DEF SameBut, IsSystem, ReflectsFor, Reflects
<1>6. ReflectsIn(c, f.sky)
  <2>1. CASE c = b
    BY <1>5, <2>1 DEF ReflectsIn, ReflectsFor
  <2>2. CASE b.r.materials.prepared /\ c \in MeshPipelinesFor(b, "environment", TRUE)
    <3>1. SameBut("environment", b, c)
      BY <1>5, <2>2, MeshPipelinesSame
    <3> QED BY <1>5, <2>2, <3>1 DEF ReflectsIn, ReflectsFor, SameBut, IsSystem
  <2>3. c = b \/ (b.r.materials.prepared /\ c \in MeshPipelinesFor(b, "environment", TRUE))
    BY <1>2 DEF PrepareReflections
  <2> QED BY <2>1, <2>2, <2>3
<1>7. t \in UploadMaterials(c, f.draws) => SameReflections(c, t)
  BY <1>6, UploadMaterialsSame, ResourcesAssumption DEF ReflectsIn
<1> QED BY <1>1, <1>6, <1>7, SameReflectsIn

(* The interface leaves the reflections alone.                             *)
LEMMA PrepareInterfaceSame ==
  ASSUME NEW s, IsSystem(s), NEW f, NEW t \in PrepareInterface(s, f)
  PROVE  SameReflections(s, t)
<1>1. PICK o : t = [s EXCEPT !.d = o.d, !.r.ui = o.u]
  BY DEF PrepareInterface
<1>2. {"d", "r", "m"} \subseteq DOMAIN t /\ t.r = [s.r EXCEPT !.ui = o.u]
  BY <1>1 DEF IsSystem
<1>3. IsRenderer(t.r) /\ t.r.materials = s.r.materials /\ t.r.prepared = s.r.prepared
  BY <1>2 DEF IsSystem, IsRenderer, NoRenderer
<1> QED BY <1>2, <1>3, AlikeItself DEF SameReflections, IsSystem

(* Swapchains.                                                             *)
LEMMA NoMaterialsReflect ==
  /\ Reflects(NoMaterials) /\ IsRenderer(NoRenderer) /\ NoRenderer.materials = NoMaterials /\ NoRenderer.prepared = {}
  /\ Reflects(MaterialsCreated) /\ MaterialsCreated.device /\ MaterialsCreated.shows = NoSky
<1>1. Reflects(NoMaterials)
  BY DEF Reflects, IsMaterials, NoMaterials
<1>2. IsRenderer(NoRenderer) /\ NoRenderer.materials = NoMaterials /\ NoRenderer.prepared = {}
  BY DEF IsRenderer, NoRenderer
<1>3. Reflects(MaterialsCreated) /\ MaterialsCreated.device /\ MaterialsCreated.shows = NoSky
  BY DEF Reflects, IsMaterials, MaterialsCreated, NoMaterials
<1> QED BY <1>1, <1>2, <1>3

(* createSwapchainResources keeps the reflections and prepares nothing.    *)
LEMMA CreateSwapchainReflects ==
  ASSUME NEW r, IsRenderer(r), Reflects(r.materials), NEW d, NEW o \in CreateSwapchainResources(r, d)
  PROVE  /\ IsRenderer(o.r) /\ Reflects(o.r.materials) /\ (o.ok => o.r.materials.device)
         /\ o.r.materials.shows = r.materials.shows
         /\ "environment" \in o.r.prepared => "environment" \in r.prepared
<1>1. CASE \E e : o \in OwnersCreated(r, e)
  <2>1. PICK u : o = [d |-> u.d, ok |-> TRUE,
    r |-> [r EXCEPT !.ui = u.u, !.shadows = ShadowsCreated(@),
                    !.materials = IF @.device THEN @ ELSE MaterialsCreated]]
    BY <1>1 DEF OwnersCreated
  <2>2. PICK m, s : m = (IF r.materials.device THEN r.materials ELSE MaterialsCreated) /\ s = ShadowsCreated(r.shadows)
    OBVIOUS
  <2>3. o.r = [r EXCEPT !.ui = u.u, !.shadows = s, !.materials = m]
    BY <2>1, <2>2
  <2>4. IsRenderer(o.r) /\ o.r.materials = m /\ o.r.prepared = r.prepared
    BY <2>3 DEF IsRenderer, NoRenderer
  <2>5. Reflects(m) /\ m.device /\ m.shows = r.materials.shows
    BY <2>2, NoMaterialsReflect DEF Reflects
  <2> QED BY <2>4, <2>5
<1>2. CASE \E e : o = [d |-> DestroySwapchain(r, e).d, r |-> DestroySwapchain(r, e).r, ok |-> FALSE]
  <2>1. PICK e : o = [d |-> DestroySwapchain(r, e).d, r |-> DestroySwapchain(r, e).r, ok |-> FALSE]
    BY <1>2
  <2>2. o.r = r \/ o.r = [r EXCEPT !.shadows = NoShadows, !.ui = NoUi, !.attempted = {}, !.prepared = {}]
    BY <2>1 DEF DestroySwapchain
  <2>3. IsRenderer(o.r) /\ o.r.materials = r.materials /\ (o.r.prepared = r.prepared \/ o.r.prepared = {})
    BY <2>2 DEF IsRenderer, NoRenderer
  <2> QED BY <2>1, <2>3
<1>3. \/ \E e : o \in OwnersCreated(r, e)
      \/ \E e : o = [d |-> DestroySwapchain(r, e).d, r |-> DestroySwapchain(r, e).r, ok |-> FALSE]
  <2>1. PICK p : o \in IF p.ok THEN UNION {OwnersCreated(r, q.d) : q \in PlainPipelinesMade(p.d)}
         ELSE {[d |-> DestroySwapchain(r, p.d).d, r |-> DestroySwapchain(r, p.d).r, ok |-> FALSE]}
    BY DEF CreateSwapchainResources
  <2>2. CASE p.ok
    <3>1. PICK q \in PlainPipelinesMade(p.d) : o \in OwnersCreated(r, q.d)
      BY <2>1, <2>2
    <3> QED BY <3>1
  <2>3. CASE ~ p.ok
    <3>1. PICK e : e = p.d
      OBVIOUS
    <3> QED BY <2>1, <2>3, <3>1
  <2> QED BY <2>2, <2>3
<1> QED BY <1>1, <1>2, <1>3

(* recreateSwapchain keeps the reflections and prepares nothing.           *)
LEMMA RecreatedReflects ==
  ASSUME NEW s, IsSystem(s), Reflects(s.r.materials), NEW o \in Recreated(s)
  PROVE  IsRenderer(o.r) /\ Reflects(o.r.materials) /\ (o.ready => o.r.materials.device)
<1>1. PICK t \in Cleared(s) : \E p \in CreateSwapchainResources(t.r, t.d) :
        o = [d |-> p.d, r |-> p.r, m |-> t.m, ready |-> p.ok]
  BY DEF Recreated
<1>2. PICK p \in CreateSwapchainResources(t.r, t.d) : o = [d |-> p.d, r |-> p.r, m |-> t.m, ready |-> p.ok]
  BY <1>1
<1>3. PICK u \in Settled(s) :
        t = [d |-> DestroySwapchain(u.r, u.d).d, r |-> DestroySwapchain(u.r, u.d).r, m |-> u.m]
  BY DEF Cleared
<1>4. PICK q \in FinishPending(s.r.materials, s.d) :
        u = [s EXCEPT !.d = IgnoredWait(q.d), !.r.materials = q.m]
  BY DEF Settled
<1>5. Alike(s.r.materials, q.m)
  BY FinishPendingAlike DEF IsSystem
<1>6. Reflects(q.m)
  BY <1>5, AlikeReflects
<1>7. u.r = [s.r EXCEPT !.materials = q.m]
  BY <1>4 DEF IsSystem
<1>8. IsRenderer(u.r) /\ u.r.materials = q.m
  BY <1>7 DEF IsSystem, IsRenderer, NoRenderer
<1>9. t.r = u.r \/ t.r = [u.r EXCEPT !.shadows = NoShadows, !.ui = NoUi, !.attempted = {}, !.prepared = {}]
  BY <1>3 DEF DestroySwapchain
<1>10. IsRenderer(t.r) /\ t.r.materials = q.m
  BY <1>8, <1>9 DEF IsRenderer, NoRenderer
<1>11. IsRenderer(p.r) /\ Reflects(p.r.materials) /\ (p.ok => p.r.materials.device)
  BY <1>6, <1>10, CreateSwapchainReflects
<1> QED BY <1>2, <1>11

(* All that beginFrame prepares leaves reflections of the sky of the       *)
(* frame.                                                                  *)
LEMMA PreparedReflects ==
  ASSUME NEW f, Len(f.draws) \in Nat, NEW cooled, NEW posed, NEW s \in Prepared(f, cooled, posed),
         IsRenderer(renderer), Reflects(renderer.materials), renderer.materials.device
  PROVE  ReflectsIn(s, f.sky)
<1>1. PICK c \in Each(Each(MeshesPrepared(posed), LAMBDA t : PrepareShadows(t, f)),
                      LAMBDA t : PrepareMaterialTextures(t, f, cooled)) : s \in PrepareInterface(c, f)
  BY DEF Prepared, Each
<1>2. PICK b \in Each(MeshesPrepared(posed), LAMBDA t : PrepareShadows(t, f)) : c \in PrepareMaterialTextures(b, f, cooled)
  BY <1>1 DEF Each
<1>3. PICK a \in MeshesPrepared(posed) : b \in PrepareShadows(a, f)
  BY <1>2 DEF Each
<1>4. PICK start : start = [System EXCEPT !.d.work[currentFrame] = {}]
  OBVIOUS
<1>5. PICK y \in Each(RetireMeshes(start), UploadMeshes) : a = UpdateMeshes(y, posed)
  BY <1>3, <1>4 DEF MeshesPrepared
<1>6. PICK x \in RetireMeshes(start) : y \in UploadMeshes(x)
  BY <1>5 DEF Each
<1>7. IsSystem(start) /\ start.r = renderer
  <2>1. PICK d : start = [System EXCEPT !.d = d]
    BY <1>4
  <2>2. start = [d |-> d, r |-> renderer, m |-> meshes]
    BY <2>1 DEF System
  <2> QED BY <2>2 DEF IsSystem, Reflects
<1>8. SameReflections(start, x)
  <2>1. PICK gone : gone = {mesh \in In(start, "retired") : start.m[mesh].wait = 0}
    OBVIOUS
  <2>2. x \in DestroyMeshes(start, gone)
    BY <1>6, <2>1 DEF RetireMeshes
  <2>3. gone \in SUBSET Meshes /\ IsFiniteSet(Meshes)
    BY <2>1, ResourcesAssumption DEF In
  <2>4. IsFiniteSet(gone)
    BY <2>3, FS_Subset
  <2> QED BY <1>7, <2>2, <2>4, DestroyMeshesSame
<1>9. SameReflections(start, y)
  <2>1. SameReflections(x, y)
    BY <1>6, <1>8, SameIsSystem, UploadMeshesSame
  <2> QED BY <1>8, <2>1, SameThen
<1>10. SameReflections(start, a)
  <2>1. IsSystem(y)
    BY <1>9, SameIsSystem
  <2>2. PICK d : a = [y EXCEPT !.d = d]
    BY <1>5 DEF UpdateMeshes
  <2>3. a.r = y.r /\ {"d", "r", "m"} \subseteq DOMAIN a
    BY <2>1, <2>2 DEF IsSystem
  <2>4. SameReflections(y, a)
    BY <2>1, <2>3, AlikeItself DEF SameReflections, IsSystem
  <2> QED BY <1>9, <2>4, SameThen
<1>11. SameReflections(start, b)
  <2>1. SameReflections(a, b)
    BY <1>3, <1>10, SameIsSystem, PrepareShadowsSame
  <2> QED BY <1>10, <2>1, SameThen
<1>12. IsSystem(b) /\ Reflects(b.r.materials) /\ b.r.materials.device
  <2>1. IsSystem(b)
    BY <1>11, SameIsSystem
  <2>2. Alike(start.r.materials, b.r.materials)
    BY <1>11 DEF SameReflections
  <2> QED BY <1>7, <2>1, <2>2, AlikeReflects
<1>13. ReflectsIn(c, f.sky)
  BY <1>2, <1>12, PrepareMaterialTexturesReflects
<1>14. SameReflections(c, s)
  BY <1>1, <1>13, PrepareInterfaceSame DEF ReflectsIn
<1> QED BY <1>13, <1>14, SameReflectsIn

-----------------------------------------------------------------------------
RInv ==
  /\ game \in Games
  /\ IsRenderer(renderer) /\ Reflects(renderer.materials)
  /\ isReady => renderer.materials.device
  /\ frame # NoFrame /\ "environment" \in renderer.prepared =>
       renderer.materials.shows = frame.sky /\ frame.sky # NoSky

(* The backend as constructed has no reflections.                          *)
LEMMA InitReflects == Init => RInv
BY NoMaterialsReflect DEF Init, RInv

(* A backend that was shut down has no reflections.                        *)
LEMMA BackInReflects ==
  ASSUME NEW d, BackIn(d), RInv, game' = game
  PROVE  RInv'
BY NoMaterialsReflect DEF BackIn, RInv, IsRenderer, Reflects, IsMaterials, NoFrame

(* A frame begins with reflections of its own sky or with none.            *)
LEMMA BeginFrameReflects ==
  ASSUME RInv, NEW f \in game.requests, NEW cooled, NEW posed, BeginFrame(f, cooled, posed), game' = game
  PROVE  RInv'
<1>1. isReady /\ frame = NoFrame
  BY DEF BeginFrame, Begins
<1>2. PICK s \in Prepared(f, cooled, posed) : Records(s, f) \/ Skips(s) \/ Rebuilds(s)
  BY DEF BeginFrame
<1>3. Len(f.draws) \in Nat
  <2>1. f \in Requests
    BY GamesAssumption DEF RInv
  <2> QED BY <2>1 DEF Requests
<1>4. ReflectsIn(s, f.sky)
  BY <1>1, <1>2, <1>3, PreparedReflects DEF RInv
<1>5. CASE Records(s, f)
  <2>1. renderer' = s.r /\ frame' = f /\ isReady' = isReady
    BY <1>5 DEF Records
  <2> QED BY <1>4, <2>1 DEF RInv, ReflectsIn, IsSystem, IsRenderer, Reflects, IsMaterials, NoFrame
<1>6. CASE Skips(s)
  <2>1. renderer' = s.r /\ frame' = NoFrame /\ isReady' = isReady
    BY <1>1, <1>6 DEF Skips, NoFrame
  <2> QED BY <1>4, <2>1 DEF RInv, ReflectsIn, IsSystem, IsRenderer, Reflects, IsMaterials, NoFrame
<1>7. CASE Rebuilds(s)
  <2>1. PICK o \in Recreated(s) : renderer' = o.r /\ isReady' = o.ready /\ frame' = NoFrame
    BY <1>1, <1>7 DEF Rebuilds, NoFrame
  <2>2. IsRenderer(o.r) /\ Reflects(o.r.materials) /\ (o.ready => o.r.materials.device)
    BY <1>4, RecreatedReflects DEF ReflectsIn
  <2> QED BY <2>1, <2>2 DEF RInv, IsRenderer, Reflects, IsMaterials, NoFrame
<1> QED BY <1>2, <1>5, <1>6, <1>7

(* Every call keeps the reflections consistent, and a frame keeps those it *)
(* began with.                                                             *)
LEMMA NextReflects == RInv /\ [Next]_vars => RInv'
<1> SUFFICES ASSUME RInv, [Next]_vars PROVE RInv'
  OBVIOUS
<1>1. IsSystem(System) /\ System.r = renderer
  BY DEF System, RInv, IsSystem, Reflects
<1>2. CASE UNCHANGED vars
  BY <1>2 DEF vars, RInv, IsRenderer, Reflects, IsMaterials, NoFrame
<1>3. CASE Create /\ game' = game
  <2>1. frame' = frame
    BY <1>3 DEF Create
  <2>2. CASE \E d : BackIn(d)
    BY <1>3, <2>2, BackInReflects
  <2>3. CASE isReady' /\ \E e : \E p \in CreateSwapchainResources(renderer, e) : p.ok /\ renderer' = p.r
    <3>1. PICK e : \E p \in CreateSwapchainResources(renderer, e) : p.ok /\ renderer' = p.r
      BY <2>3
    <3>2. PICK p \in CreateSwapchainResources(renderer, e) : p.ok /\ renderer' = p.r
      BY <3>1
    <3>3. /\ IsRenderer(p.r) /\ Reflects(p.r.materials) /\ p.r.materials.device
          /\ p.r.materials.shows = renderer.materials.shows
          /\ "environment" \in p.r.prepared => "environment" \in renderer.prepared
      BY <3>2, CreateSwapchainReflects DEF RInv
    <3> QED BY <1>3, <2>1, <3>2, <3>3 DEF RInv, IsRenderer, Reflects, IsMaterials, NoFrame
  <2>4. \/ \E d : BackIn(d)
        \/ isReady' /\ \E e : \E p \in CreateSwapchainResources(renderer, e) : p.ok /\ renderer' = p.r
    <3>1. PICK o \in Try(driver, DeviceCalls) :
       \E p \in IF o.ok THEN CreateSwapchainResources(renderer, o.d) ELSE {[d |-> o.d, r |-> renderer, ok |-> FALSE]} :
         \E q \in IF p.ok THEN CommandsMade(p.d) ELSE {p} :
           IF q.ok
           THEN /\ driver' = q.d /\ renderer' = p.r /\ isReady' = TRUE
                /\ UNCHANGED <<meshes, currentFrame, unsignaled>>
           ELSE \E d \in Shut([System EXCEPT !.d = q.d, !.r = p.r]) : BackIn(d)
      BY <1>3 DEF Create
    <3>2. PICK p \in IF o.ok THEN CreateSwapchainResources(renderer, o.d) ELSE {[d |-> o.d, r |-> renderer, ok |-> FALSE]} :
         \E q \in IF p.ok THEN CommandsMade(p.d) ELSE {p} :
           IF q.ok
           THEN renderer' = p.r /\ isReady' = TRUE
           ELSE \E d : BackIn(d)
      BY <3>1
    <3>3. PICK q \in IF p.ok THEN CommandsMade(p.d) ELSE {p} :
           IF q.ok
           THEN renderer' = p.r /\ isReady' = TRUE
           ELSE \E d : BackIn(d)
      BY <3>2
    <3>4. PICK e : e = o.d
      OBVIOUS
    <3>5. CASE q.ok
      <4>1. p.ok
        BY <3>3, <3>5
      <4>2. p \in CreateSwapchainResources(renderer, e)
        BY <3>2, <3>4, <4>1
      <4> QED BY <3>3, <3>5, <4>1, <4>2
    <3>6. CASE ~ q.ok
      BY <3>3, <3>6
    <3> QED BY <3>5, <3>6
  <2> QED BY <2>2, <2>3, <2>4
<1>4. CASE Shutdown /\ game' = game
  BY <1>4, BackInReflects DEF Shutdown
<1>5. CASE WindowChanged /\ game' = game
  <2>1. PICK o \in Recreated(System) : renderer' = o.r /\ isReady' = o.ready /\ frame' = NoFrame
    BY <1>5 DEF WindowChanged, Idles, NoFrame
  <2>2. IsRenderer(o.r) /\ Reflects(o.r.materials) /\ (o.ready => o.r.materials.device)
    BY <1>1, <2>1, RecreatedReflects DEF RInv
  <2> QED BY <1>5, <2>1, <2>2 DEF RInv, IsRenderer, Reflects, IsMaterials, NoFrame
<1>6. CASE (SubmitFails \/ \E mesh \in game.meshes : Register(mesh) \/ Release(mesh)) /\ game' = game
  <2>1. renderer' = renderer /\ isReady' = isReady /\ (frame' = frame \/ frame' = NoFrame)
    BY <1>6 DEF SubmitFails, Register, Release, Idles, NoFrame
  <2> QED BY <1>6, <2>1 DEF RInv, IsRenderer, Reflects, IsMaterials, NoFrame
<1>7. CASE (\E t \in game.sources : Show(t)) /\ game' = game
  <2>1. renderer' = renderer /\ isReady' = isReady /\ frame' = frame
    BY <1>7 DEF Show
  <2> QED BY <1>7, <2>1 DEF RInv, IsRenderer, Reflects, IsMaterials, NoFrame
<1>8. CASE (\E f \in game.requests, cooled \in BOOLEAN, posed \in SUBSET (Dynamic \cap game.meshes) :
              BeginFrame(f, cooled, posed)) /\ game' = game
  BY <1>8, BeginFrameReflects
<1>9. CASE (\E rebuild \in BOOLEAN : EndFrame(rebuild)) /\ game' = game
  <2>1. PICK rebuild \in BOOLEAN : EndFrame(rebuild)
    BY <1>9
  <2>2. isReady /\ frame' = NoFrame
    BY <2>1 DEF EndFrame, Idles, NoFrame
  <2>3. PICK o \in IF rebuild THEN Recreated(Submitted) ELSE {[d |-> Submitted.d, r |-> renderer, ready |-> TRUE]} :
          renderer' = o.r /\ isReady' = o.ready
    BY <2>1 DEF EndFrame
  <2>4. IsRenderer(o.r) /\ Reflects(o.r.materials) /\ (o.ready => o.r.materials.device)
    <3>1. CASE rebuild
      <4>1. Submitted.r = renderer /\ IsSystem(Submitted)
        BY <1>1 DEF Submitted, IsSystem
      <4> QED BY <2>3, <3>1, <4>1, RecreatedReflects DEF RInv
    <3>2. CASE ~ rebuild
      BY <2>2, <2>3, <3>2 DEF RInv
    <3> QED BY <3>1, <3>2
  <2> QED BY <1>9, <2>2, <2>3, <2>4 DEF RInv, IsRenderer, Reflects, IsMaterials, NoFrame
<1> QED BY <1>2, <1>3, <1>4, <1>5, <1>6, <1>7, <1>8, <1>9 DEF Next, Step

(* A frame drawn with reflections shows those of its own sky, and the      *)
(* generation gate has them on record: whatever was uploaded, failed or    *)
(* recreated before (prepareEnvironment, prepareMaterialTextures).         *)
THEOREM ReflectionsHold == Spec => []ReflectionsAreOfTheFrame
<1>1. RInv => ReflectionsAreOfTheFrame
  BY DEF RInv, Reflects, ReflectionsAreOfTheFrame
<1> QED BY <1>1, InitReflects, NextReflects, PTL DEF Spec

-----------------------------------------------------------------------------
(* What a call, or a whole operation, leaves alone: objects of other kinds *)
(* and, for this work, what is not finished.                               *)
Becomes(d, e, kinds, works) ==
  /\ Clean(e)
  /\ \A x : x[1] \notin kinds => (x \in e.held <=> x \in d.held)
  /\ \A w \in works : e.work[w] \subseteq d.work[w]
  /\ e.refusals >= d.refusals

(* A clean driver becomes itself.                                          *)
LEMMA BecomesItself ==
  ASSUME NEW d, Clean(d), NEW kinds, NEW works
  PROVE  Becomes(d, d, kinds, works)
<1>1. d.refusals \in Nat
  BY CleanShape
<1>2. d.refusals >= d.refusals
  BY <1>1
<1> QED BY <1>2 DEF Becomes

(* Changes confined to some kinds of objects compose.                      *)
LEMMA BecomesThen ==
  ASSUME NEW d, Clean(d), NEW e, NEW f, NEW kinds, NEW works,
         Becomes(d, e, kinds, works), Becomes(e, f, kinds, works)
  PROVE  Becomes(d, f, kinds, works)
<1>1. d.refusals \in Nat /\ e.refusals \in Nat /\ f.refusals \in Nat
  BY CleanShape DEF Becomes
<1>2. f.refusals >= d.refusals
  BY <1>1 DEF Becomes
<1> QED BY <1>2 DEF Becomes

(* A change confined to some kinds is confined to more kinds.              *)
LEMMA BecomesWider ==
  ASSUME NEW d, NEW e, NEW kinds, NEW works, Becomes(d, e, kinds, works),
         NEW more, kinds \subseteq more, NEW fewer, fewer \subseteq works
  PROVE  Becomes(d, e, more, fewer)
BY DEF Becomes

(* Adding objects of some kinds is confined to them.                       *)
LEMMA AddsBecomes ==
  ASSUME NEW d, Clean(d), NEW o, NEW objects, Adds(d, o, objects),
         NEW kinds, \A x \in objects : x[1] \in kinds, NEW works
  PROVE  Becomes(d, o.d, kinds, works) /\ Busy(o.d) = Busy(d)
<1>1. d.refusals \in Nat
  BY CleanShape
<1>2. o.d.refusals >= d.refusals
  BY <1>1 DEF Adds
<1>3. Busy(o.d) = Busy(d)
  BY WorkIsBusy DEF Adds
<1> QED BY <1>2, <1>3 DEF Adds, Becomes

(* A confined change makes nothing busy.                                   *)
LEMMA BusyBecomes ==
  ASSUME NEW d, NEW e, NEW kinds, Becomes(d, e, kinds, Works)
  PROVE  Busy(e) \subseteq Busy(d)
BY DEF Becomes, Busy

(* Destroying idle objects of some kinds is confined to them.              *)
LEMMA DestroyBecomes ==
  ASSUME NEW d, Clean(d), NEW objects, objects \cap Busy(d) = {}, NEW kinds, \A x \in objects : x[1] \in kinds, NEW works
  PROVE  LET e == Destroy(d, objects)
         IN  /\ Becomes(d, e, kinds, works) /\ e.held = d.held \ objects
             /\ e.work = d.work /\ e.refusals = d.refusals
<1>1. PICK e : e = Destroy(d, objects)
  OBVIOUS
<1>2. Clean(e) /\ e.held = d.held \ objects /\ e.work = d.work /\ e.refusals = d.refusals
  BY <1>1, DestroyIsClean
<1>3. d.refusals \in Nat
  BY CleanShape
<1> QED BY <1>1, <1>2, <1>3 DEF Becomes

(* What goes in any case, and what goes on failure, was not there before.  *)
LEMMA FinallyAdds ==
  ASSUME NEW d, Clean(d), NEW outcomes, NEW made, NEW gone, gone \cap d.held = {},
         \A p \in outcomes : Adds(d, p, made),
         NEW o \in Finally(outcomes, gone)
  PROVE  Adds(d, o, made \ gone)
<1>1. PICK p \in outcomes : o = [p EXCEPT !.d = Destroy(@, gone)]
  BY DEF Finally
<1>2. Adds(d, p, made)
  OBVIOUS
<1>3. PICK e, f, ok : e = p.d /\ f = Destroy(e, gone) /\ ok = p.ok
  OBVIOUS
<1>4. p = [d |-> e, ok |-> ok]
  BY <1>2, <1>3 DEF Adds
<1>5. o = [d |-> f, ok |-> ok]
  BY <1>1, <1>3, <1>4
<1>6. Busy(e) \subseteq d.held /\ Clean(e)
  BY <1>2, <1>3, WorkIsBusy, CleanShape DEF Adds
<1>7. gone \cap Busy(e) = {}
  BY <1>6
<1>8. Clean(f) /\ f.held = e.held \ gone /\ f.work = e.work /\ f.refusals = e.refusals
  BY <1>3, <1>6, <1>7, DestroyIsClean
<1>9. o.d = f /\ o.ok = ok
  BY <1>5
<1> QED BY <1>2, <1>3, <1>5, <1>8, <1>9 DEF Adds

(* A creation that cleans up when it fails leaves nothing of it then.      *)
LEMMA OnFailureAdds ==
  ASSUME NEW d, Clean(d), NEW outcomes, NEW made, NEW gone, gone \cap d.held = {},
         \A p \in outcomes : Adds(d, p, made),
         NEW o \in OnFailure(outcomes, gone)
  PROVE  /\ Adds(d, o, made)
         /\ ~ o.ok => o.d.held \cap gone = {}
         /\ \E p \in outcomes : o.ok = p.ok /\ o.d.held \subseteq p.d.held
<1>1. PICK p \in outcomes : o = IF p.ok THEN p ELSE [p EXCEPT !.d = Destroy(@, gone)]
  BY DEF OnFailure
<1>2. Adds(d, p, made)
  OBVIOUS
<1>3. CASE p.ok
  BY <1>1, <1>2, <1>3
<1>4. CASE ~ p.ok
  <2>3. PICK e, f, ok : e = p.d /\ f = Destroy(e, gone) /\ ok = p.ok
    OBVIOUS
  <2>4. p = [d |-> e, ok |-> ok]
    BY <1>2, <2>3 DEF Adds
  <2>5. o = [d |-> f, ok |-> ok]
    <3>1. o = [p EXCEPT !.d = Destroy(@, gone)]
      BY <1>1, <1>4
    <3> QED BY <2>3, <2>4, <3>1
  <2>6. Busy(e) \subseteq d.held /\ Clean(e)
    BY <1>2, <2>3, WorkIsBusy, CleanShape DEF Adds
  <2>7. gone \cap Busy(e) = {}
    BY <2>6
  <2>8. Clean(f) /\ f.held = e.held \ gone /\ f.work = e.work /\ f.refusals = e.refusals
    BY <2>3, <2>6, <2>7, DestroyIsClean
  <2>9. o.d = f /\ o.ok = ok
    BY <2>5
  <2>10. Adds(d, o, made)
    BY <1>2, <1>4, <2>3, <2>5, <2>8, <2>9 DEF Adds
  <2>11. o.d.held \cap gone = {} /\ o.d.held \subseteq p.d.held /\ o.ok = p.ok
    BY <2>3, <2>8, <2>9
  <2> QED BY <2>10, <2>11
<1> QED BY <1>3, <1>4

-----------------------------------------------------------------------------
(* Shadow maps.                                                            *)

(* createRenderPass of the shadow map.                                     *)
LEMMA PassMakes ==
  ASSUME NEW held, NEW busy,
         DepthPass \notin held
  PROVE  Makes(<<Call({}), Make(DepthPass, {})>>, held, busy, {DepthPass})
<1>1. PICK a, b :
        /\ a = Call({})
        /\ b = Make(DepthPass, {})
  OBVIOUS
<1>2. /\ a.makes = {}
      /\ b.makes = {DepthPass}
  BY <1>1, CallsMake
<1>3. FitsIn(a, held, busy)
  BY <1>1, CallFits
<1>4. FitsIn(b, held \cup (a.makes), busy)
  <2>1. DepthPass \notin held \cup (a.makes)
    BY <1>2
  <2> QED BY <1>1, <2>1, MakeFits
<1>5. Makes(<<a, b>>, held, busy, a.makes \cup b.makes)
  BY <1>3, <1>4, MakesTwo
<1>6. a.makes \cup b.makes = {DepthPass}
  BY <1>2
<1>7. <<a, b>> = <<Call({}), Make(DepthPass, {})>>
  BY <1>1
<1> QED BY <1>5, <1>6, <1>7

(* Layouts and the sampler.                                                *)
LEMMA LayoutsMake ==
  ASSUME NEW held, NEW busy,
         {ReceiverLayout, CasterLayout, ShadowSampler} \cap held = {}
  PROVE  Makes(<<Make(ReceiverLayout, {}), Make(CasterLayout, {}), Make(ShadowSampler, {})>>, held, busy, {ReceiverLayout, CasterLayout, ShadowSampler})
<1>1. PICK a, b, c :
        /\ a = Make(ReceiverLayout, {})
        /\ b = Make(CasterLayout, {})
        /\ c = Make(ShadowSampler, {})
  OBVIOUS
<1>2. /\ a.makes = {ReceiverLayout}
      /\ b.makes = {CasterLayout}
      /\ c.makes = {ShadowSampler}
  BY <1>1, CallsMake
<1>3. FitsIn(a, held, busy)
  <2>1. ReceiverLayout \notin held
    BY <1>2 DEF ReceiverLayout, CasterLayout, ShadowSampler
  <2> QED BY <1>1, <2>1, MakeFits
<1>4. FitsIn(b, held \cup (a.makes), busy)
  <2>1. CasterLayout \notin held \cup (a.makes)
    BY <1>2 DEF ReceiverLayout, CasterLayout, ShadowSampler
  <2> QED BY <1>1, <2>1, MakeFits
<1>5. FitsIn(c, held \cup (a.makes \cup b.makes), busy)
  <2>1. ShadowSampler \notin held \cup (a.makes \cup b.makes)
    BY <1>2 DEF ReceiverLayout, CasterLayout, ShadowSampler
  <2> QED BY <1>1, <2>1, MakeFits
<1>6. Makes(<<a, b, c>>, held, busy, a.makes \cup b.makes \cup c.makes)
  BY <1>3, <1>4, <1>5, MakesThree
<1>7. a.makes \cup b.makes \cup c.makes = {ReceiverLayout, CasterLayout, ShadowSampler}
  BY <1>2
<1>8. <<a, b, c>> = <<Make(ReceiverLayout, {}), Make(CasterLayout, {}), Make(ShadowSampler, {})>>
  BY <1>1
<1> QED BY <1>6, <1>7, <1>8

(* A caster pipeline.                                                      *)
LEMMA CasterMakes ==
  ASSUME NEW held, NEW busy, NEW pipeline,
         pipeline \notin held,
         CasterShader \notin held,
         pipeline # CasterShader,
         {CasterLayout, DepthPass} \subseteq held
  PROVE  Makes(<<Make(CasterShader, {}), Make(pipeline, {CasterShader, CasterLayout, DepthPass})>>, held, busy, {CasterShader, pipeline})
<1>1. PICK a, b :
        /\ a = Make(CasterShader, {})
        /\ b = Make(pipeline, {CasterShader, CasterLayout, DepthPass})
  OBVIOUS
<1>2. /\ a.makes = {CasterShader}
      /\ b.makes = {pipeline}
  BY <1>1, CallsMake
<1>3. FitsIn(a, held, busy)
  <2>1. CasterShader \notin held
    BY <1>2
  <2> QED BY <1>1, <2>1, MakeFits
<1>4. FitsIn(b, held \cup (a.makes), busy)
  <2>1. /\ pipeline \notin held \cup (a.makes)
        /\ {CasterShader, CasterLayout, DepthPass} \subseteq held \cup (a.makes)
    BY <1>2
  <2> QED BY <1>1, <2>1, MakeFits
<1>5. Makes(<<a, b>>, held, busy, a.makes \cup b.makes)
  BY <1>3, <1>4, MakesTwo
<1>6. a.makes \cup b.makes = {CasterShader, pipeline}
  BY <1>2
<1>7. <<a, b>> = <<Make(CasterShader, {}), Make(pipeline, {CasterShader, CasterLayout, DepthPass})>>
  BY <1>1
<1> QED BY <1>5, <1>6, <1>7

(* The maps of a slot.                                                     *)
LEMMA SlotMakes ==
  ASSUME NEW held, NEW busy, NEW slot,
         (SlotObjects(slot) \cup {MapSet(slot)}) \cap held = {},
         {DepthPass, MapPool, ReceiverLayout, ShadowSampler} \subseteq held
  PROVE  Makes(SlotCalls(slot), held, busy, {MapImage(slot), MapMemory(slot), MapView(slot), MapTarget(slot), MapUniforms(slot), MapUniformMemory(slot), MapSet(slot)})
<1>1. PICK a, b, c, e, f, g, h, i :
        /\ a = Make(MapImage(slot), {})
        /\ b = Make(MapMemory(slot), {})
        /\ c = Make(MapView(slot), {MapImage(slot)})
        /\ e = Make(MapTarget(slot), {DepthPass, MapView(slot)})
        /\ f = Make(MapUniforms(slot), {})
        /\ g = Make(MapUniformMemory(slot), {})
        /\ h = Call({MapUniformMemory(slot)})
        /\ i = Make(MapSet(slot), {MapPool, ReceiverLayout, ShadowSampler})
  OBVIOUS
<1>2. /\ a.makes = {MapImage(slot)}
      /\ b.makes = {MapMemory(slot)}
      /\ c.makes = {MapView(slot)}
      /\ e.makes = {MapTarget(slot)}
      /\ f.makes = {MapUniforms(slot)}
      /\ g.makes = {MapUniformMemory(slot)}
      /\ h.makes = {}
      /\ i.makes = {MapSet(slot)}
  BY <1>1, CallsMake
<1>3. FitsIn(a, held, busy)
  <2>1. MapImage(slot) \notin held
    BY <1>2 DEF SlotObjects, MapImage, MapMemory, MapView, MapTarget, MapUniforms, MapUniformMemory, MapSet
  <2> QED BY <1>1, <2>1, MakeFits
<1>4. FitsIn(b, held \cup (a.makes), busy)
  <2>1. MapMemory(slot) \notin held \cup (a.makes)
    BY <1>2 DEF SlotObjects, MapImage, MapMemory, MapView, MapTarget, MapUniforms, MapUniformMemory, MapSet
  <2> QED BY <1>1, <2>1, MakeFits
<1>5. FitsIn(c, held \cup (a.makes \cup b.makes), busy)
  <2>1. /\ MapView(slot) \notin held \cup (a.makes \cup b.makes)
        /\ {MapImage(slot)} \subseteq held \cup (a.makes \cup b.makes)
    BY <1>2 DEF SlotObjects, MapImage, MapMemory, MapView, MapTarget, MapUniforms, MapUniformMemory, MapSet
  <2> QED BY <1>1, <2>1, MakeFits
<1>6. FitsIn(e, held \cup (a.makes \cup b.makes \cup c.makes), busy)
  <2>1. /\ MapTarget(slot) \notin held \cup (a.makes \cup b.makes \cup c.makes)
        /\ {DepthPass, MapView(slot)} \subseteq held \cup (a.makes \cup b.makes \cup c.makes)
    BY <1>2 DEF SlotObjects, MapImage, MapMemory, MapView, MapTarget, MapUniforms, MapUniformMemory, MapSet
  <2> QED BY <1>1, <2>1, MakeFits
<1>7. FitsIn(f, held \cup (a.makes \cup b.makes \cup c.makes \cup e.makes), busy)
  <2>1. MapUniforms(slot) \notin held \cup (a.makes \cup b.makes \cup c.makes \cup e.makes)
    BY <1>2 DEF SlotObjects, MapImage, MapMemory, MapView, MapTarget, MapUniforms, MapUniformMemory, MapSet
  <2> QED BY <1>1, <2>1, MakeFits
<1>8. FitsIn(g, held \cup (a.makes \cup b.makes \cup c.makes \cup e.makes \cup f.makes), busy)
  <2>1. MapUniformMemory(slot) \notin held \cup (a.makes \cup b.makes \cup c.makes \cup e.makes \cup f.makes)
    BY <1>2 DEF SlotObjects, MapImage, MapMemory, MapView, MapTarget, MapUniforms, MapUniformMemory, MapSet
  <2> QED BY <1>1, <2>1, MakeFits
<1>9. FitsIn(h, held \cup (a.makes \cup b.makes \cup c.makes \cup e.makes \cup f.makes \cup g.makes), busy)
  <2>1. {MapUniformMemory(slot)} \subseteq held \cup (a.makes \cup b.makes \cup c.makes \cup e.makes \cup f.makes \cup g.makes)
    BY <1>2 DEF SlotObjects, MapImage, MapMemory, MapView, MapTarget, MapUniforms, MapUniformMemory, MapSet
  <2> QED BY <1>1, <2>1, CallFits
<1>10. FitsIn(i, held \cup (a.makes \cup b.makes \cup c.makes \cup e.makes \cup f.makes \cup g.makes \cup h.makes), busy)
  <2>1. /\ MapSet(slot) \notin held \cup (a.makes \cup b.makes \cup c.makes \cup e.makes \cup f.makes \cup g.makes \cup h.makes)
        /\ {MapPool, ReceiverLayout, ShadowSampler} \subseteq held \cup (a.makes \cup b.makes \cup c.makes \cup e.makes \cup f.makes \cup g.makes \cup h.makes)
    BY <1>2 DEF SlotObjects, MapImage, MapMemory, MapView, MapTarget, MapUniforms, MapUniformMemory, MapSet
  <2> QED BY <1>1, <2>1, MakeFits
<1>11. Makes(<<a, b, c, e, f, g, h, i>>, held, busy, a.makes \cup b.makes \cup c.makes \cup e.makes \cup f.makes \cup g.makes \cup h.makes \cup i.makes)
  BY <1>3, <1>4, <1>5, <1>6, <1>7, <1>8, <1>9, <1>10, MakesEight
<1>12. a.makes \cup b.makes \cup c.makes \cup e.makes \cup f.makes \cup g.makes \cup h.makes \cup i.makes = {MapImage(slot), MapMemory(slot), MapView(slot), MapTarget(slot), MapUniforms(slot), MapUniformMemory(slot), MapSet(slot)}
  BY <1>2
<1>13. <<a, b, c, e, f, g, h, i>> = SlotCalls(slot)
  BY <1>1 DEF SlotCalls
<1> QED BY <1>11, <1>12, <1>13

SlotMade(slot) == SlotObjects(slot) \cup {MapSet(slot)}

SlotKinds ==
  {"shadow framebuffer", "shadow view", "shadow image", "shadow image memory", "shadow uniforms",
   "shadow uniform memory"}

(* The objects of a shadow map slot carry its kinds and its slot.          *)
LEMMA SlotObjectsAre ==
  ASSUME NEW slot, NEW x \in SlotObjects(slot)
  PROVE  x[1] \in SlotKinds /\ x[2] = slot
<1>1. CASE x = MapTarget(slot)
  BY <1>1 DEF MapTarget, SlotKinds
<1>2. CASE x = MapView(slot)
  BY <1>2 DEF MapView, SlotKinds
<1>3. CASE x = MapImage(slot)
  BY <1>3 DEF MapImage, SlotKinds
<1>4. CASE x = MapMemory(slot)
  BY <1>4 DEF MapMemory, SlotKinds
<1>5. CASE x = MapUniforms(slot)
  BY <1>5 DEF MapUniforms, SlotKinds
<1>6. CASE x = MapUniformMemory(slot)
  BY <1>6 DEF MapUniformMemory, SlotKinds
<1> QED BY <1>1, <1>2, <1>3, <1>4, <1>5, <1>6 DEF SlotObjects

(* The slots' objects and the descriptor sets by their kinds.              *)
LEMMA SlotObjectsOf ==
  ASSUME NEW slot, NEW x
  PROVE  /\ x \in SlotMade(slot) => x[1] \in SlotKinds \cup {"shadow descriptor"} /\ x[2] = slot
         /\ x \in MapSets => x[1] = "shadow descriptor"
<1>1. MapSet(slot)[1] = "shadow descriptor" /\ MapSet(slot)[2] = slot
  BY DEF MapSet
<1>2. x \in SlotMade(slot) => x[1] \in SlotKinds \cup {"shadow descriptor"} /\ x[2] = slot
  BY <1>1, SlotObjectsAre DEF SlotMade
<1>3. ASSUME x \in MapSets
      PROVE  x[1] = "shadow descriptor"
  <2>1. PICK other \in FrameSlots : x = MapSet(other)
    BY <1>3 DEF MapSets
  <2> QED BY <2>1 DEF MapSet
<1> QED BY <1>2, <1>3

(* The kinds of the shadow core; the shader is not of the core.            *)
LEMMA CoreObjectsAre ==
  ASSUME NEW x \in CoreObjects \cup {CasterShader}
  PROVE  /\ x[1] \in {"shadow mesh pipeline", "shadow box pipeline", "shadow caster layout", "shadow sampler",
                      "shadow receiver layout", "shadow pass", "shadow shader"}
         /\ x[1] = "shadow shader" <=> x = CasterShader
<1>1. CASE x = MeshCaster
  BY <1>1 DEF MeshCaster, CasterShader
<1>2. CASE x = BoxCaster
  BY <1>2 DEF BoxCaster, CasterShader
<1>3. CASE x = CasterLayout
  BY <1>3 DEF CasterLayout, CasterShader
<1>4. CASE x = ShadowSampler
  BY <1>4 DEF ShadowSampler, CasterShader
<1>5. CASE x = ReceiverLayout
  BY <1>5 DEF ReceiverLayout, CasterShader
<1>6. CASE x = DepthPass
  BY <1>6 DEF DepthPass, CasterShader
<1>7. CASE x = CasterShader
  BY <1>7 DEF CasterShader
<1> QED BY <1>1, <1>2, <1>3, <1>4, <1>5, <1>6, <1>7 DEF CoreObjects

(* The objects of the shadow maps slot by slot, apart from the core.       *)
LEMMA MapObjectsAre ==
  /\ MapObjects = {MapPool} \cup UNION {SlotMade(slot) : slot \in FrameSlots}
  /\ \A x \in MapObjects : x[1] \in SlotKinds \cup {"shadow descriptor", "shadow pool"}
  /\ \A x \in MapObjects : x \notin CoreObjects /\ x # CasterShader
  /\ MapPool[1] = "shadow pool"
  /\ MapPool \notin MapSets
  /\ (UNION {SlotObjects(slot) : slot \in FrameSlots}) \cap MapSets = {}
<1>1. MapObjects = {MapPool} \cup UNION {SlotMade(slot) : slot \in FrameSlots}
  BY DEF MapObjects, SlotMade, MapSets
<1>2. MapPool[1] = "shadow pool"
  BY DEF MapPool
<1>3. ASSUME NEW x \in MapObjects
      PROVE  x[1] \in SlotKinds \cup {"shadow descriptor", "shadow pool"}
  <2>1. CASE x = MapPool
    BY <1>2, <2>1
  <2>2. ASSUME NEW slot \in FrameSlots, x \in SlotMade(slot)
        PROVE  x[1] \in SlotKinds \cup {"shadow descriptor", "shadow pool"}
    BY <2>2, SlotObjectsOf
  <2> QED BY <1>1, <1>3, <2>1, <2>2
<1>4. \A x \in MapObjects : x \notin CoreObjects /\ x # CasterShader
  <2>1. \A k \in SlotKinds \cup {"shadow descriptor", "shadow pool"} :
          k \notin {"shadow mesh pipeline", "shadow box pipeline", "shadow caster layout", "shadow sampler",
                      "shadow receiver layout", "shadow pass", "shadow shader"}
    BY DEF SlotKinds
  <2> QED BY <2>1, <1>3, CoreObjectsAre
<1>5. MapPool \notin MapSets
  BY <1>2, SlotObjectsOf
<1>6. (UNION {SlotObjects(slot) : slot \in FrameSlots}) \cap MapSets = {}
  <2>1. "shadow descriptor" \notin SlotKinds
    BY DEF SlotKinds
  <2>2. ASSUME NEW slot \in FrameSlots, NEW x \in SlotObjects(slot), x \in MapSets
        PROVE  FALSE
    <3>1. x[1] \in SlotKinds
      BY <2>2, SlotObjectsAre
    <3>2. x[1] = "shadow descriptor"
      BY <2>2, SlotObjectsOf
    <3> QED BY <2>1, <3>1, <3>2
  <2> QED BY <2>2
<1> QED BY <1>1, <1>2, <1>3, <1>4, <1>5, <1>6

(* Maps, core and shader are of the shadow kinds.                          *)
LEMMA ShadowKindsAre ==
  \A x \in MapObjects \cup CoreObjects \cup {CasterShader} : x[1] \in ShadowKinds
<1>1. SlotKinds \cup {"shadow descriptor", "shadow pool"} \subseteq ShadowKinds
  BY DEF SlotKinds, ShadowKinds
<1>2. {"shadow mesh pipeline", "shadow box pipeline", "shadow caster layout", "shadow sampler",
       "shadow receiver layout", "shadow pass", "shadow shader"} \subseteq ShadowKinds
  BY DEF ShadowKinds
<1>3. ASSUME NEW x \in MapObjects
      PROVE  x[1] \in ShadowKinds
  <2>1. x[1] \in SlotKinds \cup {"shadow descriptor", "shadow pool"}
    BY MapObjectsAre
  <2> QED BY <1>1, <2>1
<1>4. ASSUME NEW x \in CoreObjects \cup {CasterShader}
      PROVE  x[1] \in ShadowKinds
  <2>1. x[1] \in {"shadow mesh pipeline", "shadow box pipeline", "shadow caster layout", "shadow sampler",
                  "shadow receiver layout", "shadow pass", "shadow shader"}
    BY CoreObjectsAre
  <2> QED BY <1>2, <2>1
<1> QED BY <1>3, <1>4

(* createMaps adds maps only, and sets only with their pool.               *)
LEMMA CreateMapsAdds ==
  ASSUME NEW d, Clean(d), MapObjects \cap d.held = {}, CoreObjects \subseteq d.held,
         NEW o \in CreateMaps(d)
  PROVE  /\ Adds(d, o, MapObjects)
         /\ MapSets \cap o.d.held # {} => MapPool \in o.d.held
<1>1. PICK p \in Try(d, <<Make(MapPool, {})>>) :
        IF p.ok THEN o \in TryEach(p.d, [n \in 1 .. FramesInFlight |-> SlotCalls(n - 1)]) ELSE o = p
  BY DEF CreateMaps, AndThen
<1>2. Adds(d, p, {MapPool})
  <2>1. FitsIn(Make(MapPool, {}), d.held, Busy(d))
    BY MakeFits DEF MapObjects
  <2>2. Makes(<<Make(MapPool, {})>>, d.held, Busy(d), Make(MapPool, {}).makes)
    BY <2>1, MakesOne
  <2>3. Make(MapPool, {}).makes = {MapPool}
    BY CallsMake
  <2> QED BY <2>2, <2>3, TryMakes
<1>3. CASE ~ p.ok
  <2>1. o = p /\ Adds(d, o, MapObjects)
    BY <1>1, <1>2, <1>3, AddsLess DEF MapObjects
  <2>2. MapSets \cap d.held = {}
    BY DEF MapObjects
  <2>3. MapSets \cap {MapPool} = {}
    BY MapObjectsAre
  <2> QED BY <1>2, <2>1, <2>2, <2>3 DEF Adds
<1>4. CASE p.ok
  <2>1. PICK e, lists, sets :
          /\ e = p.d
          /\ lists = [n \in 1 .. FramesInFlight |-> SlotCalls(n - 1)]
          /\ sets = [n \in 1 .. FramesInFlight |-> SlotMade(n - 1)]
    OBVIOUS
  <2>2. Clean(e) /\ e.held = d.held \cup {MapPool}
    BY <1>2, <1>4, <2>1 DEF Adds
  <2>3. PICK last \in Nat : last = FramesInFlight
    BY DriverAssumption
  <2>4. last = Len(lists)
    BY <2>1, <2>3
  <2>5. ASSUME NEW i \in 1 .. last
        PROVE  Makes(lists[i], e.held \cup Upto(sets, i - 1), Busy(e), sets[i])
    <3>1. i - 1 \in FrameSlots /\ lists[i] = SlotCalls(i - 1) /\ sets[i] = SlotMade(i - 1)
      BY <2>1, <2>3 DEF FrameSlots
    <3>2. \A x \in Upto(sets, i - 1) : x[2] # i - 1
      <4>1. ASSUME NEW j \in 1 .. i - 1, NEW x \in sets[j]
            PROVE  x[2] # i - 1
        <5>1. sets[j] = SlotMade(j - 1)
          BY <2>1, <2>3
        <5>2. x[2] = j - 1
          BY <5>1, SlotObjectsOf
        <5> QED BY <5>2
      <4> QED BY <4>1 DEF Upto
    <3>3. \A x \in SlotMade(i - 1) : x[2] = i - 1
      BY SlotObjectsOf
    <3>4. SlotMade(i - 1) \cap d.held = {}
      BY <3>1, MapObjectsAre
    <3>5. MapPool \notin SlotMade(i - 1)
      BY SlotObjectsOf, MapObjectsAre DEF SlotKinds
    <3>6. PICK held, slot : held = e.held \cup Upto(sets, i - 1) /\ slot = i - 1
      OBVIOUS
    <3>7. (SlotObjects(slot) \cup {MapSet(slot)}) \cap held = {}
      BY <2>2, <3>2, <3>3, <3>4, <3>5, <3>6 DEF SlotMade
    <3>8. {DepthPass, MapPool, ReceiverLayout, ShadowSampler} \subseteq held
      BY <2>2, <3>6 DEF CoreObjects
    <3>9. Makes(SlotCalls(slot), held, Busy(e),
                {MapImage(slot), MapMemory(slot), MapView(slot), MapTarget(slot), MapUniforms(slot),
                 MapUniformMemory(slot), MapSet(slot)})
      BY <3>7, <3>8, SlotMakes
    <3>10. {MapImage(slot), MapMemory(slot), MapView(slot), MapTarget(slot), MapUniforms(slot),
            MapUniformMemory(slot), MapSet(slot)} = SlotMade(slot)
      BY DEF SlotMade, SlotObjects
    <3> QED BY <3>1, <3>6, <3>9, <3>10
  <2>6. o \in TryEach(e, lists)
    BY <1>1, <1>4, <2>1
  <2>7. Adds(e, o, Upto(sets, last))
    BY <2>2, <2>4, <2>5, <2>6, TryEachMakes
  <2>8. MapObjects = {MapPool} \cup Upto(sets, last)
    <3>1. \A slot : slot \in FrameSlots <=> slot + 1 \in 1 .. last /\ slot \in Int
      BY <2>3 DEF FrameSlots
    <3>2. Upto(sets, last) = UNION {SlotMade(slot) : slot \in FrameSlots}
      <4>1. \A j \in 1 .. last : sets[j] = SlotMade(j - 1) /\ j - 1 \in FrameSlots
        BY <2>1, <2>3 DEF FrameSlots
      <4>2. \A slot \in FrameSlots : slot + 1 \in 1 .. last /\ sets[slot + 1] = SlotMade(slot)
        BY <2>1, <2>3 DEF FrameSlots
      <4> QED BY <4>1, <4>2 DEF Upto
    <3> QED BY <3>2, MapObjectsAre
  <2>9. d.refusals \in Nat
    BY CleanShape
  <2>10. Adds(d, o, MapObjects)
    BY <1>2, <1>4, <2>1, <2>7, <2>8, <2>9, AddsMore
  <2>11. MapPool \in o.d.held
    BY <2>2, <2>7 DEF Adds
  <2> QED BY <2>10, <2>11
<1> QED BY <1>3, <1>4

(* destroyMaps removes every map and no more.                              *)
LEMMA DestroyMapsIsClean ==
  ASSUME NEW d, Clean(d), MapSets \cap d.held # {} => MapPool \in d.held,
         Busy(d) \cap MapObjects = {}
  PROVE  LET e == DestroyMaps(d)
         IN  /\ Clean(e) /\ e.held = d.held \ MapObjects
             /\ e.work = d.work /\ e.refusals = d.refusals
<1>1. PICK pool, contents, more :
        pool = MapPool /\ contents = MapSets /\ more = UNION {SlotObjects(t) : t \in FrameSlots}
  OBVIOUS
<1>2. MapObjects = {pool} \cup contents \cup more
  BY <1>1 DEF MapObjects
<1>3. pool \notin contents /\ more \cap contents = {}
  BY <1>1, MapObjectsAre
<1>4. /\ contents \cap d.held # {} => pool \in d.held
      /\ ({pool} \cup contents \cup more) \cap Busy(d) = {}
  BY <1>1, <1>2
<1>5. PICK e : e = Forget(Destroy(DestroyPool(d, pool, contents), more), contents)
  OBVIOUS
<1>6. Clean(e) /\ e.held = d.held \ ({pool} \cup contents \cup more) /\ e.work = d.work /\ e.refusals = d.refusals
  BY <1>3, <1>4, <1>5, PoolIsClean
<1>7. DestroyMaps(d) = e
  BY <1>1, <1>5 DEF DestroyMaps
<1> QED BY <1>2, <1>6, <1>7

(* What owning shadows says of all held objects.                           *)
LEMMA OwnShadows ==
  ASSUME NEW s, NEW held, ShadowsOwn(s, Of(ShadowKinds, held))
  PROVE  /\ s \in ShadowStates
         /\ CasterShader \notin held
         /\ ~ s.device => s = NoShadows /\ Of(ShadowKinds, held) = {}
         /\ ~ s.attemptedCore => ~ s.coreReady /\ CoreObjects \cap held = {}
         /\ s.coreReady => CoreObjects \subseteq held
         /\ IF s.resolution = 0 THEN MapObjects \cap held = {} ELSE MapObjects \subseteq held /\ s.coreReady
<1>1. \A x \in MapObjects \cup CoreObjects \cup {CasterShader} : x \in held <=> x \in Of(ShadowKinds, held)
  BY ShadowKindsAre DEF Of
<1>2. CasterShader \notin CoreObjects \cup MapObjects
  <2>1. CasterShader \notin MapObjects
    BY MapObjectsAre
  <2>2. CasterShader \notin CoreObjects
    BY DEF CoreObjects, MeshCaster, BoxCaster, CasterLayout, ShadowSampler, ReceiverLayout, DepthPass, CasterShader
  <2> QED BY <2>1, <2>2
<1>3. CasterShader \notin held
  BY <1>1, <1>2 DEF ShadowsOwn
<1>4. ASSUME ~ s.device
      PROVE  s = NoShadows /\ Of(ShadowKinds, held) = {}
  <2>1. s = NoShadows
    BY <1>4 DEF ShadowsOwn
  <2>2. ~ s.attemptedCore /\ s.resolution = 0
    BY <2>1 DEF NoShadows
  <2> QED BY <2>1, <2>2 DEF ShadowsOwn
<1> QED BY <1>1, <1>3, <1>4 DEF ShadowsOwn

(* Shadows are owned when the held objects are as their state says.        *)
LEMMA ShadowsAreOwned ==
  ASSUME NEW s, NEW held, s \in ShadowStates,
         Of(ShadowKinds, held) \subseteq CoreObjects \cup MapObjects,
         ~ s.device => s = NoShadows,
         ~ s.attemptedCore => ~ s.coreReady /\ CoreObjects \cap held = {},
         s.coreReady => CoreObjects \subseteq held,
         IF s.resolution = 0 THEN MapObjects \cap held = {} ELSE MapObjects \subseteq held /\ s.coreReady
  PROVE  ShadowsOwn(s, Of(ShadowKinds, held))
<1>1. \A x \in MapObjects \cup CoreObjects : x \in held <=> x \in Of(ShadowKinds, held)
  BY ShadowKindsAre DEF Of
<1> QED BY <1>1 DEF ShadowsOwn

-----------------------------------------------------------------------------
(* createCaster adds its pipeline; the shader module never stays.          *)
LEMMA CasterAdds ==
  ASSUME NEW d, Clean(d), NEW pipeline, pipeline \notin d.held, CasterShader \notin d.held,
         pipeline # CasterShader, {CasterLayout, DepthPass} \subseteq d.held,
         NEW o \in CreateCaster(d, pipeline)
  PROVE  Adds(d, o, {pipeline})
<1>1. PICK outcomes : outcomes = Try(d, <<Make(CasterShader, {}), Make(pipeline, {CasterShader, CasterLayout, DepthPass})>>)
  OBVIOUS
<1>2. \A p \in outcomes : Adds(d, p, {CasterShader, pipeline})
  <2>1. Makes(<<Make(CasterShader, {}), Make(pipeline, {CasterShader, CasterLayout, DepthPass})>>,
              d.held, Busy(d), {CasterShader, pipeline})
    BY CasterMakes
  <2> QED BY <1>1, <2>1, TryMakes
<1>3. o \in Finally(outcomes, {CasterShader})
  BY <1>1 DEF CreateCaster
<1>4. Adds(d, o, {CasterShader, pipeline} \ {CasterShader})
  BY <1>2, <1>3, FinallyAdds
<1>5. {CasterShader, pipeline} \ {CasterShader} = {pipeline}
  OBVIOUS
<1> QED BY <1>4, <1>5

(* createCore adds objects of the core.                                    *)
LEMMA CoreAdds ==
  ASSUME NEW d, Clean(d), CoreObjects \cap d.held = {}, CasterShader \notin d.held,
         NEW s, ~ s.attemptedCore, NEW o \in CreateCoreOnce(s, d)
  PROVE  Adds(d, o, CoreObjects)
<1> DEFINE First == {DepthPass}
           Second == First \cup {ReceiverLayout, CasterLayout, ShadowSampler}
           Third == Second \cup {MeshCaster}
<1>1. PICK c \in AndThen(AndThen(CreatePass(d), CreateLayouts), LAMBDA e : CreateCaster(e, MeshCaster)) :
        IF c.ok THEN o \in CreateCaster(c.d, BoxCaster) ELSE o = c
  BY DEF CreateCoreOnce, AndThen
<1>2. PICK b \in AndThen(CreatePass(d), CreateLayouts) :
        IF b.ok THEN c \in CreateCaster(b.d, MeshCaster) ELSE c = b
  BY <1>1 DEF AndThen
<1>3. PICK a \in CreatePass(d) : IF a.ok THEN b \in CreateLayouts(a.d) ELSE b = a
  BY <1>2 DEF AndThen
<1>4. CoreObjects = Third \cup {BoxCaster} /\ d.refusals \in Nat
  BY CleanShape DEF CoreObjects
<1>5. Adds(d, a, First)
  <2>1. Makes(<<Call({}), Make(DepthPass, {})>>, d.held, Busy(d), {DepthPass})
    BY PassMakes DEF CoreObjects
  <2> QED BY <1>3, <2>1, TryMakes DEF CreatePass
<1>6. Adds(d, b, Second)
  <2>1. CASE ~ a.ok
    BY <1>3, <1>5, <2>1, AddsLess
  <2>2. CASE a.ok
    <3>1. Clean(a.d) /\ a.d.held = d.held \cup First
      BY <1>5, <2>2 DEF Adds
    <3>2. {ReceiverLayout, CasterLayout, ShadowSampler} \cap a.d.held = {}
      <4>1. DepthPass # ReceiverLayout /\ DepthPass # CasterLayout /\ DepthPass # ShadowSampler
        BY DEF ReceiverLayout, CasterLayout, ShadowSampler, DepthPass
      <4>2. {ReceiverLayout, CasterLayout, ShadowSampler} \cap d.held = {}
        BY DEF CoreObjects
      <4> QED BY <3>1, <4>1, <4>2
    <3>3. Adds(a.d, b, {ReceiverLayout, CasterLayout, ShadowSampler})
      <4>1. Makes(<<Make(ReceiverLayout, {}), Make(CasterLayout, {}), Make(ShadowSampler, {})>>,
                  a.d.held, Busy(a.d), {ReceiverLayout, CasterLayout, ShadowSampler})
        BY <3>2, LayoutsMake
      <4> QED BY <1>3, <2>2, <3>1, <4>1, TryMakes DEF CreateLayouts
    <3> QED BY <1>4, <1>5, <2>2, <3>3, AddsMore
  <2> QED BY <2>1, <2>2
<1>7. Adds(d, c, Third)
  <2>1. CASE ~ b.ok
    BY <1>2, <1>6, <2>1, AddsLess
  <2>2. CASE b.ok
    <3>1. Clean(b.d) /\ b.d.held = d.held \cup Second
      BY <1>6, <2>2 DEF Adds
    <3>2. /\ MeshCaster \notin b.d.held /\ CasterShader \notin b.d.held /\ MeshCaster # CasterShader
          /\ {CasterLayout, DepthPass} \subseteq b.d.held
      BY <3>1 DEF CoreObjects, ReceiverLayout, CasterLayout, ShadowSampler, DepthPass, MeshCaster, CasterShader
    <3>3. Adds(b.d, c, {MeshCaster})
      BY <1>2, <2>2, <3>1, <3>2, CasterAdds
    <3> QED BY <1>4, <1>6, <2>2, <3>3, AddsMore
  <2> QED BY <2>1, <2>2
<1>8. CASE ~ c.ok
  BY <1>1, <1>4, <1>7, <1>8, AddsLess
<1>9. CASE c.ok
  <2>1. Clean(c.d) /\ c.d.held = d.held \cup Third
    BY <1>7, <1>9 DEF Adds
  <2>2. /\ BoxCaster \notin c.d.held /\ CasterShader \notin c.d.held /\ BoxCaster # CasterShader
        /\ {CasterLayout, DepthPass} \subseteq c.d.held
    BY <2>1 DEF CoreObjects, ReceiverLayout, CasterLayout, ShadowSampler, DepthPass, MeshCaster, BoxCaster, CasterShader
  <2>3. Adds(c.d, o, {BoxCaster})
    BY <1>1, <1>9, <2>1, <2>2, CasterAdds
  <2> QED BY <1>4, <1>7, <1>9, <2>3, AddsMore
<1> QED BY <1>8, <1>9

(* The core is created at most once, and owned then.                       *)
LEMMA CoreOnce ==
  ASSUME NEW d, Clean(d), NEW s, ShadowsOwn(s, Of(ShadowKinds, d.held)), NEW o \in CreateCoreOnce(s, d)
  PROVE  /\ Becomes(d, o.d, ShadowKinds, Works) /\ o.ok \in BOOLEAN
         /\ Busy(o.d) = Busy(d)
         /\ Of(ShadowKinds, o.d.held) \subseteq CoreObjects \cup MapObjects
         /\ MapObjects \cap o.d.held = MapObjects \cap d.held
         /\ o.ok => CoreObjects \subseteq o.d.held
         /\ s.coreReady => o.ok
         /\ o.d.refusals = 0 /\ (s.attemptedCore => s.coreReady) => o.ok
<1>1. CASE s.attemptedCore
  <2>1. o.d = d /\ o.ok = s.coreReady
    BY <1>1 DEF CreateCoreOnce, Returns
  <2>2. Becomes(d, d, ShadowKinds, Works)
    BY BecomesItself
  <2>3. s.coreReady \in BOOLEAN
    BY DEF ShadowsOwn, ShadowStates
  <2>4. s.coreReady => CoreObjects \subseteq d.held
    BY OwnShadows
  <2> QED BY <1>1, <2>1, <2>2, <2>3, <2>4 DEF ShadowsOwn
<1>2. CASE ~ s.attemptedCore
  <2>1. CoreObjects \cap d.held = {} /\ CasterShader \notin d.held /\ ~ s.coreReady
    BY <1>2, OwnShadows
  <2>2. Adds(d, o, CoreObjects)
    BY <1>2, <2>1, CoreAdds
  <2>3. \A x \in CoreObjects : x[1] \in ShadowKinds
    BY ShadowKindsAre
  <2>4. Becomes(d, o.d, ShadowKinds, Works) /\ Busy(o.d) = Busy(d)
    BY <2>2, <2>3, AddsBecomes
  <2>5. Of(ShadowKinds, o.d.held) \subseteq CoreObjects \cup MapObjects
    BY <2>2 DEF Adds, ShadowsOwn, Of
  <2>6. MapObjects \cap o.d.held = MapObjects \cap d.held
    BY <2>2, MapObjectsAre DEF Adds
  <2>7. d.refusals \in Nat
    BY CleanShape
  <2> QED BY <2>1, <2>2, <2>4, <2>5, <2>6, <2>7 DEF Adds
<1> QED BY <1>1, <1>2

-----------------------------------------------------------------------------
(* What preparing maps keeps of the shadows and gains when no call fails.  *)
ShadowsPrepared(s, d, o, resolution) ==
  /\ Becomes(d, o.d, ShadowKinds, Works) /\ o.ok \in BOOLEAN
  /\ ShadowsOwn(o.s, Of(ShadowKinds, o.d.held)) /\ o.s.device = s.device
  /\ o.ok => o.s.resolution = resolution /\ o.s.coreReady /\ resolution # 0
  /\ o.d.refusals = 0 /\ s.failedResolution = 0 /\ (s.attemptedCore => s.coreReady)
       => /\ o.s.failedResolution = 0 /\ (o.s.attemptedCore => o.s.coreReady)
          /\ resolution # 0 /\ s.device => o.ok

(* Maps of another resolution replace the former ones or leave none.       *)
LEMMA ResizedOwns ==
  ASSUME NEW d, Clean(d), NEW s, ShadowsOwn(s, Of(ShadowKinds, d.held)), s.device, s.coreReady, s.attemptedCore,
         NEW resolution \in Nat \ {0}, NEW o \in Resized(s, d, resolution)
  PROVE  ShadowsPrepared(s, d, o, resolution)
<1>1. PICK w \in WaitIdle(d) :
        IF ~ w.ok THEN o = [d |-> w.d, s |-> s, ok |-> FALSE]
        ELSE \E m \in CreateMaps(DestroyMaps(w.d)) :
               o = [d |-> IF m.ok THEN m.d ELSE DestroyMaps(m.d), ok |-> m.ok,
                    s |-> [s EXCEPT !.resolution = IF m.ok THEN resolution ELSE 0,
                                    !.failedResolution = IF m.ok THEN 0 ELSE resolution]]
  BY DEF Resized
<1>2. /\ Clean(w.d) /\ w.d.held = d.held /\ w.ok \in BOOLEAN /\ d.refusals \in Nat
      /\ IF w.ok THEN Busy(w.d) = {} /\ w.d.work = [x \in Works |-> {}] /\ w.d.refusals = d.refusals
         ELSE w.d.work = d.work /\ w.d.refusals = d.refusals + 1
  BY WaitIsClean, CleanShape
<1>3. Becomes(d, w.d, ShadowKinds, Works)
  <2>1. \A x \in Works : w.d.work[x] \subseteq d.work[x]
    BY <1>2
  <2> QED BY <1>2, <2>1 DEF Becomes
<1>4. CASE ~ w.ok
  <2>1. o.d = w.d /\ o.s = s /\ o.ok = FALSE
    BY <1>1, <1>4
  <2>2. o.d.refusals # 0
    BY <1>2, <1>4, <2>1
  <2>3. ShadowsOwn(o.s, Of(ShadowKinds, o.d.held))
    BY <1>2, <2>1
  <2> QED BY <1>3, <2>1, <2>2, <2>3 DEF ShadowsPrepared
<1>5. CASE w.ok
  <2>1. PICK e : e = DestroyMaps(w.d)
    OBVIOUS
  <2>2. MapSets \cap w.d.held # {} => MapPool \in w.d.held
    <3>1. IF s.resolution = 0 THEN MapObjects \cap d.held = {} ELSE MapObjects \subseteq d.held
      BY OwnShadows
    <3>2. MapSets \subseteq MapObjects /\ MapPool \in MapObjects
      BY DEF MapObjects
    <3> QED BY <1>2, <3>1, <3>2
  <2>3. Clean(e) /\ e.held = w.d.held \ MapObjects /\ e.work = w.d.work /\ e.refusals = w.d.refusals
    BY <1>2, <1>5, <2>1, <2>2, DestroyMapsIsClean
  <2>4. Becomes(w.d, e, ShadowKinds, Works)
    BY <1>2, <2>3, ShadowKindsAre DEF Becomes
  <2>5. PICK m \in CreateMaps(e) :
          o = [d |-> IF m.ok THEN m.d ELSE DestroyMaps(m.d), ok |-> m.ok,
               s |-> [s EXCEPT !.resolution = IF m.ok THEN resolution ELSE 0,
                               !.failedResolution = IF m.ok THEN 0 ELSE resolution]]
    BY <1>1, <1>5, <2>1
  <2>6. MapObjects \cap e.held = {} /\ CoreObjects \subseteq e.held
    <3>1. CoreObjects \subseteq d.held
      BY OwnShadows
    <3> QED BY <1>2, <2>3, <3>1, MapObjectsAre
  <2>7. Adds(e, m, MapObjects) /\ (MapSets \cap m.d.held # {} => MapPool \in m.d.held)
    BY <2>3, <2>5, <2>6, CreateMapsAdds
  <2>8. Becomes(e, m.d, ShadowKinds, Works) /\ Busy(m.d) = Busy(e)
    BY <2>3, <2>7, ShadowKindsAre, AddsBecomes
  <2>9. Of(ShadowKinds, e.held) \subseteq CoreObjects
    BY <1>2, <2>3 DEF ShadowsOwn, Of
  <2>10. s \in ShadowStates
    BY DEF ShadowsOwn
  <2>11. CASE m.ok
    <3>1. PICK n : n = [s EXCEPT !.resolution = resolution, !.failedResolution = 0]
      OBVIOUS
    <3>2. o.d = m.d /\ o.ok = TRUE /\ o.s = n
      BY <2>5, <2>11, <3>1
    <3>3. /\ n \in ShadowStates /\ n.device /\ n.attemptedCore /\ n.coreReady
          /\ n.resolution = resolution /\ n.failedResolution = 0
      BY <2>10, <3>1 DEF ShadowStates
    <3>4. o.d.held = e.held \cup MapObjects
      BY <2>7, <2>11, <3>2 DEF Adds
    <3>5. Of(ShadowKinds, o.d.held) \subseteq CoreObjects \cup MapObjects
      BY <2>9, <3>4 DEF Of
    <3>6. ShadowsOwn(n, Of(ShadowKinds, o.d.held))
      BY <2>6, <3>3, <3>4, <3>5, ShadowsAreOwned
    <3>7. Becomes(d, o.d, ShadowKinds, Works)
      <4>1. Becomes(w.d, o.d, ShadowKinds, Works)
        BY <1>2, <2>4, <2>8, <3>2, BecomesThen
      <4> QED BY <1>3, <4>1, BecomesThen
    <3> QED BY <3>2, <3>3, <3>6, <3>7 DEF ShadowsPrepared
  <2>12. CASE ~ m.ok
    <3>1. PICK n : n = [s EXCEPT !.resolution = 0, !.failedResolution = resolution]
      OBVIOUS
    <3>2. PICK f : f = DestroyMaps(m.d)
      OBVIOUS
    <3>3. o.d = f /\ o.ok = FALSE /\ o.s = n
      BY <2>5, <2>7, <2>12, <3>1, <3>2 DEF Adds
    <3>4. /\ n \in ShadowStates /\ n.device /\ n.attemptedCore /\ n.coreReady
          /\ n.resolution = 0
      BY <2>10, <3>1 DEF ShadowStates
    <3>5. Busy(m.d) = {} /\ Clean(m.d)
      <4>1. Busy(e) = Busy(w.d)
        BY <2>3, WorkIsBusy
      <4> QED BY <1>2, <1>5, <2>7, <2>8, <4>1 DEF Adds
    <3>6. Clean(f) /\ f.held = m.d.held \ MapObjects /\ f.work = m.d.work /\ f.refusals = m.d.refusals
      BY <2>7, <3>2, <3>5, DestroyMapsIsClean
    <3>7. Becomes(m.d, f, ShadowKinds, Works)
      <4>1. m.d.refusals \in Nat
        BY <3>5, CleanShape
      <4>2. \A x \in MapObjects : x[1] \in ShadowKinds
        BY ShadowKindsAre
      <4> QED BY <3>6, <4>1, <4>2 DEF Becomes
    <3>8. /\ MapObjects \cap f.held = {} /\ CoreObjects \subseteq f.held
          /\ Of(ShadowKinds, f.held) \subseteq CoreObjects
      BY <2>6, <2>7, <2>9, <3>6, MapObjectsAre DEF Adds, Of
    <3>9. ShadowsOwn(n, Of(ShadowKinds, f.held))
      BY <3>4, <3>8, ShadowsAreOwned
    <3>10. Becomes(d, f, ShadowKinds, Works)
      <4>1. Becomes(w.d, m.d, ShadowKinds, Works)
        BY <1>2, <2>4, <2>8, BecomesThen
      <4>2. Becomes(w.d, f, ShadowKinds, Works)
        BY <1>2, <4>1, <3>7, BecomesThen
      <4> QED BY <1>3, <4>2, BecomesThen
    <3>11. f.refusals # 0
      BY <1>2, <1>5, <2>3, <2>7, <2>12, <3>6 DEF Adds
    <3> QED BY <3>3, <3>4, <3>9, <3>10, <3>11 DEF ShadowsPrepared
  <2>13. m.ok \in BOOLEAN
    BY <2>7 DEF Adds
  <2> QED BY <2>11, <2>12, <2>13
<1> QED BY <1>2, <1>4, <1>5

(* prepare leaves the shadows owned: ready at the resolution, or failed.   *)
LEMMA PrepareMapsOwns ==
  ASSUME NEW d, Clean(d), NEW s, ShadowsOwn(s, Of(ShadowKinds, d.held)),
         NEW slot \in FrameSlots, MapUniformMemory(slot) \notin Busy(d),
         NEW resolution \in Nat, NEW o \in PrepareMaps(s, d, slot, resolution)
  PROVE  ShadowsPrepared(s, d, o, resolution)
<1>1. CASE resolution = 0 \/ ~ s.device
  <2>1. o.d = d /\ o.s = s /\ o.ok = FALSE
    <3>1. PrepareMaps(s, d, slot, resolution) = {[d |-> d, s |-> s, ok |-> FALSE]}
      BY <1>1, Zenon DEF PrepareMaps
    <3> QED BY <3>1
  <2>2. Becomes(d, d, ShadowKinds, Works)
    BY BecomesItself
  <2> QED BY <1>1, <2>1, <2>2 DEF ShadowsPrepared
<1>2. CASE resolution # 0 /\ s.device
  <2>1. PICK c, tried :
          /\ c \in CreateCoreOnce(s, d)
          /\ tried = [s EXCEPT !.attemptedCore = TRUE, !.coreReady = c.ok]
          /\ IF c.ok THEN \E p \in MapsFor(tried, c.d, resolution) : o = WriteUniforms(p, slot)
             ELSE o = [d |-> c.d, s |-> tried, ok |-> FALSE]
    BY <1>2 DEF PrepareMaps
  <2>2. /\ Becomes(d, c.d, ShadowKinds, Works) /\ c.ok \in BOOLEAN
        /\ Busy(c.d) = Busy(d)
        /\ Of(ShadowKinds, c.d.held) \subseteq CoreObjects \cup MapObjects
        /\ MapObjects \cap c.d.held = MapObjects \cap d.held
        /\ c.ok => CoreObjects \subseteq c.d.held
        /\ s.coreReady => c.ok
        /\ c.d.refusals = 0 /\ (s.attemptedCore => s.coreReady) => c.ok
    BY <2>1, CoreOnce
  <2>3. /\ tried \in ShadowStates /\ tried.device /\ tried.attemptedCore /\ tried.coreReady = c.ok
        /\ tried.resolution = s.resolution /\ tried.failedResolution = s.failedResolution
    BY <1>2, <2>1, <2>2 DEF ShadowsOwn, ShadowStates
  <2>4. /\ IF s.resolution = 0 THEN MapObjects \cap d.held = {} ELSE MapObjects \subseteq d.held /\ s.coreReady
        /\ s.resolution \in Nat
    BY OwnShadows DEF ShadowStates
  <2>5. ShadowsOwn(tried, Of(ShadowKinds, c.d.held))
    <3>1. IF tried.resolution = 0 THEN MapObjects \cap c.d.held = {}
          ELSE MapObjects \subseteq c.d.held /\ tried.coreReady
      BY <2>2, <2>3, <2>4
    <3> QED BY <2>2, <2>3, <3>1, ShadowsAreOwned
  <2>6. Clean(c.d)
    BY <2>2 DEF Becomes
  <2>7. CASE ~ c.ok
    <3>1. o.d = c.d /\ o.s = tried /\ o.ok = FALSE
      BY <2>1, <2>7
    <3> QED BY <2>2, <2>3, <2>5, <2>7, <3>1, <1>2 DEF ShadowsPrepared
  <2>8. CASE c.ok
    <3>1. PICK p \in MapsFor(tried, c.d, resolution) : o = WriteUniforms(p, slot)
      BY <2>1, <2>8
    <3>2. ShadowsPrepared(tried, c.d, p, resolution) /\ p = [d |-> p.d, s |-> p.s, ok |-> p.ok]
      <4>1. CASE tried.resolution = resolution
        <5>1. p = [d |-> c.d, s |-> tried, ok |-> TRUE]
          BY <3>1, <4>1 DEF MapsFor
        <5>2. Becomes(c.d, c.d, ShadowKinds, Works)
          BY <2>6, BecomesItself
        <5> QED BY <1>2, <2>3, <2>5, <2>8, <4>1, <5>1, <5>2 DEF ShadowsPrepared
      <4>2. CASE tried.resolution # resolution /\ tried.failedResolution = resolution
        <5>1. p = [d |-> c.d, s |-> tried, ok |-> FALSE]
          BY <3>1, <4>2 DEF MapsFor
        <5>2. Becomes(c.d, c.d, ShadowKinds, Works)
          BY <2>6, BecomesItself
        <5> QED BY <1>2, <2>3, <2>5, <2>8, <4>2, <5>1, <5>2 DEF ShadowsPrepared
      <4>3. CASE tried.resolution # resolution /\ tried.failedResolution # resolution
        <5>1. p \in Resized(tried, c.d, resolution)
          BY <3>1, <4>3 DEF MapsFor
        <5>2. ShadowsPrepared(tried, c.d, p, resolution)
          BY <1>2, <2>3, <2>5, <2>6, <2>8, <5>1, ResizedOwns
        <5>3. p = [d |-> p.d, s |-> p.s, ok |-> p.ok]
          <6>1. PICK w \in WaitIdle(c.d) :
                  \/ p = [d |-> w.d, s |-> tried, ok |-> FALSE]
                  \/ \E m \in CreateMaps(DestroyMaps(w.d)) :
                       p = [d |-> IF m.ok THEN m.d ELSE DestroyMaps(m.d), ok |-> m.ok,
                            s |-> [tried EXCEPT !.resolution = IF m.ok THEN resolution ELSE 0,
                                                !.failedResolution = IF m.ok THEN 0 ELSE resolution]]
            BY <5>1 DEF Resized
          <6>2. CASE p = [d |-> w.d, s |-> tried, ok |-> FALSE]
            BY <6>2
          <6>3. ASSUME NEW m, NEW x, NEW y, p = [d |-> x, ok |-> m.ok, s |-> y]
                PROVE  p = [d |-> p.d, s |-> p.s, ok |-> p.ok]
            BY <6>3
          <6> QED BY <6>1, <6>2, <6>3
        <5> QED BY <5>2, <5>3
      <4> QED BY <4>1, <4>2, <4>3
    <3>3. o.d = p.d /\ o.s = p.s /\ o.ok = p.ok
      <4>1. CASE ~ p.ok
        BY <3>1, <4>1 DEF WriteUniforms
      <4>2. CASE p.ok
        <5>1. Clean(p.d) /\ Busy(p.d) \subseteq Busy(c.d)
          BY <3>2, BusyBecomes DEF ShadowsPrepared, Becomes
        <5>2. MapUniformMemory(slot) \in p.d.held
          <6>1. p.s.resolution # 0
            BY <3>2, <4>2 DEF ShadowsPrepared
          <6>2. MapObjects \subseteq p.d.held
            BY <3>2, <6>1, OwnShadows DEF ShadowsPrepared
          <6>3. MapUniformMemory(slot) \in MapObjects
            BY DEF MapObjects, SlotObjects
          <6> QED BY <6>2, <6>3
        <5>3. Rewrite(p.d, {MapUniformMemory(slot)}) = p.d
          BY <2>2, <5>1, <5>2, RewriteIsClean
        <5>4. o = [p EXCEPT !.d = p.d]
          BY <3>1, <4>2, <5>3 DEF WriteUniforms
        <5>5. PICK x, y, z : x = p.d /\ y = p.s /\ z = p.ok
          OBVIOUS
        <5>6. p = [d |-> x, s |-> y, ok |-> z] /\ o = [p EXCEPT !.d = x]
          BY <3>2, <5>4, <5>5
        <5> QED BY <5>5, <5>6
      <4> QED BY <4>1, <4>2, <3>2 DEF ShadowsPrepared
    <3>4. Becomes(d, p.d, ShadowKinds, Works)
      BY <2>2, <3>2, BecomesThen DEF ShadowsPrepared
    <3>5. c.d.refusals \in Nat /\ p.d.refusals \in Nat /\ p.d.refusals >= c.d.refusals
      BY <2>6, <3>2, CleanShape DEF ShadowsPrepared, Becomes
    <3> QED BY <1>2, <2>2, <2>3, <2>8, <3>2, <3>3, <3>4, <3>5 DEF ShadowsPrepared
  <2> QED BY <2>2, <2>7, <2>8
<1> QED BY <1>1, <1>2

(* destroy of the shadow map leaves no shadow object behind.               *)
LEMMA DestroyShadowsOwns ==
  ASSUME NEW d, Clean(d), NEW s, ShadowsOwn(s, Of(ShadowKinds, d.held)), Busy(d) = {}
  PROVE  LET e == DestroyShadows(s, d)
         IN  /\ Clean(e) /\ e.work = d.work /\ e.refusals = d.refusals
             /\ Of(ShadowKinds, e.held) = {}
             /\ \A x : x[1] \notin ShadowKinds => (x \in e.held <=> x \in d.held)
<1>1. CASE ~ s.device
  <2>1. DestroyShadows(s, d) = d
    BY <1>1 DEF DestroyShadows
  <2>2. Of(ShadowKinds, d.held) = {}
    BY <1>1, OwnShadows
  <2> QED BY <2>1, <2>2
<1>2. CASE s.device
  <2>1. PICK e : e = DestroyMaps(d)
    OBVIOUS
  <2>2. MapSets \cap d.held # {} => MapPool \in d.held
    <3>1. IF s.resolution = 0 THEN MapObjects \cap d.held = {} ELSE MapObjects \subseteq d.held
      BY OwnShadows
    <3>2. MapSets \subseteq MapObjects /\ MapPool \in MapObjects
      BY DEF MapObjects
    <3> QED BY <3>1, <3>2
  <2>3. Clean(e) /\ e.held = d.held \ MapObjects /\ e.work = d.work /\ e.refusals = d.refusals
    BY <2>1, <2>2, DestroyMapsIsClean
  <2>4. Busy(e) = {}
    BY <2>3, WorkIsBusy
  <2>5. PICK f : f = Destroy(e, CoreObjects)
    OBVIOUS
  <2>6. Clean(f) /\ f.held = e.held \ CoreObjects /\ f.work = e.work /\ f.refusals = e.refusals
    BY <2>3, <2>4, <2>5, DestroyIsClean
  <2>7. Forget(f, CoreObjects) = f
    <3>1. f.held \ CoreObjects = f.held
      BY <2>6
    <3>2. f = Plain(f.held, f.work, f.refusals)
      BY <2>6, CleanShape
    <3>3. Forget(f, CoreObjects) = [f EXCEPT !.held = f.held]
      BY <3>1 DEF Forget
    <3>4. PICK h, w, r : h = f.held /\ w = f.work /\ r = f.refusals
      OBVIOUS
    <3>5. f = Driver(h, h, w, {}, r) /\ Forget(f, CoreObjects) = [f EXCEPT !.held = h]
      BY <3>2, <3>3, <3>4, PlainShape
    <3>6. [Driver(h, h, w, {}, r) EXCEPT !.held = h] = Driver(h, h, w, {}, r)
      BY DriverShape
    <3> QED BY <3>5, <3>6
  <2>8. DestroyShadows(s, d) = f
    BY <1>2, <2>1, <2>5, <2>7 DEF DestroyShadows
  <2>9. f.held = (d.held \ MapObjects) \ CoreObjects
    BY <2>3, <2>6
  <2>10. Of(ShadowKinds, f.held) = {}
    BY <2>9 DEF ShadowsOwn, Of
  <2>11. \A x \in MapObjects \cup CoreObjects : x[1] \in ShadowKinds
    BY ShadowKindsAre
  <2>12. \A x : x[1] \notin ShadowKinds => (x \in f.held <=> x \in d.held)
    BY <2>9, <2>11
  <2> QED BY <2>3, <2>6, <2>8, <2>10, <2>12
<1> QED BY <1>1, <1>2

PipelineKindsOfUi == {"ui pipeline", "ui layout", "ui sampler", "ui descriptors", "ui set layout"}
ShaderKindsOfUi == {"ui vertex shader", "ui fragment shader"}
TextureKinds == {"ui image", "ui image memory", "ui view", "ui set"}
StagingKindsOfUi == {"ui staging", "ui upload command"}

(* The lasting objects of the interface by kind.                           *)
LEMMA PipelineObjectsAre ==
  ASSUME NEW x \in PipelineObjects
  PROVE  x[1] \in PipelineKindsOfUi
<1>1. CASE x = UiPipeline
  BY <1>1 DEF UiPipeline, PipelineKindsOfUi
<1>2. CASE x = UiLayout
  BY <1>2 DEF UiLayout, PipelineKindsOfUi
<1>3. CASE x = UiSampler
  BY <1>3 DEF UiSampler, PipelineKindsOfUi
<1>4. CASE x = UiDescriptors
  BY <1>4 DEF UiDescriptors, PipelineKindsOfUi
<1>5. CASE x = UiSetLayout
  BY <1>5 DEF UiSetLayout, PipelineKindsOfUi
<1> QED BY <1>1, <1>2, <1>3, <1>4, <1>5 DEF PipelineObjects

(* The shader modules of the interface by kind.                            *)
LEMMA UiShadersAre ==
  ASSUME NEW x \in {UiVertexShader, UiFragmentShader}
  PROVE  x[1] \in ShaderKindsOfUi
<1>1. CASE x = UiVertexShader
  BY <1>1 DEF UiVertexShader, ShaderKindsOfUi
<1>2. CASE x = UiFragmentShader
  BY <1>2 DEF UiFragmentShader, ShaderKindsOfUi
<1> QED BY <1>1, <1>2 DEF PipelineObjects

(* The objects of a texture of the interface carry its kinds and its name. *)
LEMMA TextureObjectsAre ==
  ASSUME NEW t, NEW x \in TextureObjects(t)
  PROVE  x[1] \in TextureKinds /\ x[2] = t
<1>1. CASE x = TextureSet(t)
  BY <1>1 DEF TextureSet, TextureKinds
<1>2. CASE x = TextureView(t)
  BY <1>2 DEF TextureView, TextureKinds
<1>3. CASE x = TextureImage(t)
  BY <1>3 DEF TextureImage, TextureKinds
<1>4. CASE x = TextureMemory(t)
  BY <1>4 DEF TextureMemory, TextureKinds
<1> QED BY <1>1, <1>2, <1>3, <1>4 DEF TextureObjects

(* The objects of an interface upload by kind.                             *)
LEMMA StagingPartsAre ==
  ASSUME NEW x \in StagingParts
  PROVE  x[1] \in StagingKindsOfUi
<1>1. CASE x = UploadCommand
  BY <1>1 DEF UploadCommand, StagingKindsOfUi
<1>2. CASE x = Staging
  BY <1>2 DEF Staging, Buffer, StagingKindsOfUi
<1>3. CASE x = StagingMemory
  BY <1>3 DEF StagingMemory, Memory, StagingKindsOfUi
<1> QED BY <1>1, <1>2, <1>3 DEF StagingParts

(* The geometry of a slot: a buffer and its memory for vertices and for    *)
(* indices.                                                                *)
LEMMA GeometryObjectsAre ==
  ASSUME NEW slot, NEW x \in GeometryOf(slot)
  PROVE  /\ x[1] \in Geometry /\ x[2] = slot
         /\ \E name \in Geometry : x = Buffer(name, slot) \/ x = Memory(name, slot)
<1>1. PICK name \in Geometry : x = Buffer(name, slot) \/ x = Memory(name, slot)
  BY DEF GeometryOf
<1>2. CASE x = Buffer(name, slot)
  BY <1>1, <1>2 DEF Buffer
<1>3. CASE x = Memory(name, slot)
  BY <1>1, <1>3 DEF Memory
<1> QED BY <1>1, <1>2, <1>3

(* Buffers and memories of different names or slots differ.                *)
LEMMA BuffersDiffer ==
  ASSUME NEW slot, NEW name, NEW other, NEW place
  PROVE  /\ Buffer(name, slot) # Memory(other, place)
         /\ name # other \/ slot # place =>
              Buffer(name, slot) # Buffer(other, place) /\ Memory(name, slot) # Memory(other, place)
BY DEF Buffer, Memory

(* The groups of interface kinds are disjoint.                             *)
LEMMA KindsOfUiDiffer ==
  /\ \A k \in PipelineKindsOfUi : k \notin ShaderKindsOfUi /\ k \notin TextureKinds /\ k \notin StagingKindsOfUi /\ k \notin Geometry
  /\ \A k \in ShaderKindsOfUi : k \notin TextureKinds /\ k \notin StagingKindsOfUi /\ k \notin Geometry
  /\ \A k \in TextureKinds : k \notin StagingKindsOfUi /\ k \notin Geometry
  /\ \A k \in StagingKindsOfUi : k \notin Geometry
<1>1. \A k \in PipelineKindsOfUi : k \notin ShaderKindsOfUi /\ k \notin TextureKinds /\ k \notin StagingKindsOfUi /\ k \notin Geometry
  BY DEF PipelineKindsOfUi, ShaderKindsOfUi, TextureKinds, StagingKindsOfUi, Geometry
<1>2. \A k \in ShaderKindsOfUi : k \notin TextureKinds /\ k \notin StagingKindsOfUi /\ k \notin Geometry
  BY DEF ShaderKindsOfUi, TextureKinds, StagingKindsOfUi, Geometry
<1>3. \A k \in TextureKinds : k \notin StagingKindsOfUi /\ k \notin Geometry
  BY DEF TextureKinds, StagingKindsOfUi, Geometry
<1>4. \A k \in StagingKindsOfUi : k \notin Geometry
  BY DEF StagingKindsOfUi, Geometry
<1> QED BY <1>1, <1>2, <1>3, <1>4

(* Every object of the interface is of its kinds.                          *)
LEMMA UiKindsAre ==
  /\ \A x \in PipelineObjects \cup {UiVertexShader, UiFragmentShader} \cup StagingParts : x[1] \in UiKinds
  /\ \A t : \A x \in TextureObjects(t) : x[1] \in UiKinds
  /\ \A slot : \A x \in GeometryOf(slot) : x[1] \in UiKinds
  /\ \A x \in GeometryObjects : x[1] \in UiKinds
<1>1. /\ PipelineKindsOfUi \subseteq UiKinds /\ ShaderKindsOfUi \subseteq UiKinds /\ TextureKinds \subseteq UiKinds
      /\ StagingKindsOfUi \subseteq UiKinds /\ Geometry \subseteq UiKinds
  BY DEF PipelineKindsOfUi, ShaderKindsOfUi, TextureKinds, StagingKindsOfUi, Geometry, UiKinds
<1>2. \A x \in PipelineObjects : x[1] \in UiKinds
  BY <1>1, PipelineObjectsAre
<1>3. \A x \in {UiVertexShader, UiFragmentShader} : x[1] \in UiKinds
  BY <1>1, UiShadersAre
<1>4. \A x \in StagingParts : x[1] \in UiKinds
  BY <1>1, StagingPartsAre
<1>5. \A t : \A x \in TextureObjects(t) : x[1] \in UiKinds
  BY <1>1, TextureObjectsAre
<1>6. \A slot : \A x \in GeometryOf(slot) : x[1] \in UiKinds
  BY <1>1, GeometryObjectsAre
<1>7. \A x \in GeometryObjects : x[1] \in UiKinds
  BY <1>6 DEF GeometryObjects
<1> QED BY <1>2, <1>3, <1>4, <1>5, <1>6, <1>7

(* What the interface owns, in terms of all that is held.                  *)
UiHolds(u, held) ==
  /\ u \in UiStates
  /\ \A x \in held : x[1] \in UiKinds =>
       x \in PipelineObjects \cup GeometryObjects \/ \E t \in u.textures : x \in TextureObjects(t)
  /\ IF u.device THEN PipelineObjects \subseteq held ELSE u = NoUi /\ \A x \in held : x[1] \notin UiKinds
  /\ \A t \in u.textures : TextureObjects(t) \subseteq held
  /\ \A slot \in FrameSlots : u.retained[slot] \subseteq u.textures
  /\ GeometryFits(u, held)

(* Owning the interface, said of its own objects or of all held ones.      *)
LEMMA UiOwnsHeld ==
  ASSUME NEW u, NEW held
  PROVE  UiOwns(u, Of(UiKinds, held)) <=> UiHolds(u, held)
<1>0. PICK own : own = Of(UiKinds, held)
  OBVIOUS
<1>1. \A x : x \in own <=> x \in held /\ x[1] \in UiKinds
  BY <1>0 DEF Of
<1>2. PipelineObjects \subseteq own <=> PipelineObjects \subseteq held
  BY <1>1, UiKindsAre
<1>3. \A t : TextureObjects(t) \subseteq own <=> TextureObjects(t) \subseteq held
  BY <1>1, UiKindsAre
<1>4. GeometryFits(u, own) <=> GeometryFits(u, held)
  <2>1. ASSUME NEW slot \in FrameSlots, NEW name \in Geometry
        PROVE  {Buffer(name, slot), Memory(name, slot)} \subseteq own <=> {Buffer(name, slot), Memory(name, slot)} \subseteq held
    <3>1. {Buffer(name, slot), Memory(name, slot)} \subseteq GeometryOf(slot)
      BY <2>1 DEF GeometryOf
    <3> QED BY <1>1, <3>1, UiKindsAre
  <2> QED BY <2>1 DEF GeometryFits
<1>5. own \subseteq PipelineObjects \cup GeometryObjects \cup UNION {TextureObjects(t) : t \in u.textures}
        <=> \A x \in held : x[1] \in UiKinds =>
              x \in PipelineObjects \cup GeometryObjects \/ \E t \in u.textures : x \in TextureObjects(t)
  BY <1>1
<1>6. own = {} <=> \A x \in held : x[1] \notin UiKinds
  BY <1>1
<1> QED BY <1>0, <1>2, <1>3, <1>4, <1>5, <1>6 DEF UiOwns, UiHolds

(* The pipeline of the interface.                                          *)
LEMMA UiMakes ==
  ASSUME NEW held, NEW busy, NEW pass,
         (PipelineObjects \cup {UiVertexShader, UiFragmentShader}) \cap held = {},
         pass \in held
  PROVE  Makes(UiCalls(pass), held, busy, {UiSetLayout, UiDescriptors, UiSampler, UiLayout, UiVertexShader, UiFragmentShader, UiPipeline})
<1>1. PICK a, b, c, e, f, g, h :
        /\ a = Make(UiSetLayout, {})
        /\ b = Make(UiDescriptors, {})
        /\ c = Make(UiSampler, {})
        /\ e = Make(UiLayout, {UiSetLayout})
        /\ f = Make(UiVertexShader, {})
        /\ g = Make(UiFragmentShader, {})
        /\ h = Make(UiPipeline, {UiVertexShader, UiFragmentShader, UiLayout, pass})
  OBVIOUS
<1>2. /\ a.makes = {UiSetLayout}
      /\ b.makes = {UiDescriptors}
      /\ c.makes = {UiSampler}
      /\ e.makes = {UiLayout}
      /\ f.makes = {UiVertexShader}
      /\ g.makes = {UiFragmentShader}
      /\ h.makes = {UiPipeline}
  BY <1>1, CallsMake
<1>3. FitsIn(a, held, busy)
  <2>1. UiSetLayout \notin held
    BY <1>2 DEF PipelineObjects, UiSetLayout, UiDescriptors, UiSampler, UiLayout, UiVertexShader, UiFragmentShader, UiPipeline
  <2> QED BY <1>1, <2>1, MakeFits
<1>4. FitsIn(b, held \cup (a.makes), busy)
  <2>1. UiDescriptors \notin held \cup (a.makes)
    BY <1>2 DEF PipelineObjects, UiSetLayout, UiDescriptors, UiSampler, UiLayout, UiVertexShader, UiFragmentShader, UiPipeline
  <2> QED BY <1>1, <2>1, MakeFits
<1>5. FitsIn(c, held \cup (a.makes \cup b.makes), busy)
  <2>1. UiSampler \notin held \cup (a.makes \cup b.makes)
    BY <1>2 DEF PipelineObjects, UiSetLayout, UiDescriptors, UiSampler, UiLayout, UiVertexShader, UiFragmentShader, UiPipeline
  <2> QED BY <1>1, <2>1, MakeFits
<1>6. FitsIn(e, held \cup (a.makes \cup b.makes \cup c.makes), busy)
  <2>1. /\ UiLayout \notin held \cup (a.makes \cup b.makes \cup c.makes)
        /\ {UiSetLayout} \subseteq held \cup (a.makes \cup b.makes \cup c.makes)
    BY <1>2 DEF PipelineObjects, UiSetLayout, UiDescriptors, UiSampler, UiLayout, UiVertexShader, UiFragmentShader, UiPipeline
  <2> QED BY <1>1, <2>1, MakeFits
<1>7. FitsIn(f, held \cup (a.makes \cup b.makes \cup c.makes \cup e.makes), busy)
  <2>1. UiVertexShader \notin held \cup (a.makes \cup b.makes \cup c.makes \cup e.makes)
    BY <1>2 DEF PipelineObjects, UiSetLayout, UiDescriptors, UiSampler, UiLayout, UiVertexShader, UiFragmentShader, UiPipeline
  <2> QED BY <1>1, <2>1, MakeFits
<1>8. FitsIn(g, held \cup (a.makes \cup b.makes \cup c.makes \cup e.makes \cup f.makes), busy)
  <2>1. UiFragmentShader \notin held \cup (a.makes \cup b.makes \cup c.makes \cup e.makes \cup f.makes)
    BY <1>2 DEF PipelineObjects, UiSetLayout, UiDescriptors, UiSampler, UiLayout, UiVertexShader, UiFragmentShader, UiPipeline
  <2> QED BY <1>1, <2>1, MakeFits
<1>9. FitsIn(h, held \cup (a.makes \cup b.makes \cup c.makes \cup e.makes \cup f.makes \cup g.makes), busy)
  <2>1. /\ UiPipeline \notin held \cup (a.makes \cup b.makes \cup c.makes \cup e.makes \cup f.makes \cup g.makes)
        /\ {UiVertexShader, UiFragmentShader, UiLayout, pass} \subseteq held \cup (a.makes \cup b.makes \cup c.makes \cup e.makes \cup f.makes \cup g.makes)
    BY <1>2 DEF PipelineObjects, UiSetLayout, UiDescriptors, UiSampler, UiLayout, UiVertexShader, UiFragmentShader, UiPipeline
  <2> QED BY <1>1, <2>1, MakeFits
<1>10. Makes(<<a, b, c, e, f, g, h>>, held, busy, a.makes \cup b.makes \cup c.makes \cup e.makes \cup f.makes \cup g.makes \cup h.makes)
  BY <1>3, <1>4, <1>5, <1>6, <1>7, <1>8, <1>9, MakesSeven
<1>11. a.makes \cup b.makes \cup c.makes \cup e.makes \cup f.makes \cup g.makes \cup h.makes = {UiSetLayout, UiDescriptors, UiSampler, UiLayout, UiVertexShader, UiFragmentShader, UiPipeline}
  BY <1>2
<1>12. <<a, b, c, e, f, g, h>> = UiCalls(pass)
  BY <1>1 DEF UiCalls
<1> QED BY <1>10, <1>11, <1>12

(* One buffer of the interface.                                            *)
LEMMA BufferMakes ==
  ASSUME NEW held, NEW busy, NEW name, NEW slot,
         {Buffer(name, slot), Memory(name, slot)} \cap held = {}
  PROVE  Makes(BufferCalls(name, slot), held, busy, {Buffer(name, slot), Memory(name, slot)})
<1>1. PICK a, b, c :
        /\ a = Make(Buffer(name, slot), {})
        /\ b = Make(Memory(name, slot), {})
        /\ c = Call({Memory(name, slot)})
  OBVIOUS
<1>2. /\ a.makes = {Buffer(name, slot)}
      /\ b.makes = {Memory(name, slot)}
      /\ c.makes = {}
  BY <1>1, CallsMake
<1>3. FitsIn(a, held, busy)
  <2>1. Buffer(name, slot) \notin held
    BY <1>2 DEF Buffer, Memory
  <2> QED BY <1>1, <2>1, MakeFits
<1>4. FitsIn(b, held \cup (a.makes), busy)
  <2>1. Memory(name, slot) \notin held \cup (a.makes)
    BY <1>2 DEF Buffer, Memory
  <2> QED BY <1>1, <2>1, MakeFits
<1>5. FitsIn(c, held \cup (a.makes \cup b.makes), busy)
  <2>1. {Memory(name, slot)} \subseteq held \cup (a.makes \cup b.makes)
    BY <1>2 DEF Buffer, Memory
  <2> QED BY <1>1, <2>1, CallFits
<1>6. Makes(<<a, b, c>>, held, busy, a.makes \cup b.makes \cup c.makes)
  BY <1>3, <1>4, <1>5, MakesThree
<1>7. a.makes \cup b.makes \cup c.makes = {Buffer(name, slot), Memory(name, slot)}
  BY <1>2
<1>8. <<a, b, c>> = BufferCalls(name, slot)
  BY <1>1 DEF BufferCalls
<1> QED BY <1>6, <1>7, <1>8

(* Writing the geometry of a slot.                                         *)
LEMMA WritesMake ==
  ASSUME NEW held, NEW busy, NEW slot,
         {Memory("ui vertices", slot), Memory("ui indices", slot)} \subseteq held,
         {Memory("ui vertices", slot), Memory("ui indices", slot)} \cap busy = {}
  PROVE  Makes(<<Write("ui vertices", slot), Write("ui indices", slot)>>, held, busy, {})
<1>1. PICK a, b :
        /\ a = Fill(Memory("ui vertices", slot))
        /\ b = Fill(Memory("ui indices", slot))
  OBVIOUS
<1>2. /\ a.makes = {}
      /\ b.makes = {}
  BY <1>1, CallsMake
<1>3. FitsIn(a, held, busy)
  <2>1. /\ Memory("ui vertices", slot) \in held
        /\ Memory("ui vertices", slot) \notin busy
    BY <1>2
  <2> QED BY <1>1, <2>1, FillFits
<1>4. FitsIn(b, held \cup (a.makes), busy)
  <2>1. /\ Memory("ui indices", slot) \in held \cup (a.makes)
        /\ Memory("ui indices", slot) \notin busy
    BY <1>2
  <2> QED BY <1>1, <2>1, FillFits
<1>5. Makes(<<a, b>>, held, busy, a.makes \cup b.makes)
  BY <1>3, <1>4, MakesTwo
<1>6. a.makes \cup b.makes = {}
  BY <1>2
<1>7. <<a, b>> = <<Write("ui vertices", slot), Write("ui indices", slot)>>
  BY <1>1 DEF Write
<1> QED BY <1>5, <1>6, <1>7

(* The image of a texture.                                                 *)
LEMMA ImageMakes ==
  ASSUME NEW held, NEW busy, NEW t,
         StagingMemory \in held,
         StagingMemory \notin busy,
         {TextureImage(t), TextureMemory(t)} \cap held = {}
  PROVE  Makes(<<Write("ui staging", 0), Make(TextureImage(t), {}), Make(TextureMemory(t), {}), Call({TextureMemory(t)})>>, held, busy, {TextureImage(t), TextureMemory(t)})
<1>1. PICK a, b, c, e :
        /\ a = Fill(Memory("ui staging", 0))
        /\ b = Make(TextureImage(t), {})
        /\ c = Make(TextureMemory(t), {})
        /\ e = Call({TextureMemory(t)})
  OBVIOUS
<1>2. /\ a.makes = {}
      /\ b.makes = {TextureImage(t)}
      /\ c.makes = {TextureMemory(t)}
      /\ e.makes = {}
  BY <1>1, CallsMake
<1>3. FitsIn(a, held, busy)
  <2>1. /\ Memory("ui staging", 0) \in held
        /\ Memory("ui staging", 0) \notin busy
    BY <1>2 DEF StagingMemory, TextureImage, TextureMemory
  <2> QED BY <1>1, <2>1, FillFits
<1>4. FitsIn(b, held \cup (a.makes), busy)
  <2>1. TextureImage(t) \notin held \cup (a.makes)
    BY <1>2 DEF StagingMemory, TextureImage, TextureMemory
  <2> QED BY <1>1, <2>1, MakeFits
<1>5. FitsIn(c, held \cup (a.makes \cup b.makes), busy)
  <2>1. TextureMemory(t) \notin held \cup (a.makes \cup b.makes)
    BY <1>2 DEF StagingMemory, TextureImage, TextureMemory
  <2> QED BY <1>1, <2>1, MakeFits
<1>6. FitsIn(e, held \cup (a.makes \cup b.makes \cup c.makes), busy)
  <2>1. {TextureMemory(t)} \subseteq held \cup (a.makes \cup b.makes \cup c.makes)
    BY <1>2 DEF StagingMemory, TextureImage, TextureMemory
  <2> QED BY <1>1, <2>1, CallFits
<1>7. Makes(<<a, b, c, e>>, held, busy, a.makes \cup b.makes \cup c.makes \cup e.makes)
  BY <1>3, <1>4, <1>5, <1>6, MakesFour
<1>8. a.makes \cup b.makes \cup c.makes \cup e.makes = {TextureImage(t), TextureMemory(t)}
  BY <1>2
<1>9. <<a, b, c, e>> = <<Write("ui staging", 0), Make(TextureImage(t), {}), Make(TextureMemory(t), {}), Call({TextureMemory(t)})>>
  BY <1>1 DEF Write
<1> QED BY <1>7, <1>8, <1>9

(* The command buffer of an upload.                                        *)
LEMMA CommandMakes ==
  ASSUME NEW held, NEW busy,
         UploadCommand \notin held
  PROVE  Makes(<<Make(UploadCommand, {}), Call({UploadCommand})>>, held, busy, {UploadCommand})
<1>1. PICK a, b :
        /\ a = Make(UploadCommand, {})
        /\ b = Call({UploadCommand})
  OBVIOUS
<1>2. /\ a.makes = {UploadCommand}
      /\ b.makes = {}
  BY <1>1, CallsMake
<1>3. FitsIn(a, held, busy)
  <2>1. UploadCommand \notin held
    BY <1>2
  <2> QED BY <1>1, <2>1, MakeFits
<1>4. FitsIn(b, held \cup (a.makes), busy)
  <2>1. {UploadCommand} \subseteq held \cup (a.makes)
    BY <1>2
  <2> QED BY <1>1, <2>1, CallFits
<1>5. Makes(<<a, b>>, held, busy, a.makes \cup b.makes)
  BY <1>3, <1>4, MakesTwo
<1>6. a.makes \cup b.makes = {UploadCommand}
  BY <1>2
<1>7. <<a, b>> = <<Make(UploadCommand, {}), Call({UploadCommand})>>
  BY <1>1
<1> QED BY <1>5, <1>6, <1>7

(* View and descriptor set of a texture.                                   *)
LEMMA BindMakes ==
  ASSUME NEW held, NEW busy, NEW t,
         {TextureView(t), TextureSet(t)} \cap held = {},
         TextureImage(t) \in held,
         {UiDescriptors, UiSetLayout, UiSampler} \subseteq held
  PROVE  Makes(<<Make(TextureView(t), {TextureImage(t)}), Make(TextureSet(t), {UiDescriptors, UiSetLayout, UiSampler})>>, held, busy, {TextureView(t), TextureSet(t)})
<1>1. PICK a, b :
        /\ a = Make(TextureView(t), {TextureImage(t)})
        /\ b = Make(TextureSet(t), {UiDescriptors, UiSetLayout, UiSampler})
  OBVIOUS
<1>2. /\ a.makes = {TextureView(t)}
      /\ b.makes = {TextureSet(t)}
  BY <1>1, CallsMake
<1>3. FitsIn(a, held, busy)
  <2>1. /\ TextureView(t) \notin held
        /\ {TextureImage(t)} \subseteq held
    BY <1>2 DEF TextureView, TextureSet
  <2> QED BY <1>1, <2>1, MakeFits
<1>4. FitsIn(b, held \cup (a.makes), busy)
  <2>1. /\ TextureSet(t) \notin held \cup (a.makes)
        /\ {UiDescriptors, UiSetLayout, UiSampler} \subseteq held \cup (a.makes)
    BY <1>2 DEF TextureView, TextureSet
  <2> QED BY <1>1, <2>1, MakeFits
<1>5. Makes(<<a, b>>, held, busy, a.makes \cup b.makes)
  BY <1>3, <1>4, MakesTwo
<1>6. a.makes \cup b.makes = {TextureView(t), TextureSet(t)}
  BY <1>2
<1>7. <<a, b>> = <<Make(TextureView(t), {TextureImage(t)}), Make(TextureSet(t), {UiDescriptors, UiSetLayout, UiSampler})>>
  BY <1>1
<1> QED BY <1>5, <1>6, <1>7

(* Every loop, whose outcomes are described round by round.                *)
Climbs(kind, slot, outcomes, items, last, f, G) ==
  /\ \A o \in outcomes \cap Reached(f, last) : o \in G[0]
  /\ \A n \in 1 .. last : \A o \in f[n - 1] \cap G[n - 1] :
       \A q \in Stage(kind, slot, o, items[n]) \cap Reached(f, last) : q \in G[n]

(* What a loop has accumulated grows along the loop's own account.         *)
LEMMA RunClimbs ==
  ASSUME NEW kind, NEW slot, NEW outcomes, NEW items, NEW last \in Nat, NEW f,
         IsRun(f, kind, slot, outcomes, items, last),
         NEW G, Climbs(kind, slot, outcomes, items, last, f, G)
  PROVE  f[last] \subseteq G[last]
<1> DEFINE S == {n \in 0 .. last : f[n] \subseteq G[n]}
<1> USE DEF Climbs
<1>0. \A n \in 0 .. last : f[n] \subseteq Reached(f, last)
  BY DEF Reached
<1>1. 0 \in S
  <2>1. 0 \in 0 .. last
    OBVIOUS
  <2>2. f[0] = outcomes
    BY RunStart
  <2> QED BY <1>0, <2>1, <2>2
<1>2. ASSUME NEW n \in 1 .. last, n - 1 \in S
      PROVE  n \in S
  <2>1. \A q \in f[n] : \E o \in f[n - 1] : q \in Stage(kind, slot, o, items[n])
    BY RunStep
  <2>2. f[n - 1] \subseteq G[n - 1] /\ f[n] \subseteq Reached(f, last)
    BY <1>0, <1>2
  <2>3. f[n] \subseteq G[n]
    BY <2>1, <2>2
  <2> QED BY <2>3
<1> HIDE DEF S
<1>3. \A n \in 0 .. last : n \in S
  BY <1>1, <1>2, CountingUp
<1>4. last \in 0 .. last
  OBVIOUS
<1> QED BY <1>3, <1>4 DEF S

-----------------------------------------------------------------------------
(* States of the interface that differ in the capacities only.             *)
Resembles(u, v) ==
  /\ v.device = u.device /\ v.textures = u.textures /\ v.retained = u.retained /\ v.ready = u.ready

(* The capacity of one buffer of a slot is another.                        *)
WithCapacity(u, v, slot, name, size) ==
  /\ Resembles(u, v) /\ v \in UiStates
  /\ v.capacity[slot][name] = size
  /\ \A place \in FrameSlots, other \in Geometry :
       place # slot \/ other # name => v.capacity[place][other] = u.capacity[place][other]

(* Setting a capacity changes that capacity alone.                         *)
LEMMA CapacityChanges ==
  ASSUME NEW u \in UiStates, NEW slot \in FrameSlots, NEW name \in Geometry, NEW size \in Nat
  PROVE  WithCapacity(u, [u EXCEPT !.capacity[slot][name] = size], slot, name, size)
<1>1. PICK v : v = [u EXCEPT !.capacity[slot][name] = size]
  OBVIOUS
<1>2. /\ u.capacity \in [FrameSlots -> [Geometry -> Nat]]
      /\ v = [u EXCEPT !.capacity = [u.capacity EXCEPT ![slot] = [u.capacity[slot] EXCEPT ![name] = size]]]
  BY <1>1 DEF UiStates
<1>3. PICK row, table : /\ row = [u.capacity[slot] EXCEPT ![name] = size]
                        /\ table = [u.capacity EXCEPT ![slot] = row]
  OBVIOUS
<1>4. row \in [Geometry -> Nat] /\ row[name] = size /\ \A other \in Geometry : other # name => row[other] = u.capacity[slot][other]
  BY <1>2, <1>3
<1>5. table \in [FrameSlots -> [Geometry -> Nat]] /\ table[slot] = row /\ \A place \in FrameSlots : place # slot => table[place] = u.capacity[place]
  BY <1>2, <1>3, <1>4
<1>6. v = [u EXCEPT !.capacity = table]
  BY <1>2, <1>3
<1>7. v \in UiStates /\ Resembles(u, v) /\ v.capacity = table
  BY <1>5, <1>6 DEF UiStates, Resembles
<1> QED BY <1>1, <1>4, <1>5, <1>7 DEF WithCapacity

(* resizeBuffer replaces a slot's buffer and memory or removes them.       *)
LEMMA ResizeIs ==
  ASSUME NEW d, Clean(d), NEW name \in Geometry, NEW slot, {Buffer(name, slot), Memory(name, slot)} \cap Busy(d) = {},
         NEW r \in Resize(d, name, slot)
  PROVE  /\ Becomes(d, r.d, UiKinds, Works) /\ r.ok \in BOOLEAN /\ Busy(r.d) = Busy(d)
         /\ r.ok => {Buffer(name, slot), Memory(name, slot)} \subseteq r.d.held
         /\ \A x : x \notin {Buffer(name, slot), Memory(name, slot)} => (x \in r.d.held <=> x \in d.held)
<1>1. PICK pair, e : pair = {Buffer(name, slot), Memory(name, slot)} /\ e = Destroy(d, pair)
  OBVIOUS
<1>2. \A x \in pair : x[1] \in UiKinds
  BY <1>1, UiKindsAre DEF GeometryOf
<1>3. Becomes(d, e, UiKinds, Works) /\ e.held = d.held \ pair /\ e.work = d.work
  BY <1>1, <1>2, DestroyBecomes
<1>4. Clean(e) /\ Busy(e) = Busy(d)
  BY <1>3, WorkIsBusy DEF Becomes
<1>5. Makes(BufferCalls(name, slot), e.held, Busy(e), pair)
  BY <1>1, <1>3, BufferMakes
<1>6. r \in Try(e, BufferCalls(name, slot))
  BY <1>1 DEF Resize
<1>7. Adds(e, r, pair)
  BY <1>4, <1>5, <1>6, TryMakes
<1>8. Becomes(e, r.d, UiKinds, Works) /\ Busy(r.d) = Busy(e)
  BY <1>2, <1>4, <1>7, AddsBecomes
<1>9. Becomes(d, r.d, UiKinds, Works)
  BY <1>3, <1>8, BecomesThen
<1> QED BY <1>1, <1>3, <1>4, <1>7, <1>8, <1>9 DEF Adds

(* Growing a buffer of an idle slot keeps the interface owned.             *)
LEMMA GrownOwns ==
  ASSUME NEW o, Clean(o.d), UiOwns(o.u, Of(UiKinds, o.d.held)), o.u.device, o.ok \in BOOLEAN,
         NEW slot \in FrameSlots, NEW name \in Geometry, NEW size \in Nat,
         GeometryOf(slot) \cap Busy(o.d) = {}, NEW q \in Grown(o, slot, name, size)
  PROVE  /\ Becomes(o.d, q.d, UiKinds, Works) /\ q.ok \in BOOLEAN /\ Busy(q.d) = Busy(o.d)
         /\ UiOwns(q.u, Of(UiKinds, q.d.held)) /\ Resembles(o.u, q.u)
         /\ q.ok => /\ o.ok /\ q.u.capacity[slot][name] >= size
                    /\ \A other \in Geometry \ {name} : q.u.capacity[slot][other] = o.u.capacity[slot][other]
<1>0. o.u \in UiStates
  BY DEF UiOwns
<1>1. CASE ~ o.ok \/ size <= o.u.capacity[slot][name]
  <2>1. q = o
    BY <1>1 DEF Grown
  <2>2. Becomes(o.d, o.d, UiKinds, Works)
    BY BecomesItself
  <2>3. o.u.capacity[slot][name] \in Nat
    BY <1>0 DEF UiStates
  <2> QED BY <1>1, <2>1, <2>2, <2>3 DEF Resembles
<1>2. CASE ~ (~ o.ok \/ size <= o.u.capacity[slot][name])
  <2>1. PICK r, n :
          r \in Resize(o.d, name, slot) /\ n = (IF r.ok THEN size ELSE 0) /\ q = [d |-> r.d, ok |-> r.ok, u |-> [o.u EXCEPT !.capacity[slot][name] = n]]
    BY <1>2 DEF Grown
  <2>2. PICK pair : pair = {Buffer(name, slot), Memory(name, slot)}
    OBVIOUS
  <2>3. pair \subseteq GeometryOf(slot)
    BY <2>2 DEF GeometryOf
  <2>4. /\ Becomes(o.d, r.d, UiKinds, Works) /\ r.ok \in BOOLEAN /\ Busy(r.d) = Busy(o.d)
        /\ r.ok => pair \subseteq r.d.held
        /\ \A x : x \notin pair => (x \in r.d.held <=> x \in o.d.held)
    BY <2>1, <2>2, <2>3, ResizeIs
  <2>5. n \in Nat
    BY <2>1, <2>4
  <2>6. PICK v : v = [o.u EXCEPT !.capacity[slot][name] = n]
    OBVIOUS
  <2>7. WithCapacity(o.u, v, slot, name, n)
    BY <1>0, <2>5, <2>6, CapacityChanges
  <2>8. q.d = r.d /\ q.ok = r.ok /\ q.u = v
    BY <2>1, <2>6
  <2>9. UiHolds(o.u, o.d.held)
    BY UiOwnsHeld
  <2>10. GeometryFits(v, r.d.held)
    <3>1. SUFFICES ASSUME NEW place \in FrameSlots, NEW other \in Geometry, v.capacity[place][other] # 0
                   PROVE  {Buffer(other, place), Memory(other, place)} \subseteq r.d.held
      BY DEF GeometryFits
    <3>2. CASE place = slot /\ other = name
      BY <2>1, <2>2, <2>4, <2>7, <3>1, <3>2 DEF WithCapacity
    <3>3. CASE place # slot \/ other # name
      <4>1. o.u.capacity[place][other] # 0
        BY <2>7, <3>1, <3>3 DEF WithCapacity
      <4>2. {Buffer(other, place), Memory(other, place)} \subseteq o.d.held
        BY <2>9, <4>1 DEF UiHolds, GeometryFits
      <4>3. Buffer(other, place) \notin pair /\ Memory(other, place) \notin pair
        BY <2>2, <3>3, BuffersDiffer
      <4> QED BY <2>4, <4>2, <4>3
    <3> QED BY <3>2, <3>3
  <2>11. \A x \in pair : x \in GeometryObjects
    BY <2>3 DEF GeometryObjects
  <2>12. \A x \in pair : x \notin PipelineObjects /\ \A t : x \notin TextureObjects(t)
    BY <2>3, GeometryObjectsAre, PipelineObjectsAre, TextureObjectsAre, KindsOfUiDiffer
  <2>13. UiHolds(v, r.d.held)
    BY <2>4, <2>7, <2>9, <2>10, <2>11, <2>12 DEF UiHolds, WithCapacity, Resembles
  <2>14. UiOwns(v, Of(UiKinds, r.d.held))
    BY <2>13, UiOwnsHeld
  <2>15. q.ok => /\ o.ok /\ q.u.capacity[slot][name] >= size
                 /\ \A other \in Geometry \ {name} : q.u.capacity[slot][other] = o.u.capacity[slot][other]
    BY <1>2, <2>1, <2>7, <2>8 DEF WithCapacity
  <2> QED BY <2>4, <2>7, <2>8, <2>14, <2>15 DEF WithCapacity
<1> QED BY <1>1, <1>2

(* A capacity of at least a positive size is not zero.                     *)
LEMMA NotLess ==
  ASSUME NEW size \in Nat, size > 0
  PROVE  \A a \in Nat : a >= size => a # 0
OBVIOUS

(* writeGeometry after both buffers have grown.                            *)
LEMMA WriteGeometryAfter ==
  ASSUME NEW o, Clean(o.d), UiOwns(o.u, Of(UiKinds, o.d.held)), o.u.device, o.ok \in BOOLEAN,
         NEW slot \in FrameSlots, NEW size \in Nat, size > 0, GeometryOf(slot) \cap Busy(o.d) = {},
         NEW v, v \in Grown(o, slot, "ui vertices", size),
         NEW i, i \in Grown(v, slot, "ui indices", size), NEW q, q \in Written(i, slot)
  PROVE  /\ Becomes(o.d, q.d, UiKinds, Works) /\ q.ok \in BOOLEAN
         /\ UiOwns(q.u, Of(UiKinds, q.d.held)) /\ Resembles(o.u, q.u)
         /\ q.ok => GeometryOf(slot) \subseteq q.d.held
<1>5. "ui vertices" \in Geometry /\ "ui indices" \in Geometry /\ "ui vertices" # "ui indices"
      /\ \A name \in Geometry : name = "ui vertices" \/ name = "ui indices"
  BY DEF Geometry
<1>6. /\ Becomes(o.d, v.d, UiKinds, Works) /\ v.ok \in BOOLEAN /\ Busy(v.d) = Busy(o.d)
      /\ UiOwns(v.u, Of(UiKinds, v.d.held)) /\ Resembles(o.u, v.u)
      /\ v.ok => /\ o.ok /\ v.u.capacity[slot]["ui vertices"] >= size
                 /\ \A other \in Geometry \ {"ui vertices"} : v.u.capacity[slot][other] = o.u.capacity[slot][other]
  BY <1>5, GrownOwns
<1>7. Clean(v.d) /\ v.u.device /\ GeometryOf(slot) \cap Busy(v.d) = {}
  BY <1>6 DEF Becomes, Resembles
<1>8. /\ Becomes(v.d, i.d, UiKinds, Works) /\ i.ok \in BOOLEAN /\ Busy(i.d) = Busy(v.d)
      /\ UiOwns(i.u, Of(UiKinds, i.d.held)) /\ Resembles(v.u, i.u)
      /\ i.ok => /\ v.ok /\ i.u.capacity[slot]["ui indices"] >= size
                 /\ \A other \in Geometry \ {"ui indices"} : i.u.capacity[slot][other] = v.u.capacity[slot][other]
  BY <1>5, <1>6, <1>7, GrownOwns
<1>9. Becomes(o.d, i.d, UiKinds, Works)
  BY <1>6, <1>8, BecomesThen
<1>10. Clean(i.d) /\ Resembles(o.u, i.u) /\ Busy(i.d) = Busy(o.d)
  BY <1>6, <1>8 DEF Becomes, Resembles
<1>11. CASE ~ i.ok
  <2>1. q = i
    BY <1>11 DEF Written
  <2> QED BY <1>8, <1>9, <1>10, <1>11, <2>1
<1>12. CASE i.ok
  <2>1. PICK w \in Try(i.d, <<Write("ui vertices", slot), Write("ui indices", slot)>>) :
          q = [d |-> w.d, u |-> i.u, ok |-> w.ok]
    BY <1>12 DEF Written
  <2>2. GeometryFits(i.u, i.d.held)
    <3>1. UiHolds(i.u, i.d.held)
      BY <1>8, UiOwnsHeld
    <3> QED BY <3>1 DEF UiHolds
  <2>3. i.u.capacity[slot]["ui vertices"] # 0 /\ i.u.capacity[slot]["ui indices"] # 0
    <3>1. i.u.capacity[slot]["ui indices"] >= size /\ i.u.capacity[slot]["ui vertices"] = v.u.capacity[slot]["ui vertices"]
      BY <1>5, <1>8, <1>12
    <3>2. v.u.capacity[slot]["ui vertices"] >= size
      BY <1>6, <1>8, <1>12
    <3>3. PICK capacity : capacity = i.u.capacity
      OBVIOUS
    <3>4. capacity \in [FrameSlots -> [Geometry -> Nat]]
      BY <1>8, <3>3 DEF UiOwns, UiStates
    <3>5. PICK row : row = capacity[slot]
      OBVIOUS
    <3>6. row \in [Geometry -> Nat]
      BY <3>4, <3>5
    <3>7. PICK a, b : a = row["ui indices"] /\ b = row["ui vertices"]
      OBVIOUS
    <3>8. a \in Nat /\ b \in Nat
      BY <1>5, <3>6, <3>7
    <3>9. a >= size /\ b >= size
      BY <3>1, <3>2, <3>3, <3>5, <3>7
    <3>10. a # 0 /\ b # 0
      BY <3>8, <3>9, NotLess
    <3> QED BY <3>3, <3>5, <3>7, <3>10
  <2>4. GeometryOf(slot) \subseteq i.d.held
    <3>1. /\ {Buffer("ui vertices", slot), Memory("ui vertices", slot)} \subseteq i.d.held
          /\ {Buffer("ui indices", slot), Memory("ui indices", slot)} \subseteq i.d.held
      BY <1>5, <2>2, <2>3 DEF GeometryFits
    <3>2. ASSUME NEW x \in GeometryOf(slot)
          PROVE  x \in i.d.held
      <4>1. PICK name \in Geometry : x = Buffer(name, slot) \/ x = Memory(name, slot)
        BY GeometryObjectsAre
      <4> QED BY <1>5, <3>1, <4>1
    <3> QED BY <3>2
  <2>5. /\ {Memory("ui vertices", slot), Memory("ui indices", slot)} \subseteq GeometryOf(slot)
    BY <1>5 DEF GeometryOf
  <2>6. Makes(<<Write("ui vertices", slot), Write("ui indices", slot)>>, i.d.held, Busy(i.d), {})
    BY <1>10, <2>4, <2>5, WritesMake
  <2>7. Adds(i.d, w, {})
    BY <1>10, <2>1, <2>6, TryMakes
  <2>8. w.d.held = i.d.held /\ w.ok \in BOOLEAN
    BY <2>7 DEF Adds
  <2>9. Becomes(i.d, w.d, UiKinds, Works) /\ Busy(w.d) = Busy(i.d)
    BY <1>10, <2>7, AddsBecomes
  <2>10. Becomes(o.d, w.d, UiKinds, Works)
    BY <1>9, <2>9, BecomesThen
  <2>11. q.d = w.d /\ q.u = i.u /\ q.ok = w.ok
    BY <2>1
  <2> QED BY <1>8, <1>10, <2>4, <2>8, <2>9, <2>10, <2>11
<1> QED BY <1>8, <1>11, <1>12

(* writeGeometry keeps the interface owned and the slot's buffers in       *)
(* place.                                                                  *)
LEMMA WriteGeometryOwns ==
  ASSUME NEW d, Clean(d), NEW u, UiOwns(u, Of(UiKinds, d.held)), u.device,
         NEW slot \in FrameSlots, NEW size \in Nat, size > 0, GeometryOf(slot) \cap Busy(d) = {},
         NEW q \in WriteGeometry(u, d, slot, size)
  PROVE  /\ Becomes(d, q.d, UiKinds, Works) /\ q.ok \in BOOLEAN
         /\ UiOwns(q.u, Of(UiKinds, q.d.held)) /\ Resembles(u, q.u)
         /\ q.ok => GeometryOf(slot) \subseteq q.d.held
<1>1. PICK o : o = [d |-> d, u |-> u, ok |-> TRUE]
  OBVIOUS
<1>2. o.d = d /\ o.u = u /\ o.ok = TRUE
  BY <1>1
<1>3. WriteGeometry(u, d, slot, size)
        = UNION {UNION {Written(i, slot) : i \in Grown(v, slot, "ui indices", size)} :
                   v \in Grown(o, slot, "ui vertices", size)}
  BY <1>1, Zenon DEF WriteGeometry
<1>4. PICK v : v \in Grown(o, slot, "ui vertices", size) /\ q \in UNION {Written(i, slot) : i \in Grown(v, slot, "ui indices", size)}
  BY <1>3
<1>5. PICK i : i \in Grown(v, slot, "ui indices", size) /\ q \in Written(i, slot)
  BY <1>4
<1>6. Clean(o.d) /\ UiOwns(o.u, Of(UiKinds, o.d.held)) /\ o.u.device /\ o.ok \in BOOLEAN
      /\ GeometryOf(slot) \cap Busy(o.d) = {}
  BY <1>2
<1>7. /\ Becomes(o.d, q.d, UiKinds, Works) /\ q.ok \in BOOLEAN
      /\ UiOwns(q.u, Of(UiKinds, q.d.held)) /\ Resembles(o.u, q.u)
      /\ q.ok => GeometryOf(slot) \subseteq q.d.held
  BY <1>4, <1>5, <1>6, WriteGeometryAfter
<1> QED BY <1>2, <1>7

-----------------------------------------------------------------------------
(* The uploads.                                                            *)
LEMMA TextureCallsMake ==
  ASSUME NEW d, Clean(d), NEW t, (StagingParts \cup TextureObjects(t)) \cap d.held = {},
         NEW o \in TryEach(d, TextureCalls(t))
  PROVE  Adds(d, o, StagingParts \cup {TextureImage(t), TextureMemory(t)})
<1>1. PICK lists, sets :
        /\ lists = TextureCalls(t)
        /\ sets = <<{Staging, StagingMemory}, {TextureImage(t), TextureMemory(t)}, {UploadCommand}>>
  OBVIOUS
<1>2. Len(lists) = 3
  BY <1>1 DEF TextureCalls
<1>3. /\ lists[1] = BufferCalls("ui staging", 0)
      /\ lists[2] = <<Write("ui staging", 0), Make(TextureImage(t), {}), Make(TextureMemory(t), {}), Call({TextureMemory(t)})>>
      /\ lists[3] = <<Make(UploadCommand, {}), Call({UploadCommand})>>
  BY <1>1 DEF TextureCalls
<1>4. sets[1] = {Staging, StagingMemory} /\ sets[2] = {TextureImage(t), TextureMemory(t)} /\ sets[3] = {UploadCommand}
  BY <1>1
<1>5. Upto(sets, 0) = {} /\ Upto(sets, 1) = sets[1] /\ Upto(sets, 2) = sets[1] \cup sets[2]
      /\ Upto(sets, 3) = sets[1] \cup sets[2] \cup sets[3]
  <2>1. 1 .. 0 = {} /\ 1 .. 1 = {1} /\ 1 .. 2 = {1, 2} /\ 1 .. 3 = {1, 2, 3}
    OBVIOUS
  <2> QED BY <2>1 DEF Upto
<1>6. /\ Staging \in StagingParts /\ StagingMemory \in StagingParts /\ UploadCommand \in StagingParts
      /\ TextureImage(t) \in TextureObjects(t) /\ TextureMemory(t) \in TextureObjects(t)
  BY DEF StagingParts, TextureObjects
<1>7. \A x \in StagingParts : x \notin TextureObjects(t)
  BY StagingPartsAre, TextureObjectsAre, KindsOfUiDiffer
<1>8. StagingMemory \notin Busy(d)
  BY <1>6, CleanShape
<1>9. UploadCommand # Staging /\ UploadCommand # StagingMemory /\ Staging # StagingMemory
  BY DEF UploadCommand, Staging, StagingMemory, Buffer, Memory
<1>10. Makes(lists[1], d.held \cup Upto(sets, 0), Busy(d), sets[1])
  <2>1. {Buffer("ui staging", 0), Memory("ui staging", 0)} = {Staging, StagingMemory}
    BY DEF Staging, StagingMemory
  <2>2. {Buffer("ui staging", 0), Memory("ui staging", 0)} \cap (d.held \cup Upto(sets, 0)) = {}
    BY <1>5, <1>6, <2>1
  <2>3. Makes(BufferCalls("ui staging", 0), d.held \cup Upto(sets, 0), Busy(d), {Buffer("ui staging", 0), Memory("ui staging", 0)})
    BY <2>2, BufferMakes
  <2> QED BY <1>3, <1>4, <2>1, <2>3
<1>11. Makes(lists[2], d.held \cup Upto(sets, 1), Busy(d), sets[2])
  <2>1. StagingMemory \in d.held \cup Upto(sets, 1) /\ {TextureImage(t), TextureMemory(t)} \cap (d.held \cup Upto(sets, 1)) = {}
    BY <1>4, <1>5, <1>6, <1>7
  <2>2. Makes(<<Write("ui staging", 0), Make(TextureImage(t), {}), Make(TextureMemory(t), {}), Call({TextureMemory(t)})>>,
              d.held \cup Upto(sets, 1), Busy(d), {TextureImage(t), TextureMemory(t)})
    BY <1>8, <2>1, ImageMakes
  <2> QED BY <1>3, <1>4, <2>2
<1>12. Makes(lists[3], d.held \cup Upto(sets, 2), Busy(d), sets[3])
  <2>1. UploadCommand \notin d.held \cup Upto(sets, 2)
    BY <1>4, <1>5, <1>6, <1>7, <1>9
  <2> QED BY <1>3, <1>4, <2>1, CommandMakes
<1>13. PICK last \in Nat : last = 3
  OBVIOUS
<1>14. \A i \in 1 .. last : Makes(lists[i], d.held \cup Upto(sets, i - 1), Busy(d), sets[i])
  <2>1. SUFFICES ASSUME NEW i \in 1 .. last
                 PROVE  Makes(lists[i], d.held \cup Upto(sets, i - 1), Busy(d), sets[i])
    OBVIOUS
  <2>2. (i = 1 /\ i - 1 = 0) \/ (i = 2 /\ i - 1 = 1) \/ (i = 3 /\ i - 1 = 2)
    BY <1>13
  <2> QED BY <1>10, <1>11, <1>12, <2>2
<1>15. Adds(d, o, Upto(sets, last))
  BY <1>1, <1>2, <1>13, <1>14, TryEachMakes
<1>16. Upto(sets, last) = StagingParts \cup {TextureImage(t), TextureMemory(t)}
  BY <1>4, <1>5, <1>13 DEF StagingParts
<1> QED BY <1>15, <1>16

(* The cleanup of a failed upload removes its staging and its texture.     *)
LEMMA CleanedIs ==
  ASSUME NEW d, Clean(d), NEW t, d.work[OneTime] = {} => (StagingParts \cup TextureObjects(t)) \cap Busy(d) = {}
  PROVE  LET e == Cleaned(d, t)
         IN  /\ Becomes(d, e, UiKinds, Works) /\ e.held = d.held \ (StagingParts \cup TextureObjects(t))
             /\ e.refusals = d.refusals
<1>1. PICK w, e, gone : /\ w = (IF d.work[OneTime] # {} THEN Idle(d) ELSE d)
                        /\ gone = StagingParts \cup TextureObjects(t) /\ e = Destroy(w, gone)
  OBVIOUS
<1>2. Cleaned(d, t) = e
  BY <1>1 DEF Cleaned, IgnoredWait
<1>3. /\ Clean(w) /\ w.held = d.held /\ w.refusals = d.refusals /\ gone \cap Busy(w) = {}
      /\ \A x \in Works : w.work[x] \subseteq d.work[x]
  <2>1. CASE d.work[OneTime] # {}
    <3>1. Clean(Idle(d)) /\ Idle(d).held = d.held /\ Idle(d).refusals = d.refusals
          /\ Busy(Idle(d)) = {} /\ Idle(d).work = [x \in Works |-> {}]
      BY IdleIsClean
    <3> QED BY <1>1, <2>1, <3>1
  <2>2. CASE d.work[OneTime] = {}
    BY <1>1, <2>2
  <2> QED BY <2>1, <2>2
<1>4. \A x \in gone : x[1] \in UiKinds
  BY <1>1, UiKindsAre
<1>5. /\ Becomes(w, e, UiKinds, Works) /\ e.held = w.held \ gone
      /\ e.work = w.work /\ e.refusals = w.refusals
  <2>1. e = Destroy(w, gone)
    BY <1>1
  <2>2. Clean(w) /\ gone \cap Busy(w) = {}
    BY <1>3
  <2> QED BY <1>4, <2>1, <2>2, DestroyBecomes
<1>6. Becomes(d, w, UiKinds, Works)
  <2>1. d.refusals \in Nat
    BY CleanShape
  <2> QED BY <1>3, <2>1 DEF Becomes
<1>7. Becomes(d, e, UiKinds, Works)
  BY <1>5, <1>6, BecomesThen
<1> QED BY <1>1, <1>2, <1>3, <1>5, <1>7

(* upload leaves a complete texture or nothing of it.                      *)
LEMMA UploadOwns ==
  ASSUME NEW d, Clean(d), NEW t, (StagingParts \cup TextureObjects(t)) \cap d.held = {},
         PipelineObjects \subseteq d.held, NEW o \in Upload(d, t)
  PROVE  /\ Becomes(d, o.d, UiKinds, Works) /\ o.ok \in BOOLEAN /\ o = [d |-> o.d, ok |-> o.ok]
         /\ o.d.held = IF o.ok THEN d.held \cup TextureObjects(t) ELSE d.held
<1>1. PICK p \in AndThen(AndThen(TryEach(d, TextureCalls(t)), LAMBDA e : CopyTexture(e, t)), LAMBDA e : Bind(e, t)) :
        o = IF p.ok THEN p ELSE [p EXCEPT !.d = Cleaned(@, t)]
  BY DEF Upload
<1>2. PICK b \in AndThen(TryEach(d, TextureCalls(t)), LAMBDA e : CopyTexture(e, t)) :
        IF b.ok THEN p \in Bind(b.d, t) ELSE p = b
  BY <1>1 DEF AndThen
<1>3. PICK a \in TryEach(d, TextureCalls(t)) : IF a.ok THEN b \in CopyTexture(a.d, t) ELSE b = a
  BY <1>2 DEF AndThen
<1> DEFINE All == StagingParts \cup TextureObjects(t)
<1>4. Adds(d, a, StagingParts \cup {TextureImage(t), TextureMemory(t)})
  BY <1>3, TextureCallsMake
<1>5. StagingParts \cup {TextureImage(t), TextureMemory(t)} \subseteq All
  BY DEF TextureObjects
<1>6. \A x \in All : x[1] \in UiKinds
  BY UiKindsAre
<1>7. Becomes(d, a.d, UiKinds, Works) /\ Busy(a.d) = Busy(d)
  BY <1>4, <1>5, <1>6, AddsBecomes
<1>8. All \cap Busy(d) = {}
  BY CleanShape
<1> DEFINE Has(e) == Becomes(d, e, UiKinds, Works) /\ d.held \subseteq e.held /\ e.held \subseteq d.held \cup All
<1>9. ASSUME NEW e, Has(e), e.work[OneTime] = {} => All \cap Busy(e) = {}
      PROVE  Becomes(d, Cleaned(e, t), UiKinds, Works) /\ Cleaned(e, t).held = d.held
  <2>1. Clean(e)
    BY <1>9 DEF Becomes
  <2>2. Becomes(e, Cleaned(e, t), UiKinds, Works) /\ Cleaned(e, t).held = e.held \ All
    BY <1>9, <2>1, CleanedIs
  <2>3. Becomes(d, Cleaned(e, t), UiKinds, Works)
    BY <1>9, <2>2, BecomesThen
  <2>4. Cleaned(e, t).held = d.held
    BY <1>9, <2>2
  <2> QED BY <2>3, <2>4
<1>10. Has(a.d) /\ a.ok \in BOOLEAN /\ a = [d |-> a.d, ok |-> a.ok]
  BY <1>4, <1>5, <1>7 DEF Adds
<1>11. CASE ~ a.ok
  <2>1. p = a /\ ~ p.ok
    BY <1>2, <1>3, <1>11
  <2>2. Has(p.d) /\ All \cap Busy(p.d) = {}
    BY <1>7, <1>8, <1>10, <2>1
  <2>3. o.d = Cleaned(p.d, t) /\ o.ok = FALSE /\ o = [d |-> o.d, ok |-> o.ok]
    BY <1>1, <1>10, <1>11, <2>1
  <2> QED BY <1>9, <2>2, <2>3
<1>12. CASE a.ok
  <2>1. PICK w : w = Submit(a.d, OneTime, StagingParts \cup {TextureImage(t), TextureMemory(t)})
    OBVIOUS
  <2>2. b \in WaitIdle(w)
    BY <1>3, <1>12, <2>1 DEF CopyTexture
  <2>3. StagingParts \cup {TextureImage(t), TextureMemory(t)} \subseteq a.d.held /\ Clean(a.d)
        /\ a.d.held = d.held \cup StagingParts \cup {TextureImage(t), TextureMemory(t)}
    BY <1>4, <1>12 DEF Adds
  <2>4. OneTime \in Works
    BY DriverAssumption DEF OneTime, Works
  <2>5. /\ Clean(w) /\ w.held = a.d.held /\ w.refusals = a.d.refusals
        /\ w.work = [a.d.work EXCEPT ![OneTime] = @ \cup (StagingParts \cup {TextureImage(t), TextureMemory(t)})]
    BY <2>1, <2>3, <2>4, SubmitIsClean
  <2>6. /\ b = [d |-> b.d, ok |-> b.ok] /\ b.ok \in BOOLEAN
        /\ Clean(b.d) /\ b.d.held = w.held
        /\ IF b.ok THEN Busy(b.d) = {} /\ b.d.work = [x \in Works |-> {}] /\ b.d.refusals = w.refusals
           ELSE b.d.work = w.work /\ b.d.refusals = w.refusals + 1
    BY <2>2, <2>5, WaitIsClean
  <2>7. CASE ~ b.ok
    <3>1. p = b /\ ~ p.ok
      BY <1>2, <2>7
    <3>2. o.d = Cleaned(b.d, t) /\ o.ok = FALSE /\ o = [d |-> o.d, ok |-> o.ok]
      BY <1>1, <2>6, <2>7, <3>1
    <3>3. w.work[OneTime] # {} /\ \A x \in Works \ {OneTime} : w.work[x] = a.d.work[x]
      <4>1. a.d.work = [x \in Works |-> a.d.work[x]]
        BY <2>3, CleanShape
      <4>2. w.work[OneTime] = a.d.work[OneTime] \cup (StagingParts \cup {TextureImage(t), TextureMemory(t)})
        BY <2>4, <2>5, <4>1
      <4>3. \A x \in Works \ {OneTime} : w.work[x] = a.d.work[x]
        BY <2>5, <4>1
      <4> QED BY <4>2, <4>3
    <3>4. PICK e : e = Cleaned(b.d, t)
      OBVIOUS
    <3>5. b.d.work[OneTime] # {}
      BY <2>6, <2>7, <3>3
    <3>6. /\ Becomes(b.d, e, UiKinds, Works) /\ e.held = b.d.held \ All /\ e.refusals = b.d.refusals
      BY <2>6, <3>4, <3>5, CleanedIs
    <3>7. e.work = [x \in Works |-> {}]
      <4>1. e = Destroy(Idle(b.d), StagingParts \cup TextureObjects(t))
        BY <3>4, <3>5 DEF Cleaned, IgnoredWait
      <4>2. Clean(Idle(b.d)) /\ Busy(Idle(b.d)) = {} /\ Idle(b.d).work = [x \in Works |-> {}]
        BY <2>6, IdleIsClean
      <4>3. e.work = Idle(b.d).work
        BY <4>1, <4>2, DestroyIsClean
      <4> QED BY <4>2, <4>3
    <3>8. e.held = d.held
      BY <1>5, <2>3, <2>5, <2>6, <3>6
    <3>9. d.refusals \in Nat /\ a.d.refusals = d.refusals
      BY <1>4, <1>12, CleanShape DEF Adds
    <3>10. e.refusals >= d.refusals
      BY <2>5, <2>6, <2>7, <3>6, <3>9
    <3>11. Becomes(d, e, UiKinds, Works)
      BY <3>6, <3>7, <3>8, <3>10 DEF Becomes
    <3> QED BY <3>2, <3>4, <3>8, <3>11
  <2>8. CASE b.ok
    <3>1. PICK g : g = Destroy(b.d, StagingParts)
      OBVIOUS
    <3>2. p \in Try(g, <<Make(TextureView(t), {TextureImage(t)}), Make(TextureSet(t), {UiDescriptors, UiSetLayout, UiSampler})>>)
      BY <1>2, <2>8, <3>1 DEF Bind
    <3>3. Clean(g) /\ g.held = b.d.held \ StagingParts /\ g.work = b.d.work /\ g.refusals = b.d.refusals
      BY <2>6, <2>8, <3>1, DestroyIsClean
    <3>4. Busy(g) = {}
      BY <2>6, <2>8, <3>3, WorkIsBusy
    <3>5. StagingParts \cap TextureObjects(t) = {} /\ StagingParts \cap PipelineObjects = {}
      BY StagingPartsAre, TextureObjectsAre, PipelineObjectsAre, KindsOfUiDiffer
    <3>6. g.held = d.held \cup {TextureImage(t), TextureMemory(t)}
      BY <1>5, <2>3, <2>5, <2>6, <3>3, <3>5 DEF TextureObjects
    <3>7. /\ TextureView(t) \notin {TextureImage(t), TextureMemory(t)} /\ TextureSet(t) \notin {TextureImage(t), TextureMemory(t)}
      BY DEF TextureView, TextureSet, TextureImage, TextureMemory
    <3>8. /\ {TextureView(t), TextureSet(t)} \cap g.held = {} /\ TextureImage(t) \in g.held
          /\ {UiDescriptors, UiSetLayout, UiSampler} \subseteq g.held
      BY <3>6, <3>7 DEF TextureObjects, PipelineObjects
    <3>9. Adds(g, p, {TextureView(t), TextureSet(t)})
      <4>1. Makes(<<Make(TextureView(t), {TextureImage(t)}), Make(TextureSet(t), {UiDescriptors, UiSetLayout, UiSampler})>>,
                  g.held, Busy(g), {TextureView(t), TextureSet(t)})
        BY <3>8, BindMakes
      <4> QED BY <3>2, <3>3, <4>1, TryMakes
    <3>10. Becomes(d, g, UiKinds, Works)
      <4>1. \A x \in Works : g.work[x] = {}
        BY <2>6, <2>8, <3>3
      <4>2. g.refusals = d.refusals /\ d.refusals \in Nat
        BY <1>4, <1>12, <2>5, <2>6, <2>8, <3>3, CleanShape DEF Adds
      <4>3. \A x : x[1] \notin UiKinds => (x \in g.held <=> x \in d.held)
        BY <1>5, <1>6, <3>6
      <4> QED BY <3>3, <4>1, <4>2, <4>3 DEF Becomes
    <3>11. {TextureView(t), TextureSet(t)} \subseteq All /\ {TextureView(t), TextureSet(t)} \subseteq TextureObjects(t)
      BY DEF TextureObjects
    <3>12. Becomes(g, p.d, UiKinds, Works) /\ Busy(p.d) = Busy(g)
      BY <1>6, <3>3, <3>9, <3>11, AddsBecomes
    <3>13. Becomes(d, p.d, UiKinds, Works)
      BY <3>10, <3>12, BecomesThen
    <3>14. p.ok \in BOOLEAN /\ p = [d |-> p.d, ok |-> p.ok]
      BY <3>9 DEF Adds
    <3>15. CASE p.ok
      <4>1. o = p
        BY <1>1, <3>15
      <4>2. p.d.held = g.held \cup {TextureView(t), TextureSet(t)}
        BY <3>9, <3>15 DEF Adds
      <4>3. p.d.held = d.held \cup TextureObjects(t)
        BY <3>6, <4>2 DEF TextureObjects
      <4> QED BY <3>13, <3>14, <3>15, <4>1, <4>3
    <3>16. CASE ~ p.ok
      <4>1. o.d = Cleaned(p.d, t) /\ o.ok = FALSE /\ o = [d |-> o.d, ok |-> o.ok]
        BY <1>1, <3>14, <3>16
      <4>2. Has(p.d)
        BY <1>5, <3>6, <3>9, <3>11, <3>13 DEF Adds
      <4>3. All \cap Busy(p.d) = {}
        BY <3>4, <3>12
      <4> QED BY <1>9, <4>1, <4>2, <4>3
    <3> QED BY <3>14, <3>15, <3>16
  <2> QED BY <2>6, <2>7, <2>8
<1> QED BY <1>10, <1>11, <1>12

(* Objects of different textures differ.                                   *)
LEMMA TexturesDiffer ==
  ASSUME NEW t, NEW s, t # s
  PROVE  TextureObjects(t) \cap TextureObjects(s) = {}
<1>1. TextureSet(t) \notin TextureObjects(s)
  BY DEF TextureObjects, TextureSet, TextureView, TextureImage, TextureMemory
<1>2. TextureView(t) \notin TextureObjects(s)
  BY DEF TextureObjects, TextureSet, TextureView, TextureImage, TextureMemory
<1>3. TextureImage(t) \notin TextureObjects(s)
  BY DEF TextureObjects, TextureSet, TextureView, TextureImage, TextureMemory
<1>4. TextureMemory(t) \notin TextureObjects(s)
  BY DEF TextureObjects, TextureSet, TextureView, TextureImage, TextureMemory
<1>5. \A x \in TextureObjects(t) : x = TextureSet(t) \/ x = TextureView(t) \/ x = TextureImage(t) \/ x = TextureMemory(t)
  BY DEF TextureObjects
<1> QED BY <1>1, <1>2, <1>3, <1>4, <1>5

(* The objects of the interface are of different sorts.                    *)
LEMMA UiSortsDiffer ==
  /\ \A t : \A x \in TextureObjects(t) : x \notin PipelineObjects /\ x \notin GeometryObjects /\ x \notin StagingParts
  /\ \A x \in StagingParts : x \notin PipelineObjects /\ x \notin GeometryObjects
  /\ \A x \in GeometryObjects : x \notin PipelineObjects
<1>1. \A x \in GeometryObjects : x[1] \in Geometry
  BY GeometryObjectsAre DEF GeometryObjects
<1>2. \A t : \A x \in TextureObjects(t) : x[1] \in TextureKinds
  BY TextureObjectsAre
<1>3. \A x \in StagingParts : x[1] \in StagingKindsOfUi
  BY StagingPartsAre
<1>4. \A x \in PipelineObjects : x[1] \in PipelineKindsOfUi
  BY PipelineObjectsAre
<1> QED BY <1>1, <1>2, <1>3, <1>4, KindsOfUiDiffer

(* What is not of a texture that is there, is not there.                   *)
LEMMA TextureIsNew ==
  ASSUME NEW u, NEW held, UiHolds(u, held), NEW t, t \notin u.textures
  PROVE  (StagingParts \cup TextureObjects(t)) \cap held = {}
<1> SUFFICES ASSUME NEW x \in (StagingParts \cup TextureObjects(t)) \cap held
             PROVE  FALSE
  OBVIOUS
<1>1. x[1] \in UiKinds
  BY UiKindsAre
<1>2. x \in PipelineObjects \cup GeometryObjects \/ \E s \in u.textures : x \in TextureObjects(s)
  BY <1>1 DEF UiHolds
<1>3. x \notin PipelineObjects \cup GeometryObjects
  BY UiSortsDiffer
<1>4. PICK s \in u.textures : x \in TextureObjects(s)
  BY <1>2, <1>3
<1>5. x \notin StagingParts
  BY <1>4, UiSortsDiffer
<1>6. TextureObjects(t) \cap TextureObjects(s) = {}
  BY TexturesDiffer
<1> QED BY <1>4, <1>5, <1>6

(* What drawing changes of the interface's state.                          *)
DrawnFrom(u, v, slot) ==
  /\ v \in UiStates
  /\ v.device = u.device /\ v.ready = u.ready /\ v.capacity = u.capacity
  /\ u.textures \subseteq v.textures /\ u.retained[slot] \subseteq v.retained[slot]
  /\ \A other \in FrameSlots \ {slot} : v.retained[other] = u.retained[other]

(* Retaining a texture for a slot records it there and nowhere else.       *)
LEMMA RetainedIs ==
  ASSUME NEW u \in UiStates, NEW slot \in FrameSlots, NEW t \in Textures
  PROVE  \E v : /\ v = [u EXCEPT !.textures = @ \cup {t}, !.retained[slot] = @ \cup {t}]
                /\ DrawnFrom(u, v, slot)
                /\ v.textures = u.textures \cup {t} /\ v.retained[slot] = u.retained[slot] \cup {t}
<1>0. PICK v : v = [u EXCEPT !.textures = @ \cup {t}, !.retained[slot] = @ \cup {t}]
  OBVIOUS
<1>1. u.retained \in [FrameSlots -> SUBSET Textures] /\ u.textures \subseteq Textures
  BY DEF UiStates
<1>2. PICK kept : kept = [u.retained EXCEPT ![slot] = u.retained[slot] \cup {t}]
  OBVIOUS
<1>3. /\ kept \in [FrameSlots -> SUBSET Textures] /\ kept[slot] = u.retained[slot] \cup {t}
      /\ \A other \in FrameSlots \ {slot} : kept[other] = u.retained[other]
  BY <1>1, <1>2
<1>4. PICK w, all : all = u.textures \cup {t} /\ w = [u EXCEPT !.textures = all]
  OBVIOUS
<1>5. w \in UiStates /\ w.device = u.device /\ w.ready = u.ready /\ w.capacity = u.capacity
      /\ w.textures = all /\ w.retained = u.retained
  BY <1>1, <1>4 DEF UiStates
<1>6. v = [w EXCEPT !.retained = kept]
  BY <1>0, <1>2, <1>4
<1>7. v \in UiStates /\ v.device = u.device /\ v.ready = u.ready /\ v.capacity = u.capacity
      /\ v.textures = all /\ v.retained = kept
  BY <1>3, <1>5, <1>6 DEF UiStates
<1> QED BY <1>0, <1>3, <1>4, <1>7 DEF DrawnFrom

(* Uploading the texture of one draw keeps the interface owned.            *)
LEMMA DrawOwns ==
  ASSUME NEW o, Clean(o.d), UiHolds(o.u, o.d.held), o.u.device, o.ok \in BOOLEAN,
         NEW slot \in FrameSlots, NEW t \in Textures, NEW q \in UploadDraw(o, slot, t)
  PROVE  /\ Becomes(o.d, q.d, UiKinds, Works) /\ q.ok \in BOOLEAN
         /\ UiHolds(q.u, q.d.held) /\ DrawnFrom(o.u, q.u, slot)
         /\ \A x \in GeometryObjects : x \in q.d.held <=> x \in o.d.held
         /\ q.ok => o.ok /\ t \in q.u.retained[slot]
<1>1. o.u \in UiStates
  BY DEF UiHolds
<1>2. CASE ~ o.ok
  <2>1. q = o
    BY <1>2 DEF UploadDraw
  <2>2. Becomes(o.d, o.d, UiKinds, Works)
    BY BecomesItself
  <2> QED BY <1>1, <1>2, <2>1, <2>2 DEF DrawnFrom
<1>3. CASE o.ok
  <2>1. PICK v : /\ v \in IF t \in o.u.textures THEN Returns(o.d, TRUE) ELSE Upload(o.d, t)
                 /\ q = [d |-> v.d, ok |-> v.ok,
                         u |-> IF v.ok THEN [o.u EXCEPT !.textures = @ \cup {t}, !.retained[slot] = @ \cup {t}] ELSE o.u]
    BY <1>3 DEF UploadDraw
  <2>2. /\ Becomes(o.d, v.d, UiKinds, Works) /\ v.ok \in BOOLEAN
        /\ IF v.ok THEN v.d.held = o.d.held \cup TextureObjects(t) ELSE v.d.held = o.d.held
    <3>1. CASE t \in o.u.textures
      <4>1. v.d = o.d /\ v.ok = TRUE
        BY <2>1, <3>1 DEF Returns
      <4>2. Becomes(o.d, o.d, UiKinds, Works)
        BY BecomesItself
      <4>3. TextureObjects(t) \subseteq o.d.held
        BY <3>1 DEF UiHolds
      <4> QED BY <4>1, <4>2, <4>3
    <3>2. CASE t \notin o.u.textures
      <4>1. (StagingParts \cup TextureObjects(t)) \cap o.d.held = {}
        BY <3>2, TextureIsNew
      <4>2. PipelineObjects \subseteq o.d.held
        BY DEF UiHolds
      <4>3. v \in Upload(o.d, t)
        BY <2>1, <3>2
      <4>4. /\ Becomes(o.d, v.d, UiKinds, Works) /\ v.ok \in BOOLEAN /\ v = [d |-> v.d, ok |-> v.ok]
            /\ v.d.held = IF v.ok THEN o.d.held \cup TextureObjects(t) ELSE o.d.held
        BY <4>1, <4>2, <4>3, UploadOwns
      <4> QED BY <4>4
    <3> QED BY <3>1, <3>2
  <2>3. \A x \in GeometryObjects : x \in v.d.held <=> x \in o.d.held
    BY <2>2, UiSortsDiffer
  <2>4. CASE ~ v.ok
    <3>1. q.d = v.d /\ q.ok = FALSE /\ q.u = o.u
      BY <2>1, <2>2, <2>4
    <3>2. DrawnFrom(o.u, o.u, slot)
      BY <1>1 DEF DrawnFrom
    <3> QED BY <2>2, <2>3, <2>4, <3>1, <3>2
  <2>5. CASE v.ok
    <3>1. PICK u \in UiStates : u = o.u
      BY <1>1
    <3>11. PICK n : /\ n = [u EXCEPT !.textures = @ \cup {t}, !.retained[slot] = @ \cup {t}]
                    /\ DrawnFrom(u, n, slot)
                    /\ n.textures = u.textures \cup {t} /\ n.retained[slot] = u.retained[slot] \cup {t}
      BY RetainedIs
    <3>3. /\ DrawnFrom(o.u, n, slot)
          /\ n.textures = o.u.textures \cup {t} /\ n.retained[slot] = o.u.retained[slot] \cup {t}
      BY <3>1, <3>11
    <3>2. q.d = v.d /\ q.ok = TRUE /\ q.u = n
      BY <2>1, <2>2, <2>5, <3>1, <3>11
    <3>4. UiHolds(n, v.d.held)
      <4>1. n \in UiStates /\ n.device /\ n.capacity = o.u.capacity
        BY <3>3 DEF DrawnFrom
      <4>2. GeometryFits(n, v.d.held)
        <5>1. GeometryFits(o.u, o.d.held)
          BY DEF UiHolds
        <5>2. ASSUME NEW place \in FrameSlots, NEW name \in Geometry, n.capacity[place][name] # 0
              PROVE  {Buffer(name, place), Memory(name, place)} \subseteq v.d.held
          <6>1. {Buffer(name, place), Memory(name, place)} \subseteq o.d.held
            BY <4>1, <5>1, <5>2 DEF GeometryFits
          <6> QED BY <2>2, <2>5, <6>1
        <5> QED BY <5>2 DEF GeometryFits
      <4>3. \A other \in FrameSlots : n.retained[other] \subseteq n.textures
        <5>1. \A other \in FrameSlots : o.u.retained[other] \subseteq o.u.textures
          BY DEF UiHolds
        <5> QED BY <3>3, <5>1 DEF DrawnFrom
      <4>4. \A s \in n.textures : TextureObjects(s) \subseteq v.d.held
        <5>1. \A s \in o.u.textures : TextureObjects(s) \subseteq o.d.held
          BY DEF UiHolds
        <5> QED BY <2>2, <2>5, <3>3, <5>1
      <4>5. PipelineObjects \subseteq v.d.held
        BY <2>2, <2>5 DEF UiHolds
      <4>6. \A x \in v.d.held : x[1] \in UiKinds =>
              x \in PipelineObjects \cup GeometryObjects \/ \E s \in n.textures : x \in TextureObjects(s)
        <5>1. \A x \in o.d.held : x[1] \in UiKinds =>
                x \in PipelineObjects \cup GeometryObjects \/ \E s \in o.u.textures : x \in TextureObjects(s)
          BY DEF UiHolds
        <5> QED BY <2>2, <2>5, <3>3, <5>1
      <4> QED BY <4>1, <4>2, <4>3, <4>4, <4>5, <4>6 DEF UiHolds
    <3> QED BY <1>3, <2>2, <2>3, <3>2, <3>3, <3>4
  <2> QED BY <2>2, <2>4, <2>5
<1> QED BY <1>2, <1>3

(* What the first n draws leave behind.                                    *)
Drawn(d, u, slot, draws, o, n) ==
  /\ Becomes(d, o.d, UiKinds, Works) /\ o.ok \in BOOLEAN
  /\ UiHolds(o.u, o.d.held) /\ DrawnFrom(u, o.u, slot)
  /\ \A x \in GeometryObjects : x \in o.d.held <=> x \in d.held
  /\ o.ok => \A i \in 1 .. n : draws[i] \in o.u.retained[slot]

(* One more draw in the loop over draws.                                   *)
LEMMA DrawnMore ==
  ASSUME NEW d, Clean(d), NEW u, u.device, NEW slot \in FrameSlots, NEW draws, NEW n \in Nat \ {0}, draws[n] \in Textures,
         NEW o, Drawn(d, u, slot, draws, o, n - 1), NEW q \in UploadDraw(o, slot, draws[n])
  PROVE  Drawn(d, u, slot, draws, q, n)
<1>1. Clean(o.d) /\ UiHolds(o.u, o.d.held) /\ o.u.device /\ o.ok \in BOOLEAN
  BY DEF Drawn, Becomes, DrawnFrom
<1>2. PICK t \in Textures : t = draws[n]
  OBVIOUS
<1>3. q \in UploadDraw(o, slot, t)
  BY <1>2
<1>4. /\ Becomes(o.d, q.d, UiKinds, Works) /\ q.ok \in BOOLEAN
      /\ UiHolds(q.u, q.d.held) /\ DrawnFrom(o.u, q.u, slot)
      /\ \A x \in GeometryObjects : x \in q.d.held <=> x \in o.d.held
      /\ q.ok => o.ok /\ t \in q.u.retained[slot]
  BY <1>1, <1>3, DrawOwns
<1>5. Becomes(d, q.d, UiKinds, Works)
  BY <1>4, BecomesThen DEF Drawn
<1>6. DrawnFrom(u, q.u, slot)
  BY <1>4 DEF Drawn, DrawnFrom
<1>7. ASSUME q.ok, NEW i \in 1 .. n
      PROVE  draws[i] \in q.u.retained[slot]
  <2>1. CASE i = n
    BY <1>2, <1>4, <1>7, <2>1
  <2>2. CASE i \in 1 .. n - 1
    <3>1. draws[i] \in o.u.retained[slot]
      BY <1>4, <1>7, <2>2 DEF Drawn
    <3> QED BY <1>4, <3>1 DEF DrawnFrom
  <2> QED BY <2>1, <2>2
<1>8. \A x \in GeometryObjects : x \in q.d.held <=> x \in d.held
  BY <1>4 DEF Drawn
<1> QED BY <1>4, <1>5, <1>6, <1>7, <1>8 DEF Drawn

(* The loop over draws retains for the slot what it draws.                 *)
LEMMA UploadDrawsOwns ==
  ASSUME NEW d, Clean(d), NEW u, UiHolds(u, d.held), u.device, NEW slot \in FrameSlots,
         NEW draws \in Seq(Textures), NEW q \in UploadDraws(u, d, slot, draws)
  PROVE  Drawn(d, u, slot, draws, q, Len(draws))
<1>1. PICK last \in Nat : last = Len(draws)
  OBVIOUS
<1>2. \A n \in 1 .. last : draws[n] \in Textures
  BY <1>1
<1>3. PICK start : start = [d |-> d, u |-> u, ok |-> TRUE]
  OBVIOUS
<1>4. PICK f : IsRun(f, "draw", slot, {start}, draws, last) /\ q \in f[last]
  BY <1>1, <1>3, DrawRun
<1> DEFINE G == [n \in 0 .. last |-> {o \in Reached(f, last) : Drawn(d, u, slot, draws, o, n)}]
<1>6. \A n \in 0 .. last : \A o \in Reached(f, last) : o \in G[n] <=> Drawn(d, u, slot, draws, o, n)
  OBVIOUS
<1>7. \A n \in 0 .. last : \A o \in G[n] : Drawn(d, u, slot, draws, o, n)
  OBVIOUS
<1> HIDE DEF G
<1>8. \A o \in {start} \cap Reached(f, last) : o \in G[0]
  <2>1. Drawn(d, u, slot, draws, start, 0)
    <3>1. start.d = d /\ start.u = u /\ start.ok = TRUE
      BY <1>3
    <3>2. Becomes(d, d, UiKinds, Works)
      BY BecomesItself
    <3>3. DrawnFrom(u, u, slot)
      BY DEF DrawnFrom, UiHolds
    <3>4. \A i \in 1 .. 0 : draws[i] \in u.retained[slot]
      OBVIOUS
    <3>5. UiHolds(start.u, start.d.held) /\ Becomes(d, start.d, UiKinds, Works) /\ DrawnFrom(u, start.u, slot)
          /\ start.ok \in BOOLEAN
      BY <3>1, <3>2, <3>3
    <3>6. \A x \in GeometryObjects : x \in start.d.held <=> x \in d.held
      BY <3>1
    <3>7. \A i \in 1 .. 0 : draws[i] \in start.u.retained[slot]
      BY <3>1, <3>4
    <3> HIDE <3>1
    <3> QED BY <3>5, <3>6, <3>7 DEF Drawn
  <2>2. 0 \in 0 .. last
    OBVIOUS
  <2> QED BY <1>6, <2>1, <2>2
<1>9. ASSUME NEW n \in 1 .. last, NEW o \in f[n - 1] \cap G[n - 1],
             NEW p \in Stage("draw", slot, o, draws[n]) \cap Reached(f, last)
      PROVE  p \in G[n]
  <2>1. n - 1 \in 0 .. last /\ n \in 0 .. last /\ n \in Nat \ {0}
    OBVIOUS
  <2>2. Drawn(d, u, slot, draws, o, n - 1)
    BY <1>7, <2>1
  <2>3. p \in UploadDraw(o, slot, draws[n])
    BY DEF Stage
  <2>4. Drawn(d, u, slot, draws, p, n)
    BY <1>2, <2>1, <2>2, <2>3, DrawnMore
  <2> QED BY <1>6, <2>1, <2>4
<1>12. Climbs("draw", slot, {start}, draws, last, f, G)
  BY <1>8, <1>9 DEF Climbs
<1>10. f[last] \subseteq G[last]
  BY <1>4, <1>12, RunClimbs
<1>11. last \in 0 .. last
  OBVIOUS
<1> QED BY <1>1, <1>4, <1>7, <1>10, <1>11

(* What one preparation may change of the interface's state: what this slot retains. *)
SameForOthers(u, v, slot) == \A other \in FrameSlots \ {slot} : v.retained[other] = u.retained[other]

IsUnretained(u, v, slot) ==
  /\ v \in UiStates
  /\ v.device = u.device /\ v.textures = u.textures /\ v.capacity = u.capacity
  /\ SameForOthers(u, v, slot) /\ v.retained[slot] = {} /\ ~ v.ready[slot]

(* Clearing the retained textures of a slot changes that list alone.       *)
LEMMA UnretainedIs ==
  ASSUME NEW u \in UiStates, NEW slot \in FrameSlots
  PROVE  IsUnretained(u, Unretained(u, slot), slot)
<1>0. PICK v : v = Unretained(u, slot)
  OBVIOUS
<1>1. u.retained \in [FrameSlots -> SUBSET Textures] /\ u.ready \in [FrameSlots -> BOOLEAN]
  BY DEF UiStates
<1>2. PICK kept, ready : kept = [u.retained EXCEPT ![slot] = {}] /\ ready = [u.ready EXCEPT ![slot] = FALSE]
  OBVIOUS
<1>3. /\ kept \in [FrameSlots -> SUBSET Textures] /\ kept[slot] = {}
      /\ \A other \in FrameSlots \ {slot} : kept[other] = u.retained[other]
      /\ ready \in [FrameSlots -> BOOLEAN] /\ ready[slot] = FALSE
  BY <1>1, <1>2
<1>4. PICK w : w = [u EXCEPT !.ready = ready]
  OBVIOUS
<1>5. w \in UiStates /\ w.device = u.device /\ w.ready = ready /\ w.capacity = u.capacity
      /\ w.textures = u.textures /\ w.retained = u.retained
  BY <1>3, <1>4 DEF UiStates
<1>6. v = [w EXCEPT !.retained = kept]
  BY <1>0, <1>2, <1>4 DEF Unretained
<1>7. v \in UiStates /\ v.device = u.device /\ v.ready = ready /\ v.capacity = u.capacity
      /\ v.textures = u.textures /\ v.retained = kept
  BY <1>3, <1>5, <1>6 DEF UiStates
<1> QED BY <1>0, <1>3, <1>7 DEF SameForOthers, IsUnretained

(* Marking a slot ready changes that mark alone.                           *)
LEMMA ReadyIs ==
  ASSUME NEW u \in UiStates, NEW slot \in FrameSlots
  PROVE  \E v : /\ v = [u EXCEPT !.ready[slot] = TRUE] /\ v \in UiStates
                /\ v.device = u.device /\ v.textures = u.textures /\ v.capacity = u.capacity /\ v.retained = u.retained
<1>0. PICK v : v = [u EXCEPT !.ready[slot] = TRUE]
  OBVIOUS
<1>1. u.ready \in [FrameSlots -> BOOLEAN]
  BY DEF UiStates
<1>2. PICK ready : ready = [u.ready EXCEPT ![slot] = TRUE]
  OBVIOUS
<1>3. ready \in [FrameSlots -> BOOLEAN]
  BY <1>1, <1>2
<1>4. v = [u EXCEPT !.ready = ready]
  BY <1>0, <1>2
<1>5. v \in UiStates /\ v.device = u.device /\ v.capacity = u.capacity
      /\ v.textures = u.textures /\ v.retained = u.retained
  BY <1>3, <1>4 DEF UiStates
<1> QED BY <1>0, <1>5

IsSwept(u, d, gone, o) ==
  /\ o.ok = TRUE /\ o.u \in UiStates /\ o = [d |-> o.d, u |-> o.u, ok |-> TRUE]
  /\ o.d = Destroy(d, UNION {TextureObjects(t) : t \in gone})
  /\ o.u.device = u.device /\ o.u.textures = u.textures \ gone /\ o.u.capacity = u.capacity
  /\ o.u.retained = u.retained /\ o.u.ready = u.ready

(* What the sweep of expired textures leaves.                              *)
LEMMA SweptIs ==
  ASSUME NEW u \in UiStates, NEW d, NEW shows
  PROVE  IsSwept(u, d, Expired(u, shows), Swept(u, d, shows))
<1>0. PICK o : o = Swept(u, d, shows)
  OBVIOUS
<1>1. PICK rest : rest = u.textures \ Expired(u, shows)
  OBVIOUS
<1>2. PICK v : v = [u EXCEPT !.textures = rest]
  OBVIOUS
<1>3. v \in UiStates /\ v.device = u.device /\ v.textures = rest /\ v.capacity = u.capacity
      /\ v.retained = u.retained /\ v.ready = u.ready
  BY <1>1, <1>2 DEF UiStates
<1>4. PICK e : e = Destroy(d, UNION {TextureObjects(t) : t \in Expired(u, shows)})
  OBVIOUS
<1>5. o = [d |-> e, u |-> v, ok |-> TRUE]
  BY <1>0, <1>1, <1>2, <1>4 DEF Swept
<1> QED BY <1>0, <1>1, <1>3, <1>4, <1>5 DEF IsSwept

(* No texture that work in flight refers to is swept.                      *)
TexturesAreHeld(u, slot, busy) ==
  \A t : TextureObjects(t) \cap busy # {} => \E other \in FrameSlots \ {slot} : t \in u.retained[other]

(* What the sweep of expired textures leaves behind.                       *)
UiSwept(d, u, slot, o) ==
  /\ Becomes(d, o.d, UiKinds, Works) /\ o.ok = TRUE /\ o = [d |-> o.d, u |-> o.u, ok |-> TRUE]
  /\ UiHolds(o.u, o.d.held) /\ o.u.device
  /\ SameForOthers(u, o.u, slot) /\ ~ o.u.ready[slot]

(* The sweep destroys no texture that submitted work uses.                 *)
LEMMA SweptOwns ==
  ASSUME NEW d, Clean(d), NEW u, UiHolds(u, d.held), u.device, NEW slot \in FrameSlots,
         TexturesAreHeld(u, slot, Busy(d)), NEW shows, NEW o \in {Swept(Unretained(u, slot), d, shows)}
  PROVE  UiSwept(d, u, slot, o)
<1>1. u \in UiStates
  BY DEF UiHolds
<1>2. IsUnretained(u, Unretained(u, slot), slot)
  BY <1>1, UnretainedIs
<1>3. PICK n : n = Unretained(u, slot)
  OBVIOUS
<1>4. IsUnretained(u, n, slot)
  BY <1>2, <1>3
<1>14. n \in UiStates
  BY <1>4 DEF IsUnretained
<1>15. IsSwept(n, d, Expired(n, shows), Swept(n, d, shows))
  BY <1>14, SweptIs
<1>16. o = Swept(n, d, shows)
  BY <1>3
<1>6. PICK gone, objects : gone = Expired(n, shows) /\ objects = UNION {TextureObjects(t) : t \in gone}
  OBVIOUS
<1>17. IsSwept(n, d, gone, o)
  BY <1>6, <1>15, <1>16
<1>7. \A t \in gone : t \in u.textures /\ \A other \in FrameSlots : t \notin n.retained[other]
  BY <1>4, <1>6 DEF Expired, IsUnretained
<1>8. \A x \in objects : \E t \in gone : x \in TextureObjects(t)
  BY <1>6
<1>9. objects \cap Busy(d) = {}
  <2> SUFFICES ASSUME NEW x \in objects, x \in Busy(d) PROVE FALSE
    OBVIOUS
  <2>1. PICK t \in gone : x \in TextureObjects(t)
    BY <1>8
  <2>2. PICK other \in FrameSlots \ {slot} : t \in u.retained[other]
    BY <2>1 DEF TexturesAreHeld
  <2> QED BY <1>4, <1>7, <2>2 DEF SameForOthers, IsUnretained
<1>10. \A x \in objects : x[1] \in UiKinds
  BY <1>8, UiKindsAre
<1>11. /\ Becomes(d, o.d, UiKinds, Works) /\ o.d.held = d.held \ objects
  <2>1. o.d = Destroy(d, objects)
    BY <1>6, <1>17 DEF IsSwept
  <2>2. /\ Becomes(d, Destroy(d, objects), UiKinds, Works) /\ Destroy(d, objects).held = d.held \ objects
    BY <1>9, <1>10, DestroyBecomes
  <2> QED BY <2>1, <2>2
<1>12. UiHolds(o.u, o.d.held)
  <2>1. o.u \in UiStates /\ o.u.device /\ o.u.textures = u.textures \ gone /\ o.u.capacity = u.capacity /\ o.u.retained = n.retained
    BY <1>4, <1>17 DEF IsSwept, IsUnretained
  <2>2. \A x \in PipelineObjects \cup GeometryObjects : x \notin objects
    BY <1>8, UiSortsDiffer
  <2>3. PipelineObjects \subseteq o.d.held
    BY <1>11, <2>2 DEF UiHolds
  <2>4. \A t \in o.u.textures : TextureObjects(t) \subseteq o.d.held
    <3> SUFFICES ASSUME NEW t \in o.u.textures, NEW x \in TextureObjects(t) PROVE x \in o.d.held
      OBVIOUS
    <3>1. x \in d.held /\ t \notin gone
      BY <2>1 DEF UiHolds
    <3>2. x \notin objects
      <4> SUFFICES ASSUME x \in objects PROVE FALSE
        OBVIOUS
      <4>1. PICK s \in gone : x \in TextureObjects(s)
        BY <1>8
      <4>2. TextureObjects(t) \cap TextureObjects(s) = {}
        BY <3>1, <4>1, TexturesDiffer
      <4> QED BY <4>1, <4>2
    <3> QED BY <1>11, <3>1, <3>2
  <2>5. \A x \in o.d.held : x[1] \in UiKinds =>
          x \in PipelineObjects \cup GeometryObjects \/ \E t \in o.u.textures : x \in TextureObjects(t)
    <3> SUFFICES ASSUME NEW x \in o.d.held, x[1] \in UiKinds, x \notin PipelineObjects \cup GeometryObjects
                 PROVE  \E t \in o.u.textures : x \in TextureObjects(t)
      OBVIOUS
    <3>1. x \in d.held /\ x \notin objects
      BY <1>11
    <3>2. PICK t \in u.textures : x \in TextureObjects(t)
      BY <3>1 DEF UiHolds
    <3>3. t \notin gone
      BY <1>6, <3>1, <3>2
    <3> QED BY <2>1, <3>2, <3>3
  <2>6. \A other \in FrameSlots : o.u.retained[other] \subseteq o.u.textures
    <3>1. \A other \in FrameSlots : n.retained[other] \subseteq u.textures
      BY <1>4 DEF UiHolds, SameForOthers, IsUnretained
    <3> QED BY <1>7, <2>1, <3>1
  <2>7. GeometryFits(o.u, o.d.held)
    <3> SUFFICES ASSUME NEW place \in FrameSlots, NEW name \in Geometry, o.u.capacity[place][name] # 0
                 PROVE  {Buffer(name, place), Memory(name, place)} \subseteq o.d.held
      BY DEF GeometryFits
    <3>1. {Buffer(name, place), Memory(name, place)} \subseteq d.held
      BY <2>1 DEF UiHolds, GeometryFits
    <3>2. {Buffer(name, place), Memory(name, place)} \subseteq GeometryObjects
      BY DEF GeometryOf, GeometryObjects
    <3> QED BY <1>11, <2>2, <3>1, <3>2
  <2> QED BY <2>1, <2>3, <2>4, <2>5, <2>6, <2>7 DEF UiHolds
<1>13. SameForOthers(u, o.u, slot)
  BY <1>4, <1>17 DEF SameForOthers, IsSwept, IsUnretained
<1> QED BY <1>4, <1>17, <1>11, <1>12, <1>13 DEF IsSwept, IsUnretained, UiSwept

(* What preparing the interface of a slot keeps, and what is there when    *)
(* the slot may be recorded.                                               *)
UiPrepared(d, u, slot, draws, o) ==
  /\ Becomes(d, o.d, UiKinds, Works) /\ UiHolds(o.u, o.d.held)
  /\ o.u.device = u.device /\ SameForOthers(u, o.u, slot)
  /\ o.u.ready[slot] /\ draws # <<>> =>
       GeometryOf(slot) \subseteq o.d.held /\ \A i \in 1 .. Len(draws) : draws[i] \in o.u.retained[slot]

(* Geometry and textures of a slot's draws.                                *)
LEMMA DrawsPrepared ==
  ASSUME NEW o, Clean(o.d), UiHolds(o.u, o.d.held), o.u.device, NEW slot \in FrameSlots, ~ o.u.ready[slot],
         NEW size \in Nat, size > 0, GeometryOf(slot) \cap Busy(o.d) = {},
         NEW draws \in Seq(Textures), NEW q \in PrepareDraws(o, slot, draws, size)
  PROVE  UiPrepared(o.d, o.u, slot, draws, q)
<1>1. UiOwns(o.u, Of(UiKinds, o.d.held))
  BY UiOwnsHeld
<1>2. PICK w \in WriteGeometry(o.u, o.d, slot, size) :
        q \in IF ~ w.ok THEN {w}
              ELSE {IF v.ok THEN [v EXCEPT !.u.ready[slot] = TRUE] ELSE v : v \in UploadDraws(w.u, w.d, slot, draws)}
  BY DEF PrepareDraws
<1>3. PICK d, u : d = o.d /\ u = o.u
  OBVIOUS
<1>4. /\ Becomes(d, w.d, UiKinds, Works) /\ w.ok \in BOOLEAN
      /\ UiOwns(w.u, Of(UiKinds, w.d.held)) /\ Resembles(u, w.u)
      /\ w.ok => GeometryOf(slot) \subseteq w.d.held
  <2>1. Clean(d) /\ UiOwns(u, Of(UiKinds, d.held)) /\ u.device /\ GeometryOf(slot) \cap Busy(d) = {}
        /\ w \in WriteGeometry(u, d, slot, size)
    BY <1>1, <1>2, <1>3
  <2> QED BY <2>1, WriteGeometryOwns
<1>5. UiHolds(w.u, w.d.held) /\ Clean(w.d)
  BY <1>4, UiOwnsHeld DEF Becomes
<1>6. w.u.device /\ ~ w.u.ready[slot] /\ SameForOthers(u, w.u, slot) /\ w.u.device = u.device
  BY <1>3, <1>4 DEF Resembles, SameForOthers
<1>7. CASE ~ w.ok
  <2>1. q = w
    BY <1>2, <1>7
  <2> QED BY <1>3, <1>4, <1>5, <1>6, <2>1 DEF UiPrepared
<1>8. CASE w.ok
  <2>1. PICK v \in UploadDraws(w.u, w.d, slot, draws) : q = IF v.ok THEN [v EXCEPT !.u.ready[slot] = TRUE] ELSE v
    BY <1>2, <1>8
  <2>2. PICK a, b : a = w.u /\ b = w.d
    OBVIOUS
  <2>3. Drawn(b, a, slot, draws, v, Len(draws))
    <3>1. Clean(b) /\ UiHolds(a, b.held) /\ a.device /\ v \in UploadDraws(a, b, slot, draws)
      BY <1>5, <1>6, <2>1, <2>2
    <3> QED BY <3>1, UploadDrawsOwns
  <2>4. /\ Becomes(w.d, v.d, UiKinds, Works) /\ v.ok \in BOOLEAN
        /\ UiHolds(v.u, v.d.held) /\ DrawnFrom(w.u, v.u, slot)
        /\ \A x \in GeometryObjects : x \in v.d.held <=> x \in w.d.held
        /\ v.ok => \A i \in 1 .. Len(draws) : draws[i] \in v.u.retained[slot]
    BY <2>2, <2>3 DEF Drawn
  <2>5. Becomes(d, v.d, UiKinds, Works)
    <3>1. Becomes(d, b, UiKinds, Works) /\ Becomes(b, v.d, UiKinds, Works) /\ Clean(d)
      BY <1>3, <1>4, <2>2, <2>4
    <3> QED BY <3>1, BecomesThen
  <2>6. GeometryOf(slot) \subseteq v.d.held
    BY <1>4, <1>8, <2>4 DEF GeometryObjects
  <2>7. v.u.device = u.device /\ SameForOthers(u, v.u, slot)
    BY <1>6, <2>4 DEF DrawnFrom, SameForOthers
  <2>8. CASE ~ v.ok
    <3>1. q = v
      BY <2>1, <2>8
    <3>2. ~ q.u.ready[slot]
      BY <1>6, <2>4, <3>1 DEF DrawnFrom
    <3> QED BY <1>3, <2>4, <2>5, <2>7, <3>1, <3>2 DEF UiPrepared
  <2>9. CASE v.ok
    <3>1. q = [v EXCEPT !.u.ready[slot] = TRUE]
      BY <2>1, <2>9
    <3>2. PICK h, r : h = v.u /\ r = [h EXCEPT !.ready[slot] = TRUE] /\ r \in UiStates
                   /\ r.device = h.device /\ r.textures = h.textures /\ r.capacity = h.capacity /\ r.retained = h.retained
      <4>1. PICK h \in UiStates : h = v.u
        BY <2>4 DEF UiHolds
      <4>2. \E r : /\ r = [h EXCEPT !.ready[slot] = TRUE] /\ r \in UiStates
                /\ r.device = h.device /\ r.textures = h.textures /\ r.capacity = h.capacity /\ r.retained = h.retained
        BY ReadyIs
      <4> QED BY <4>1, <4>2
    <3>3. \E x : q = [v EXCEPT !.u = [@ EXCEPT !.ready[slot] = TRUE]]
      BY <3>1
    <3>4. q.d = v.d /\ q.u = r
      BY <3>1, <3>2
    <3>5. UiHolds(r, v.d.held)
      <4>1. UiHolds(h, v.d.held) /\ h.device
        BY <1>3, <2>4, <2>7, <3>2
      <4> QED BY <3>2, <4>1 DEF UiHolds, GeometryFits
    <3>6. r.device = u.device /\ SameForOthers(u, r, slot)
      BY <2>7, <3>2 DEF SameForOthers
    <3>7. \A i \in 1 .. Len(draws) : draws[i] \in r.retained[slot]
      BY <2>4, <2>9, <3>2
    <3> QED BY <1>3, <2>5, <2>6, <3>4, <3>5, <3>6, <3>7 DEF UiPrepared
  <2> QED BY <2>4, <2>8, <2>9
<1> QED BY <1>4, <1>7, <1>8

(* prepare keeps the interface owned and the other slots' textures.        *)
LEMMA PrepareUiOwns ==
  ASSUME NEW d, Clean(d), NEW u, UiHolds(u, d.held), NEW slot \in FrameSlots,
         NEW size \in Nat, NEW draws \in Seq(Textures), draws # <<>> => size > 0,
         GeometryOf(slot) \cap Busy(d) = {}, TexturesAreHeld(u, slot, Busy(d)),
         NEW shows, NEW q \in PrepareUi(u, d, slot, draws, size, shows)
  PROVE  UiPrepared(d, u, slot, draws, q)
<1>1. CASE UiPipeline \notin d.held
  <2>1. q = [d |-> d, u |-> u, ok |-> FALSE]
    BY <1>1 DEF PrepareUi
  <2>2. ~ u.device /\ u = NoUi
    BY <1>1 DEF UiHolds, PipelineObjects
  <2>3. ~ u.ready[slot]
    BY <2>2 DEF NoUi
  <2>4. Becomes(d, d, UiKinds, Works)
    BY BecomesItself
  <2> QED BY <2>1, <2>3, <2>4 DEF UiPrepared, SameForOthers
<1>2. CASE UiPipeline \in d.held
  <2>1. u.device
    <3>1. UiPipeline[1] \in UiKinds
      BY DEF UiPipeline, UiKinds
    <3> QED BY <1>2, <3>1 DEF UiHolds
  <2>2. PICK o \in {Swept(Unretained(u, slot), d, shows)} : q \in IF draws = <<>> THEN {o} ELSE PrepareDraws(o, slot, draws, size)
    BY <1>2 DEF PrepareUi
  <2>3. /\ Becomes(d, o.d, UiKinds, Works) /\ o.ok = TRUE
        /\ UiHolds(o.u, o.d.held) /\ o.u.device
        /\ SameForOthers(u, o.u, slot) /\ ~ o.u.ready[slot]
    <3>1. UiSwept(d, u, slot, o)
      BY <2>1, <2>2, SweptOwns
    <3> QED BY <3>1 DEF UiSwept
  <2>4. CASE draws = <<>>
    <3>1. q = o
      BY <2>2, <2>4
    <3> QED BY <2>1, <2>3, <2>4, <3>1 DEF UiPrepared, UiHolds, UiStates
  <2>5. CASE draws # <<>>
    <3>1. Clean(o.d) /\ GeometryOf(slot) \cap Busy(o.d) = {}
      <4>1. Busy(o.d) \subseteq Busy(d)
        BY <2>3, BusyBecomes
      <4> QED BY <2>3, <4>1 DEF Becomes
    <3>2. UiPrepared(o.d, o.u, slot, draws, q)
      BY <2>2, <2>3, <2>5, <3>1, DrawsPrepared
    <3>3. PICK e : e = o.d
      OBVIOUS
    <3>4. Becomes(d, e, UiKinds, Works) /\ Becomes(e, q.d, UiKinds, Works)
      BY <2>3, <3>2, <3>3 DEF UiPrepared
    <3>5. Becomes(d, q.d, UiKinds, Works)
      BY <3>4, BecomesThen
    <3>6. q.u.device = u.device
      BY <2>1, <2>3, <3>2 DEF UiPrepared, UiHolds, UiStates
    <3>7. SameForOthers(u, q.u, slot)
      BY <2>3, <3>2 DEF UiPrepared, SameForOthers
    <3> QED BY <3>2, <3>5, <3>6, <3>7 DEF UiPrepared
  <2> QED BY <2>4, <2>5
<1> QED BY <1>1, <1>2

(* Every object of the interface is one that the state accounts for.       *)
UiKnown(u, held) ==
  \A x \in held : x[1] \in UiKinds =>
    u.device /\ (x \in PipelineObjects \cup GeometryObjects \/ \E t \in u.textures : x \in TextureObjects(t))

UiGone(d, e) ==
  /\ Clean(e) /\ e.work = d.work /\ e.refusals = d.refusals
  /\ \A x \in e.held : x[1] \notin UiKinds
  /\ \A x : x[1] \notin UiKinds => (x \in e.held <=> x \in d.held)

(* An interface destroyed is a change confined to its kinds.               *)
LEMMA GoneBecomes ==
  ASSUME NEW d, Clean(d), NEW e, UiGone(d, e)
  PROVE  Becomes(d, e, UiKinds, Works)
<1>1. d.refusals \in Nat
  BY CleanShape
<1> QED BY <1>1 DEF UiGone, Becomes

(* The objects of the interface go.                                        *)
LEMMA DestroyUiOwns ==
  ASSUME NEW d, Clean(d), NEW u, u.device \in BOOLEAN, UiKnown(u, d.held), Busy(d) = {}
  PROVE  UiGone(d, DestroyUi(u, d))
<1>1. CASE ~ u.device
  BY <1>1 DEF DestroyUi, UiKnown, UiGone
<1>2. CASE u.device
  <2> DEFINE first == GeometryObjects \cup UNION {TextureObjects(t) : t \in u.textures}
  <2>1. PICK g : g = Destroy(d, first)
    OBVIOUS
  <2>2. Clean(g) /\ g.held = d.held \ first /\ g.work = d.work /\ g.refusals = d.refusals
    BY <2>1, DestroyIsClean
  <2>3. PICK e : e = Destroy(g, PipelineObjects)
    OBVIOUS
  <2>4. Busy(g) = {}
    BY <2>2, WorkIsBusy
  <2>5. Clean(e) /\ e.held = g.held \ PipelineObjects /\ e.work = g.work /\ e.refusals = g.refusals
    BY <2>2, <2>3, <2>4, DestroyIsClean
  <2>6. DestroyUi(u, d) = e
    BY <1>2, <2>1, <2>3 DEF DestroyUi
  <2>7. \A x \in first \cup PipelineObjects : x[1] \in UiKinds
    BY UiKindsAre DEF GeometryObjects
  <2>8. \A x \in e.held : x[1] \notin UiKinds
    <3> SUFFICES ASSUME NEW x \in e.held, x[1] \in UiKinds PROVE FALSE
      OBVIOUS
    <3>1. x \in d.held /\ x \notin first /\ x \notin PipelineObjects
      BY <2>2, <2>5
    <3> QED BY <3>1 DEF UiKnown
  <2>9. \A x : x[1] \notin UiKinds => (x \in e.held <=> x \in d.held)
    BY <2>2, <2>5, <2>7
  <2> QED BY <2>2, <2>5, <2>6, <2>8, <2>9 DEF UiGone
<1> QED BY <1>1, <1>2

(* create of the interface renderer leaves it whole or gone.               *)
LEMMA CreateUiOwns ==
  ASSUME NEW d, Clean(d), NEW u, UiHolds(u, d.held), Busy(d) = {},
         NEW pass, pass \in d.held, pass[1] \notin UiKinds, NEW q \in CreateUi(u, d, pass)
  PROVE  Becomes(d, q.d, UiKinds, Works) /\ UiHolds(q.u, q.d.held)
<1> DEFINE shaders == {UiVertexShader, UiFragmentShader}
<1>1. PICK g : g = DestroyUi(u, d)
  OBVIOUS
<1>2. UiGone(d, g)
  <2>1. u.device \in BOOLEAN /\ UiKnown(u, d.held)
    BY DEF UiHolds, UiKnown, UiStates
  <2>2. UiGone(d, DestroyUi(u, d))
    BY <2>1, DestroyUiOwns
  <2> QED BY <1>1, <2>2
<1>3. PICK o \in Finally(Try(g, UiCalls(pass)), shaders) :
        q = [d |-> IF o.ok THEN o.d ELSE DestroyUi(UiCreated, o.d), ok |-> o.ok, u |-> IF o.ok THEN UiCreated ELSE NoUi]
  BY <1>1 DEF CreateUi
<1>4. Clean(g) /\ Busy(g) = {}
  BY <1>2, WorkIsBusy DEF UiGone
<1>5. PICK made : made = {UiSetLayout, UiDescriptors, UiSampler, UiLayout, UiVertexShader, UiFragmentShader, UiPipeline}
  OBVIOUS
<1>6. \A p \in Try(g, UiCalls(pass)) : Adds(g, p, made)
  <2>1. (PipelineObjects \cup shaders) \cap g.held = {}
    BY <1>2, UiKindsAre DEF UiGone
  <2>2. pass \in g.held
    BY <1>2 DEF UiGone
  <2>3. Makes(UiCalls(pass), g.held, Busy(g), made)
    BY <1>5, <2>1, <2>2, UiMakes
  <2> QED BY <1>4, <2>3, TryMakes
<1>7. shaders \cap g.held = {}
  BY <1>2, UiKindsAre DEF UiGone
<1>8. Adds(g, o, made \ shaders)
  BY <1>3, <1>4, <1>6, <1>7, FinallyAdds
<1>9. made \ shaders = PipelineObjects
  <2>1. made = PipelineObjects \cup shaders
    BY <1>5 DEF PipelineObjects
  <2>2. \A x \in PipelineObjects : x \notin shaders
    BY PipelineObjectsAre, UiShadersAre, KindsOfUiDiffer
  <2> QED BY <2>1, <2>2
<1>10. Becomes(d, g, UiKinds, Works)
  BY <1>2, GoneBecomes
<1>11. Becomes(g, o.d, UiKinds, Works) /\ Busy(o.d) = Busy(g)
  BY <1>4, <1>8, <1>9, AddsBecomes, UiKindsAre
<1>12. Becomes(d, o.d, UiKinds, Works)
  BY <1>10, <1>11, BecomesThen
<1>13. \A x \in o.d.held : x[1] \in UiKinds => x \in PipelineObjects
  BY <1>2, <1>8, <1>9 DEF Adds, UiGone
<1>14. UiCreated \in UiStates /\ NoUi \in UiStates /\ UiCreated.device /\ ~ NoUi.device
       /\ UiCreated.textures = {} /\ UiCreated.capacity = NoUi.capacity /\ UiCreated.retained = NoUi.retained
  BY DEF UiCreated, NoUi, UiStates
<1>15. /\ NoUi.textures = {} /\ \A slot \in FrameSlots : NoUi.retained[slot] = {}
       /\ \A slot \in FrameSlots, name \in Geometry : NoUi.capacity[slot][name] = 0
  BY DEF NoUi
<1>16. CASE o.ok
  <2>1. q.d = o.d /\ q.u = UiCreated
    BY <1>3, <1>16
  <2>2. PipelineObjects \subseteq o.d.held
    BY <1>8, <1>9, <1>16 DEF Adds
  <2>3. UiHolds(UiCreated, o.d.held)
    BY <1>13, <1>14, <1>15, <2>2 DEF UiHolds, GeometryFits
  <2> QED BY <1>12, <2>1, <2>3
<1>17. CASE ~ o.ok
  <2>1. q.d = DestroyUi(UiCreated, o.d) /\ q.u = NoUi
    BY <1>3, <1>17
  <2>2. PICK e, h : e = o.d /\ h = DestroyUi(UiCreated, o.d)
    OBVIOUS
  <2>3. UiGone(e, h)
    <3>1. Clean(e) /\ UiKnown(UiCreated, e.held) /\ Busy(e) = {}
      BY <1>4, <1>11, <1>12, <1>13, <1>14, <2>2 DEF UiKnown, Becomes
    <3>2. PICK v : v = UiCreated
      OBVIOUS
    <3>3. UiGone(e, DestroyUi(v, e))
      <4>1. v.device \in BOOLEAN /\ UiKnown(v, e.held)
        BY <1>14, <3>1, <3>2
      <4> QED BY <3>1, <4>1, DestroyUiOwns
    <3> QED BY <2>2, <3>2, <3>3
  <2>4. Becomes(d, h, UiKinds, Works)
    <3>1. Becomes(d, e, UiKinds, Works)
      BY <1>12, <2>2
    <3>2. Becomes(e, h, UiKinds, Works)
      BY <2>3, <3>1, GoneBecomes DEF Becomes
    <3> QED BY <3>1, <3>2, BecomesThen
  <2>5. UiHolds(NoUi, h.held)
    BY <1>14, <1>15, <2>3 DEF UiHolds, UiGone, GeometryFits
  <2> QED BY <2>1, <2>2, <2>4, <2>5
<1> QED BY <1>8, <1>16, <1>17 DEF Adds

(* Images of materials.                                                    *)
PixelKinds == ImageKinds \cup StagingKinds

(* The objects of a material image carry its kinds and its name.           *)
LEMMA ImageObjectsAre ==
  ASSUME NEW n, NEW x \in ImageObjects(n)
  PROVE  x[1] \in ImageKinds /\ x[2] = n
<1>1. CASE x = Image(n)
  BY <1>1 DEF Image, ImageKinds
<1>2. CASE x = ImageMemory(n)
  BY <1>2 DEF ImageMemory, ImageKinds
<1>3. CASE x = ImageView(n)
  BY <1>3 DEF ImageView, ImageKinds
<1> QED BY <1>1, <1>2, <1>3 DEF ImageObjects

(* The staging objects of a pixel upload by kind.                          *)
LEMMA StagingObjectsAre ==
  ASSUME NEW x \in StagingObjects
  PROVE  x[1] \in StagingKinds
<1>1. PICK k \in StagingKinds : x = <<k, 0>>
  BY DEF StagingObjects, StagingKinds
<1> QED BY <1>1

(* Image, memory and view differ, and images of different names too.       *)
LEMMA ImagesDiffer ==
  ASSUME NEW n, NEW k
  PROVE  /\ Image(n) # ImageMemory(k) /\ Image(n) # ImageView(k) /\ ImageMemory(n) # ImageView(k)
         /\ n # k => ImageObjects(n) \cap ImageObjects(k) = {}
         /\ {Image(n), ImageMemory(n), ImageView(n)} \subseteq ImageObjects(n)
<1>1. Image(n) # ImageMemory(k) /\ Image(n) # ImageView(k) /\ ImageMemory(n) # ImageView(k)
  BY DEF Image, ImageMemory, ImageView
<1>2. n # k => ImageObjects(n) \cap ImageObjects(k) = {}
  BY ImageObjectsAre
<1> QED BY <1>1, <1>2 DEF ImageObjects

(* Image and staging kinds are disjoint.                                   *)
LEMMA PixelKindsAre ==
  /\ ImageKinds \cap StagingKinds = {}
  /\ ImageKinds \subseteq PixelKinds /\ StagingKinds \subseteq PixelKinds
  /\ \A n : \A x \in ImageObjects(n) : x \notin StagingObjects
<1>1. \A k \in ImageKinds : k \notin StagingKinds
  BY DEF ImageKinds, StagingKinds
<1>2. ImageKinds \subseteq PixelKinds /\ StagingKinds \subseteq PixelKinds
  BY DEF PixelKinds
<1>3. \A n : \A x \in ImageObjects(n) : x \notin StagingObjects
  BY <1>1, ImageObjectsAre, StagingObjectsAre
<1> QED BY <1>1, <1>2, <1>3

(* What is held for the images that are kept, one of which may be pending. *)
Stock(held, kept, pending, used) ==
  /\ kept \subseteq Names /\ IsFiniteSet(kept) /\ used = Cardinality(kept) /\ used <= ImageBudget
  /\ pending \subseteq kept /\ (pending = {} \/ \E n \in Names : pending = {n})
  /\ \A x \in held : x[1] \in ImageKinds => \E n \in kept : x \in ImageObjects(n)
  /\ \A n \in kept : Image(n) \in held /\ ImageMemory(n) \in held /\ (ImageView(n) \in held <=> n \notin pending)
  /\ \A x \in held : x[1] \in StagingKinds => x \in StagingObjects /\ pending # {}
  /\ pending # {} => StagingObjects \subseteq held
OneTimeIs(d, pending) == d.work[OneTime] \subseteq UNION {UploadWork(n) : n \in pending}

SameOf(kinds, held, other) == \A x : x[1] \in kinds => (x \in other <=> x \in held)

(* The stock of images depends on image and staging objects alone.         *)
LEMMA StockSame ==
  ASSUME NEW held, NEW kept, NEW pending, NEW used, Stock(held, kept, pending, used),
         NEW other, SameOf(PixelKinds, held, other)
  PROVE  Stock(other, kept, pending, used)
<1>1. \A x \in other : x[1] \in ImageKinds => \E n \in kept : x \in ImageObjects(n)
  BY PixelKindsAre DEF Stock, SameOf
<1>2. \A n \in kept : Image(n) \in other /\ ImageMemory(n) \in other /\ (ImageView(n) \in other <=> n \notin pending)
  <2>1. SUFFICES ASSUME NEW n \in kept
                 PROVE  Image(n) \in other /\ ImageMemory(n) \in other /\ (ImageView(n) \in other <=> n \notin pending)
    OBVIOUS
  <2>2. Image(n) \in held /\ ImageMemory(n) \in held /\ (ImageView(n) \in held <=> n \notin pending)
    BY DEF Stock
  <2>3. Image(n)[1] \in PixelKinds /\ ImageMemory(n)[1] \in PixelKinds /\ ImageView(n)[1] \in PixelKinds
    BY ImagesDiffer, ImageObjectsAre, PixelKindsAre
  <2> QED BY <2>2, <2>3 DEF SameOf
<1>3. \A x \in other : x[1] \in StagingKinds => x \in StagingObjects /\ pending # {}
  BY PixelKindsAre DEF Stock, SameOf
<1>4. pending # {} => StagingObjects \subseteq other
  BY StagingObjectsAre, PixelKindsAre DEF Stock, SameOf
<1> QED BY <1>1, <1>2, <1>3, <1>4 DEF Stock

(* Of an image that is not kept nothing is held.                           *)
LEMMA StockIsNew ==
  ASSUME NEW held, NEW kept, NEW used, Stock(held, kept, {}, used), NEW name \in Names \ kept
  PROVE  /\ ImageObjects(name) \cap held = {} /\ StagingObjects \cap held = {}
<1>1. ImageObjects(name) \cap held = {}
  <2>1. SUFFICES ASSUME NEW x \in ImageObjects(name), x \in held PROVE FALSE
    OBVIOUS
  <2>2. PICK n \in kept : x \in ImageObjects(n)
    BY <2>1, ImageObjectsAre DEF Stock
  <2> QED BY <2>1, <2>2, ImageObjectsAre
<1>2. StagingObjects \cap held = {}
  BY StagingObjectsAre DEF Stock
<1> QED BY <1>1, <1>2

(* One more image, which may be pending.                                   *)
LEMMA StockCounts ==
  ASSUME NEW held, NEW kept, NEW used, Stock(held, kept, {}, used), used < ImageBudget, NEW name \in Names \ kept
  PROVE  /\ kept \cup {name} \subseteq Names /\ IsFiniteSet(kept \cup {name})
         /\ used + 1 = Cardinality(kept \cup {name}) /\ used + 1 <= ImageBudget
<1>1. IsFiniteSet(kept \cup {name}) /\ Cardinality(kept \cup {name}) = Cardinality(kept) + 1
  BY FS_AddElement DEF Stock
<1>2. Cardinality(kept) \in Nat
  BY FS_CardinalityType DEF Stock
<1>3. used + 1 <= ImageBudget
  BY <1>2, MaterialAssumption DEF Stock
<1> QED BY <1>1, <1>3 DEF Stock

(* An uploaded image enters the stock and the budget.                      *)
LEMMA StockGains ==
  ASSUME NEW held, NEW kept, NEW used, Stock(held, kept, {}, used), used < ImageBudget, NEW name \in Names \ kept
  PROVE  Stock(held \cup ImageObjects(name), kept \cup {name}, {}, used + 1)
<1>1. PICK more : more = held \cup ImageObjects(name)
  OBVIOUS
<1>2. \A x \in more : x[1] \in ImageKinds => \E n \in kept \cup {name} : x \in ImageObjects(n)
  BY <1>1 DEF Stock
<1>3. \A n \in kept \cup {name} : Image(n) \in more /\ ImageMemory(n) \in more /\ ImageView(n) \in more
  BY <1>1, ImagesDiffer DEF Stock
<1>4. \A x \in more : x[1] \notin StagingKinds
  BY <1>1, ImageObjectsAre, PixelKindsAre DEF Stock
<1>5. /\ kept \cup {name} \subseteq Names /\ IsFiniteSet(kept \cup {name})
      /\ used + 1 = Cardinality(kept \cup {name}) /\ used + 1 <= ImageBudget
  BY StockCounts
<1>6. Stock(more, kept \cup {name}, {}, used + 1)
  BY <1>2, <1>3, <1>4, <1>5 DEF Stock
<1> QED BY <1>1, <1>6

(* An image whose copy may still run enters the stock as the pending one.  *)
LEMMA StockPends ==
  ASSUME NEW held, NEW kept, NEW used, Stock(held, kept, {}, used), used < ImageBudget, NEW name \in Names \ kept
  PROVE  Stock(held \cup UploadWork(name), kept \cup {name}, {name}, used + 1)
<1>1. PICK more : more = held \cup UploadWork(name)
  OBVIOUS
<1>2. UploadWork(name) = StagingObjects \cup {Image(name), ImageMemory(name)}
  BY DEF UploadWork
<1>3. \A x \in more : x[1] \in ImageKinds => \E n \in kept \cup {name} : x \in ImageObjects(n)
  BY <1>1, <1>2, StagingObjectsAre, PixelKindsAre, ImagesDiffer DEF Stock
<1>4. \A n \in kept \cup {name} : Image(n) \in more /\ ImageMemory(n) \in more /\ (ImageView(n) \in more <=> n # name)
  <2>1. ImageObjects(name) \cap held = {} /\ ImageView(name) \in ImageObjects(name) /\ ImageView(name) \notin StagingObjects
    BY StockIsNew, ImagesDiffer, PixelKindsAre
  <2>2. ImageView(name) \notin more
    BY <1>1, <1>2, <2>1, ImagesDiffer
  <2> QED BY <1>1, <1>2, <2>2 DEF Stock
<1>5. \A x \in more : x[1] \in StagingKinds => x \in StagingObjects
  <2>1. Image(name)[1] \notin StagingKinds /\ ImageMemory(name)[1] \notin StagingKinds
    BY ImageObjectsAre, PixelKindsAre, ImagesDiffer
  <2> QED BY <1>1, <1>2, <2>1 DEF Stock
<1>6. /\ kept \cup {name} \subseteq Names /\ IsFiniteSet(kept \cup {name})
      /\ used + 1 = Cardinality(kept \cup {name}) /\ used + 1 <= ImageBudget
  BY StockCounts
<1>7. StagingObjects \subseteq more
  BY <1>1, <1>2
<1>8. Stock(more, kept \cup {name}, {name}, used + 1)
  <2>1. {name} \subseteq kept \cup {name} /\ \E n \in Names : {name} = {n}
    OBVIOUS
  <2>2. \A n \in kept \cup {name} : Image(n) \in more /\ ImageMemory(n) \in more /\ (ImageView(n) \in more <=> n \notin {name})
    BY <1>4
  <2> QED BY <1>3, <1>5, <1>6, <1>7, <2>1, <2>2 DEF Stock
<1> QED BY <1>1, <1>8

(* Images that go, the pending one among them or not.                      *)
LEMMA StockLoses ==
  ASSUME NEW held, NEW kept, NEW pending, NEW used, Stock(held, kept, pending, used),
         NEW names, names \subseteq kept, NEW other,
         \A x : x[1] \in ImageKinds => (x \in other <=> x \in held /\ \A n \in names : x \notin ImageObjects(n)),
         \A x : x[1] \in StagingKinds => (x \in other <=> x \in held /\ pending \ names # {})
  PROVE  Stock(other, kept \ names, pending \ names, used - Cardinality(names))
<1>1. /\ kept \ names \subseteq Names /\ IsFiniteSet(kept \ names)
      /\ used - Cardinality(names) = Cardinality(kept \ names) /\ used - Cardinality(names) <= ImageBudget
  <2>1. IsFiniteSet(names) /\ Cardinality(names) \in Nat
    BY FS_Subset, FS_CardinalityType DEF Stock
  <2>2. kept \cap names = names
    OBVIOUS
  <2>3. IsFiniteSet(kept \ names) /\ Cardinality(kept \ names) = Cardinality(kept) - Cardinality(names)
    BY <2>2, FS_Difference DEF Stock
  <2>4. Cardinality(kept) \in Nat
    BY FS_CardinalityType DEF Stock
  <2>5. used \in Nat /\ used <= ImageBudget
    BY <2>4 DEF Stock
  <2>6. used - Cardinality(names) <= ImageBudget
    BY <2>1, <2>5, MaterialAssumption
  <2> QED BY <2>3, <2>6 DEF Stock
<1>2. \A x \in other : x[1] \in ImageKinds => \E n \in kept \ names : x \in ImageObjects(n)
  BY DEF Stock
<1>3. \A n \in kept \ names : Image(n) \in other /\ ImageMemory(n) \in other /\ (ImageView(n) \in other <=> n \notin pending \ names)
  <2>1. SUFFICES ASSUME NEW n \in kept \ names
                 PROVE  Image(n) \in other /\ ImageMemory(n) \in other /\ (ImageView(n) \in other <=> n \notin pending \ names)
    OBVIOUS
  <2>2. \A x \in ImageObjects(n) : x \in other <=> x \in held
    BY ImageObjectsAre
  <2> QED BY <2>2, ImagesDiffer DEF Stock
<1>4. \A x \in other : x[1] \in StagingKinds => x \in StagingObjects /\ pending \ names # {}
  BY DEF Stock
<1>5. pending \ names # {} => StagingObjects \subseteq other
  BY StagingObjectsAre DEF Stock
<1>6. pending \ names \subseteq kept \ names /\ (pending \ names = {} \/ \E n \in Names : pending \ names = {n})
  BY DEF Stock
<1> QED BY <1>1, <1>2, <1>3, <1>4, <1>5, <1>6 DEF Stock

(* What an upload makes after its image.                                   *)
LEMMA StagedMakes ==
  ASSUME NEW held, NEW busy, NEW name,
         (StagingObjects \cup {ImageMemory(name)}) \cap held = {},
         Image(name) \in held
  PROVE  Makes(StagedCalls(name), held, busy, {ImageMemory(name), <<"material staging", 0>>, <<"material staging memory", 0>>, <<"material command", 0>>})
<1>1. PICK a, b, c, e, f, g, h :
        /\ a = Make(ImageMemory(name), {})
        /\ b = Call({Image(name)})
        /\ c = Make(<<"material staging", 0>>, {})
        /\ e = Make(<<"material staging memory", 0>>, {})
        /\ f = Call({})
        /\ g = Make(<<"material command", 0>>, {})
        /\ h = Call({})
  OBVIOUS
<1>2. /\ a.makes = {ImageMemory(name)}
      /\ b.makes = {}
      /\ c.makes = {<<"material staging", 0>>}
      /\ e.makes = {<<"material staging memory", 0>>}
      /\ f.makes = {}
      /\ g.makes = {<<"material command", 0>>}
      /\ h.makes = {}
  BY <1>1, CallsMake
<1>3. FitsIn(a, held, busy)
  <2>1. ImageMemory(name) \notin held
    BY <1>2 DEF StagingObjects, ImageMemory
  <2> QED BY <1>1, <2>1, MakeFits
<1>4. FitsIn(b, held \cup (a.makes), busy)
  <2>1. {Image(name)} \subseteq held \cup (a.makes)
    BY <1>2 DEF StagingObjects, ImageMemory
  <2> QED BY <1>1, <2>1, CallFits
<1>5. FitsIn(c, held \cup (a.makes \cup b.makes), busy)
  <2>1. <<"material staging", 0>> \notin held \cup (a.makes \cup b.makes)
    BY <1>2 DEF StagingObjects, ImageMemory
  <2> QED BY <1>1, <2>1, MakeFits
<1>6. FitsIn(e, held \cup (a.makes \cup b.makes \cup c.makes), busy)
  <2>1. <<"material staging memory", 0>> \notin held \cup (a.makes \cup b.makes \cup c.makes)
    BY <1>2 DEF StagingObjects, ImageMemory
  <2> QED BY <1>1, <2>1, MakeFits
<1>7. FitsIn(f, held \cup (a.makes \cup b.makes \cup c.makes \cup e.makes), busy)
  BY <1>1, CallFits
<1>8. FitsIn(g, held \cup (a.makes \cup b.makes \cup c.makes \cup e.makes \cup f.makes), busy)
  <2>1. <<"material command", 0>> \notin held \cup (a.makes \cup b.makes \cup c.makes \cup e.makes \cup f.makes)
    BY <1>2 DEF StagingObjects, ImageMemory
  <2> QED BY <1>1, <2>1, MakeFits
<1>9. FitsIn(h, held \cup (a.makes \cup b.makes \cup c.makes \cup e.makes \cup f.makes \cup g.makes), busy)
  BY <1>1, CallFits
<1>10. Makes(<<a, b, c, e, f, g, h>>, held, busy, a.makes \cup b.makes \cup c.makes \cup e.makes \cup f.makes \cup g.makes \cup h.makes)
  BY <1>3, <1>4, <1>5, <1>6, <1>7, <1>8, <1>9, MakesSeven
<1>11. a.makes \cup b.makes \cup c.makes \cup e.makes \cup f.makes \cup g.makes \cup h.makes = {ImageMemory(name), <<"material staging", 0>>, <<"material staging memory", 0>>, <<"material command", 0>>}
  BY <1>2
<1>12. <<a, b, c, e, f, g, h>> = StagedCalls(name)
  BY <1>1 DEF StagedCalls
<1> QED BY <1>10, <1>11, <1>12

(* The image of an upload.                                                 *)
LEMMA ImageFirst ==
  ASSUME NEW held, NEW busy, NEW name,
         Image(name) \notin held
  PROVE  Makes(<<Call({}), Make(Image(name), {})>>, held, busy, {Image(name)})
<1>1. PICK a, b :
        /\ a = Call({})
        /\ b = Make(Image(name), {})
  OBVIOUS
<1>2. /\ a.makes = {}
      /\ b.makes = {Image(name)}
  BY <1>1, CallsMake
<1>3. FitsIn(a, held, busy)
  BY <1>1, CallFits
<1>4. FitsIn(b, held \cup (a.makes), busy)
  <2>1. Image(name) \notin held \cup (a.makes)
    BY <1>2
  <2> QED BY <1>1, <2>1, MakeFits
<1>5. Makes(<<a, b>>, held, busy, a.makes \cup b.makes)
  BY <1>3, <1>4, MakesTwo
<1>6. a.makes \cup b.makes = {Image(name)}
  BY <1>2
<1>7. <<a, b>> = <<Call({}), Make(Image(name), {})>>
  BY <1>1
<1> QED BY <1>5, <1>6, <1>7

(* The view of an image.                                                   *)
LEMMA ViewMakes ==
  ASSUME NEW held, NEW busy, NEW name,
         ImageView(name) \notin held,
         Image(name) \in held
  PROVE  Makes(<<Make(ImageView(name), {Image(name)})>>, held, busy, {ImageView(name)})
<1>1. PICK a :
        /\ a = Make(ImageView(name), {Image(name)})
  OBVIOUS
<1>2. /\ a.makes = {ImageView(name)}
  BY <1>1, CallsMake
<1>3. FitsIn(a, held, busy)
  <2>1. /\ ImageView(name) \notin held
        /\ {Image(name)} \subseteq held
    BY <1>2
  <2> QED BY <1>1, <2>1, MakeFits
<1>4. Makes(<<a>>, held, busy, a.makes)
  BY <1>3, MakesOne
<1>5. a.makes = {ImageView(name)}
  BY <1>2
<1>6. <<a>> = <<Make(ImageView(name), {Image(name)})>>
  BY <1>1
<1> QED BY <1>4, <1>5, <1>6

(* An image that is uploaded; one whose upload may still be running counts *)
(* and is pending.                                                         *)
Kinder(d, e) == Becomes(d, e, PixelKinds, FrameSlots)
PixelsUploaded(m, d, name, o) ==
  /\ Kinder(d, o.d) /\ o.ok \in BOOLEAN
  /\ IF o.ok
     THEN /\ o.d.held = d.held \cup ImageObjects(name) /\ Busy(o.d) = {} /\ m.used < ImageBudget
          /\ o.m = [m EXCEPT !.used = @ + 1]
     ELSE \/ o.d.held = d.held /\ OneTimeIs(o.d, {}) /\ o.m = m
          \/ /\ o.d.held = d.held \cup UploadWork(name) /\ OneTimeIs(o.d, {name}) /\ m.used < ImageBudget
             /\ o.m = [m EXCEPT !.used = @ + 1, !.pending = {name}]

(* Frame slots and the one-time submission are the kinds of work.          *)
LEMMA SlotsAreWorks ==
  /\ FrameSlots \subseteq Works /\ OneTime \in Works /\ OneTime \notin FrameSlots
  /\ Works = FrameSlots \cup {OneTime}
BY DriverAssumption DEF FrameSlots, Works, OneTime

(* The objects of a pixel upload are of the pixel kinds.                   *)
LEMMA PixelObjectsAre ==
  ASSUME NEW name
  PROVE  /\ \A x \in StagingObjects \cup ImageObjects(name) : x[1] \in PixelKinds
         /\ UploadWork(name) \subseteq StagingObjects \cup ImageObjects(name)
<1>1. \A x \in StagingObjects \cup ImageObjects(name) : x[1] \in PixelKinds
  BY StagingObjectsAre, ImageObjectsAre, PixelKindsAre
<1>2. UploadWork(name) \subseteq StagingObjects \cup ImageObjects(name)
  BY DEF UploadWork, ImageObjects
<1> QED BY <1>1, <1>2

(* What an upload made so far.                                             *)
IsStaged(m, d, name, s) ==
  /\ Clean(s.d) /\ s.d.work = d.work /\ s.ok \in BOOLEAN /\ s.d.refusals >= d.refusals
  /\ d.held \subseteq s.d.held /\ s.d.held \subseteq d.held \cup StagingObjects \cup ImageObjects(name)
  /\ s.ok => s.d.held = d.held \cup UploadWork(name) /\ m.used < ImageBudget
StagedAfter(m, a, name) ==
  IF a.ok THEN IF Reserve(m) THEN Try(a.d, StagedCalls(name)) ELSE Returns(a.d, FALSE) ELSE {a}

(* The staging of a pixel upload adds the image and its staging or cleans  *)
(* up.                                                                     *)
LEMMA StagedAdds ==
  ASSUME NEW d, Clean(d), NEW name, (StagingObjects \cup ImageObjects(name)) \cap d.held = {}, NEW m,
         NEW a \in Try(d, <<Call({}), Make(Image(name), {})>>),
         NEW s \in StagedAfter(m, a, name)
  PROVE  IsStaged(m, d, name, s)
<1>2. Image(name) \notin d.held
  BY DEF ImageObjects
<1>3. Makes(<<Call({}), Make(Image(name), {})>>, d.held, Busy(d), {Image(name)})
  BY <1>2, ImageFirst
<1>4. Adds(d, a, {Image(name)})
  BY <1>3, TryMakes
<1>5. d.refusals \in Nat
  BY CleanShape
<1>6. CASE ~ a.ok
  <2>1. s = a
    BY <1>6 DEF StagedAfter
  <2>2. {Image(name)} \subseteq ImageObjects(name)
    BY DEF ImageObjects
  <2> QED BY <1>4, <1>5, <1>6, <2>1, <2>2 DEF Adds, IsStaged
<1>7. CASE a.ok /\ ~ Reserve(m)
  <2>1. s \in Returns(a.d, FALSE)
    BY <1>7 DEF StagedAfter
  <2>2. s.d = a.d /\ s.ok = FALSE
    BY <2>1 DEF Returns
  <2>3. /\ Clean(a.d) /\ a.d.work = d.work /\ a.d.refusals = d.refusals
        /\ a.d.held = d.held \cup {Image(name)}
    BY <1>4, <1>7 DEF Adds
  <2>4. d.held \subseteq a.d.held /\ a.d.held \subseteq d.held \cup StagingObjects \cup ImageObjects(name)
    BY <2>3 DEF ImageObjects
  <2>5. s.d.refusals >= d.refusals
    BY <1>5, <2>2, <2>3
  <2> QED BY <2>2, <2>3, <2>4, <2>5 DEF IsStaged
<1>8. CASE a.ok /\ Reserve(m)
  <2>1. s \in Try(a.d, StagedCalls(name))
    BY <1>8 DEF StagedAfter
  <2>2. Clean(a.d) /\ a.d.held = d.held \cup {Image(name)} /\ a.d.work = d.work /\ a.d.refusals = d.refusals
    BY <1>4, <1>8 DEF Adds
  <2>3. Image(name) # ImageMemory(name) /\ Image(name) \notin StagingObjects
    BY ImagesDiffer, PixelKindsAre
  <2>4. (StagingObjects \cup {ImageMemory(name)}) \cap a.d.held = {} /\ Image(name) \in a.d.held
    BY <2>2, <2>3 DEF ImageObjects
  <2>5. PICK made : made = {ImageMemory(name), <<"material staging", 0>>, <<"material staging memory", 0>>, <<"material command", 0>>}
    OBVIOUS
  <2>6. Makes(StagedCalls(name), a.d.held, Busy(a.d), made)
    BY <2>4, <2>5, StagedMakes
  <2>7. Adds(a.d, s, made)
    BY <2>1, <2>2, <2>6, TryMakes
  <2>8. made \cup {Image(name)} = UploadWork(name)
    BY <2>5 DEF UploadWork, StagingObjects
  <2>9. UploadWork(name) \subseteq StagingObjects \cup ImageObjects(name)
    BY PixelObjectsAre
  <2>10. s.ok => s.d.held = d.held \cup UploadWork(name)
    BY <2>2, <2>7, <2>8 DEF Adds
  <2>11. m.used < ImageBudget
    BY <1>8 DEF Reserve
  <2>12. Clean(s.d) /\ s.d.work = d.work /\ s.ok \in BOOLEAN
    BY <2>2, <2>7 DEF Adds
  <2>13. d.held \subseteq s.d.held /\ s.d.held \subseteq d.held \cup StagingObjects \cup ImageObjects(name)
    BY <2>2, <2>7, <2>8, <2>9 DEF Adds
  <2>14. s.d.refusals >= d.refusals
    BY <1>5, <2>2, <2>7 DEF Adds
  <2> QED BY <2>10, <2>11, <2>12, <2>13, <2>14 DEF IsStaged
<1> QED BY <1>6, <1>7, <1>8

(* The view, after the copy is known to be complete.                       *)
LEMMA ViewMade ==
  ASSUME NEW b, Clean(b), Busy(b) = {}, NEW name, ImageView(name) \notin b.held, Image(name) \in b.held,
         NEW v \in Try(b, <<Make(ImageView(name), {Image(name)})>>)
  PROVE  /\ Clean(v.d) /\ Busy(v.d) = {} /\ v.d.work = b.work /\ v.ok \in BOOLEAN /\ v.d.refusals >= b.refusals
         /\ v.d.held = b.held \cup (IF v.ok THEN {ImageView(name)} ELSE {})
<1>1. PICK calls : calls = <<Make(ImageView(name), {Image(name)})>>
  OBVIOUS
<1>2. Makes(calls, b.held, Busy(b), {ImageView(name)})
  BY <1>1, ViewMakes
<1>3. Adds(b, v, {ImageView(name)})
  BY <1>1, <1>2, TryMakes
<1>4. ~ v.ok => v.d.held = b.held
  <2>1. Len(calls) = 1
    BY <1>1
  <2>2. Fits(calls, b.held, Busy(b))
    BY <1>2 DEF Makes
  <2>0. v \in Try(b, calls)
    BY <1>1
  <2>3. ~ v.ok => \E n \in 0 .. Len(calls) - 1 : v.d.held = b.held \cup MadeBy(calls, n)
    BY <2>0, <2>2, TryAdds
  <2>4. MadeBy(calls, 0) = {}
    <3>1. 1 .. 0 = {}
      OBVIOUS
    <3> QED BY <3>1 DEF MadeBy
  <2>5. 0 .. Len(calls) - 1 = {0}
    BY <2>1
  <2> QED BY <2>3, <2>4, <2>5
<1>5. b.refusals \in Nat
  BY CleanShape
<1>6. Busy(v.d) = {}
  BY <1>3, WorkIsBusy DEF Adds
<1> QED BY <1>3, <1>4, <1>5, <1>6 DEF Adds

(* The end of an upload.                                                   *)
LEMMA ConfirmedPixels ==
  ASSUME NEW d, Clean(d), OneTimeIs(d, {}), NEW name, (StagingObjects \cup ImageObjects(name)) \cap d.held = {},
         NEW s, Clean(s), s.held = d.held \cup UploadWork(name), s.work = d.work, s.refusals >= d.refusals,
         NEW m, m.used < ImageBudget, NEW w \in {Submit(s, OneTime, UploadWork(name))},
         NEW o \in Confirmed(m, w, name)
  PROVE  PixelsUploaded(m, d, name, o)
<1>1. /\ Clean(w) /\ w.held = s.held /\ w.refusals = s.refusals
      /\ w.work = [s.work EXCEPT ![OneTime] = @ \cup UploadWork(name)]
  BY SlotsAreWorks, SubmitIsClean
<1>2. s.work = [x \in Works |-> s.work[x]]
  BY CleanShape
<1>3. w.work[OneTime] = s.work[OneTime] \cup UploadWork(name) /\ \A x \in FrameSlots : w.work[x] = d.work[x]
  BY <1>1, <1>2, SlotsAreWorks
<1>4. s.work[OneTime] = {}
  BY DEF OneTimeIs
<1>5. PICK b \in WaitIdle(w) :
        o \in IF ~ b.ok
              THEN {[d |-> b.d, m |-> [m EXCEPT !.used = @ + 1, !.pending = {name}], ok |-> FALSE]}
              ELSE {[d |-> IF v.ok THEN v.d ELSE Destroy(v.d, ImageObjects(name)), ok |-> v.ok,
                     m |-> IF v.ok THEN [m EXCEPT !.used = @ + 1] ELSE m] :
                 v \in Try(Destroy(b.d, StagingObjects), <<Make(ImageView(name), {Image(name)})>>)}
  BY DEF Confirmed
<1>6. /\ b.ok \in BOOLEAN /\ Clean(b.d) /\ b.d.held = w.held
      /\ IF b.ok THEN Busy(b.d) = {} /\ b.d.work = [x \in Works |-> {}] /\ b.d.refusals = w.refusals
         ELSE b.d.work = w.work /\ b.d.refusals = w.refusals + 1
  BY <1>1, <1>5, WaitIsClean
<1>7. d.refusals \in Nat /\ s.refusals \in Nat
  BY CleanShape
<1>8. \A x \in StagingObjects \cup ImageObjects(name) : x[1] \in PixelKinds
  BY PixelObjectsAre
<1>9. UploadWork(name) \subseteq StagingObjects \cup ImageObjects(name)
  BY PixelObjectsAre
<1>10. CASE ~ b.ok
  <2>1. o = [d |-> b.d, m |-> [m EXCEPT !.used = @ + 1, !.pending = {name}], ok |-> FALSE]
    BY <1>5, <1>10
  <2>2. o.d = b.d /\ o.ok = FALSE /\ o.m = [m EXCEPT !.used = @ + 1, !.pending = {name}]
    BY <2>1
  <2>3. OneTimeIs(b.d, {name})
    BY <1>3, <1>4, <1>6, <1>10 DEF OneTimeIs
  <2>4. b.d.refusals >= d.refusals
    BY <1>1, <1>6, <1>7, <1>10
  <2>5. \A x \in FrameSlots : b.d.work[x] \subseteq d.work[x]
    BY <1>3, <1>6, <1>10
  <2>6. Kinder(d, b.d)
    BY <1>1, <1>6, <1>8, <1>9, <2>4, <2>5 DEF Kinder, Becomes
  <2> QED BY <1>1, <1>6, <2>2, <2>3, <2>6 DEF PixelsUploaded
<1>11. CASE b.ok
  <2>1. PICK g : g = Destroy(b.d, StagingObjects)
    OBVIOUS
  <2>2. PICK v \in Try(g, <<Make(ImageView(name), {Image(name)})>>) :
          o = [d |-> IF v.ok THEN v.d ELSE Destroy(v.d, ImageObjects(name)), ok |-> v.ok,
               m |-> IF v.ok THEN [m EXCEPT !.used = @ + 1] ELSE m]
    BY <1>5, <1>11, <2>1
  <2>3. Clean(g) /\ g.held = b.d.held \ StagingObjects /\ g.work = b.d.work /\ g.refusals = b.d.refusals
    BY <1>6, <1>11, <2>1, DestroyIsClean
  <2>4. Busy(g) = {}
    BY <1>6, <1>11, <2>3, WorkIsBusy
  <2>5. ImageObjects(name) \cap StagingObjects = {}
    BY PixelKindsAre
  <2>6. g.held = d.held \cup {Image(name), ImageMemory(name)}
    BY <1>1, <1>6, <2>3, <2>5 DEF UploadWork, ImageObjects
  <2>7. ImageView(name) \notin g.held /\ Image(name) \in g.held
    BY <2>6, ImagesDiffer DEF ImageObjects
  <2>8. /\ Clean(v.d) /\ Busy(v.d) = {} /\ v.d.work = g.work /\ v.ok \in BOOLEAN /\ v.d.refusals >= g.refusals
        /\ v.d.held = g.held \cup (IF v.ok THEN {ImageView(name)} ELSE {})
    BY <2>2, <2>3, <2>4, <2>7, ViewMade
  <2>9. \A x \in Works : v.d.work[x] = {}
    BY <1>6, <1>11, <2>3, <2>8
  <2>10. v.d.refusals >= d.refusals
    <3>1. v.d.refusals \in Nat /\ g.refusals \in Nat
      BY <2>3, <2>8, CleanShape
    <3>2. g.refusals >= d.refusals
      BY <1>1, <1>6, <1>11, <2>3
    <3> QED BY <1>7, <2>8, <3>1, <3>2
  <2>11. CASE v.ok
    <3>1. o.d = v.d /\ o.ok = TRUE /\ o.m = [m EXCEPT !.used = @ + 1]
      BY <2>2, <2>11
    <3>2. v.d.held = d.held \cup ImageObjects(name)
      BY <2>6, <2>8, <2>11 DEF ImageObjects
    <3>3. Kinder(d, v.d)
      BY <1>8, <2>8, <2>9, <2>10, <3>2, SlotsAreWorks DEF Kinder, Becomes
    <3> QED BY <2>8, <3>1, <3>2, <3>3 DEF PixelsUploaded
  <2>12. CASE ~ v.ok
    <3>1. o.d = Destroy(v.d, ImageObjects(name)) /\ o.ok = FALSE /\ o.m = m
      BY <2>2, <2>8, <2>12
    <3>2. /\ Clean(o.d) /\ o.d.held = v.d.held \ ImageObjects(name) /\ o.d.work = v.d.work /\ o.d.refusals = v.d.refusals
      BY <2>8, <3>1, DestroyIsClean
    <3>3. o.d.held = d.held
      BY <2>6, <2>8, <2>12, <3>2 DEF ImageObjects
    <3>4. \A x \in Works : o.d.work[x] = {}
      BY <2>9, <3>2
    <3>5. Kinder(d, o.d)
      BY <2>10, <3>2, <3>3, <3>4, SlotsAreWorks DEF Kinder, Becomes
    <3>6. OneTimeIs(o.d, {})
      BY <3>4, SlotsAreWorks DEF OneTimeIs
    <3> QED BY <3>1, <3>3, <3>5, <3>6 DEF PixelsUploaded
  <2> QED BY <2>8, <2>11, <2>12
<1> QED BY <1>6, <1>10, <1>11

(* uploadPixels leaves a complete image, nothing, or a pending copy.       *)
LEMMA UploadPixelsUploads ==
  ASSUME NEW d, Clean(d), OneTimeIs(d, {}), NEW name, (StagingObjects \cup ImageObjects(name)) \cap d.held = {},
         NEW m, NEW o \in UploadPixels(m, d, name)
  PROVE  PixelsUploaded(m, d, name, o)
<1>1. Kinder(d, d)
  BY BecomesItself DEF Kinder
<1>2. CASE m.pending # {}
  <2>1. o.d = d /\ o.m = m /\ o.ok = FALSE
    BY <1>2 DEF UploadPixels
  <2> QED BY <1>1, <2>1 DEF PixelsUploaded
<1>3. CASE m.pending = {}
  <2>1. PICK s \in AndThen(Try(d, <<Call({}), Make(Image(name), {})>>),
                           LAMBDA e : IF Reserve(m) THEN Try(e, StagedCalls(name)) ELSE Returns(e, FALSE)) :
          o \in IF s.ok THEN Confirmed(m, Submit(s.d, OneTime, UploadWork(name)), name)
                ELSE {[d |-> Destroy(s.d, StagingObjects \cup ImageObjects(name)), m |-> m, ok |-> FALSE]}
    BY <1>3 DEF UploadPixels
  <2>2. /\ Clean(s.d) /\ s.d.work = d.work /\ s.ok \in BOOLEAN /\ s.d.refusals >= d.refusals
        /\ d.held \subseteq s.d.held /\ s.d.held \subseteq d.held \cup StagingObjects \cup ImageObjects(name)
        /\ s.ok => s.d.held = d.held \cup UploadWork(name) /\ m.used < ImageBudget
    <3>1. PICK a \in Try(d, <<Call({}), Make(Image(name), {})>>) : s \in StagedAfter(m, a, name)
      BY <2>1 DEF AndThen, StagedAfter
    <3>2. IsStaged(m, d, name, s)
      BY <3>1, StagedAdds
    <3> QED BY <3>2 DEF IsStaged
  <2>3. CASE ~ s.ok
    <3>1. o.d = Destroy(s.d, StagingObjects \cup ImageObjects(name)) /\ o.m = m /\ o.ok = FALSE
      BY <2>1, <2>3
    <3>2. Busy(s.d) = Busy(d) /\ Busy(d) \subseteq d.held
      BY <2>2, WorkIsBusy, CleanShape
    <3>3. /\ Clean(o.d) /\ o.d.held = s.d.held \ (StagingObjects \cup ImageObjects(name))
          /\ o.d.work = s.d.work /\ o.d.refusals = s.d.refusals
      BY <2>2, <3>1, <3>2, DestroyIsClean
    <3>4. o.d.held = d.held
      BY <2>2, <3>3
    <3>5. Kinder(d, o.d)
      BY <2>2, <3>3, <3>4 DEF Kinder, Becomes
    <3>6. OneTimeIs(o.d, {})
      BY <2>2, <3>3 DEF OneTimeIs
    <3> QED BY <3>1, <3>4, <3>5, <3>6 DEF PixelsUploaded
  <2>4. CASE s.ok
    <3>1. PICK e, w : e = s.d /\ w = Submit(s.d, OneTime, UploadWork(name))
      OBVIOUS
    <3>2. o \in Confirmed(m, w, name)
      BY <2>1, <2>4, <3>1
    <3>3. Clean(e) /\ e.held = d.held \cup UploadWork(name) /\ e.work = d.work /\ e.refusals >= d.refusals
      BY <2>2, <2>4, <3>1
    <3>4. w \in {Submit(e, OneTime, UploadWork(name))}
      BY <3>1
    <3>5. m.used < ImageBudget
      BY <2>2, <2>4
    <3> QED BY <3>2, <3>3, <3>4, <3>5, ConfirmedPixels
  <2> QED BY <2>2, <2>3, <2>4
<1> QED BY <1>2, <1>3

(* What the materials own.                                                 *)
Stored(m) ==
  m.defaults \cup (IF m.brdf THEN {BrdfTable} ELSE {}) \cup (IF m.shows = NoSky THEN {} ELSE {m.shows})
EnvironmentAll == {EnvironmentLayout, EnvironmentPool, EnvironmentSet} \cup EnvironmentSamplers

CoreHolds(m, held) ==
  /\ \A x \in held : x[1] \in CoreKinds => x \in MaterialsCore \cup Samplers
  /\ m.ready => m.defaults = Defaults /\ MaterialsCore \subseteq held
  /\ ~ m.attemptedCore => ~ m.ready /\ m.defaults = {} /\ m.pending = {} /\ \A x \in held : x[1] \notin CoreKinds

EnvironmentHolds(m, held) ==
  /\ \A x \in held : x[1] \in EnvironmentKinds => x \in EnvironmentAll /\ m.ready
  /\ EnvironmentSet \in held => EnvironmentPool \in held
  /\ m.shows \in Skies \cup {NoSky}
  /\ m.shows # NoSky => m.brdf /\ EnvironmentAll \subseteq held
  /\ m.brdf => m.ready

MaterialFlags(m) ==
  /\ IsMaterials(m) /\ m.device \in BOOLEAN /\ m.attemptedCore \in BOOLEAN
  /\ m.ready \in BOOLEAN /\ m.brdf \in BOOLEAN
  /\ m.defaults \subseteq Defaults
  /\ ~ m.device => m = NoMaterials

(* `others`: the images that meshes refer to.                              *)
MatOwns(m, d, others) ==
  /\ MaterialFlags(m)
  /\ m.pending \cap (Stored(m) \cup others) = {}
  /\ Stock(d.held, Stored(m) \cup m.pending \cup others, m.pending, m.used) /\ OneTimeIs(d, m.pending)
  /\ CoreHolds(m, d.held) /\ EnvironmentHolds(m, d.held)

(* Kept images are the stored ones and the pending one.                    *)
LEMMA KeptIs == \A m : Kept(m) = Stored(m) \cup m.pending
BY DEF Kept, Stored

(* The groups of material kinds are disjoint.                              *)
LEMMA MaterialKindsDiffer ==
  /\ \A k \in PixelKinds : k \notin CoreKinds /\ k \notin EnvironmentKinds /\ k \notin AssetKinds
  /\ \A k \in CoreKinds : k \notin EnvironmentKinds /\ k \notin AssetKinds
  /\ \A k \in EnvironmentKinds : k \notin AssetKinds
<1>1. \A k \in PixelKinds : k \notin CoreKinds /\ k \notin EnvironmentKinds /\ k \notin AssetKinds
  BY DEF PixelKinds, ImageKinds, StagingKinds, CoreKinds, EnvironmentKinds, AssetKinds
<1>2. \A k \in CoreKinds : k \notin EnvironmentKinds /\ k \notin AssetKinds
  BY DEF CoreKinds, EnvironmentKinds, AssetKinds
<1>3. \A k \in EnvironmentKinds : k \notin AssetKinds
  BY DEF EnvironmentKinds, AssetKinds
<1> QED BY <1>1, <1>2, <1>3

(* Core, samplers and environment by kind.                                 *)
LEMMA CoreOfMaterials ==
  /\ \A x \in MaterialsCore : x[1] \in CoreKinds
  /\ \A x \in Samplers : x[1] \in CoreKinds
  /\ \A x \in EnvironmentAll : x[1] \in EnvironmentKinds
<1>1. ASSUME NEW x \in MaterialsCore PROVE x[1] \in CoreKinds
  <2>1. CASE x = EmptyLayout
    BY <2>1 DEF EmptyLayout, CoreKinds
  <2>2. CASE x = MaterialLayout
    BY <2>2 DEF MaterialLayout, CoreKinds
  <2>3. CASE \E s \in FrameSlots : x = FrameBuffer(s)
    <3>1. PICK s \in FrameSlots : x = FrameBuffer(s)
      BY <2>3
    <3> QED BY <3>1 DEF FrameBuffer, CoreKinds
  <2>4. CASE \E s \in FrameSlots : x = FrameMemory(s)
    <3>1. PICK s \in FrameSlots : x = FrameMemory(s)
      BY <2>4
    <3> QED BY <3>1 DEF FrameMemory, CoreKinds
  <2> QED BY <1>1, <2>1, <2>2, <2>3, <2>4 DEF MaterialsCore
<1>2. ASSUME NEW x \in Samplers PROVE x[1] \in CoreKinds
  <2>1. PICK key \in {0, 1} : x = Sampler(key)
    BY <1>2 DEF Samplers
  <2> QED BY <2>1 DEF Sampler, CoreKinds
<1>3. ASSUME NEW x \in EnvironmentAll PROVE x[1] \in EnvironmentKinds
  <2>1. CASE x = EnvironmentLayout
    BY <2>1 DEF EnvironmentLayout, EnvironmentKinds
  <2>2. CASE x = EnvironmentPool
    BY <2>2 DEF EnvironmentPool, EnvironmentKinds
  <2>3. CASE x = EnvironmentSet
    BY <2>3 DEF EnvironmentSet, EnvironmentKinds
  <2>4. CASE x \in EnvironmentSamplers
    <3>1. PICK key \in {0, 1} : x = <<"environment sampler", key>>
      BY <2>4 DEF EnvironmentSamplers
    <3> QED BY <3>1 DEF EnvironmentKinds
  <2> QED BY <1>3, <2>1, <2>2, <2>3, <2>4 DEF EnvironmentAll
<1> QED BY <1>1, <1>2, <1>3

(* Only the count of images and the pending one differ.                    *)
OnlyCounts(m, n) ==
  /\ IsMaterials(n)
  /\ n.device = m.device /\ n.attemptedCore = m.attemptedCore /\ n.ready = m.ready
  /\ n.defaults = m.defaults /\ n.brdf = m.brdf /\ n.shows = m.shows /\ n.written = m.written
  /\ n.prepared = m.prepared /\ n.gate = m.gate
(* Changing the budget or the pending image changes only these.            *)
LEMMA CountsOnly ==
  ASSUME NEW m, IsMaterials(m), NEW u, NEW p
  PROVE  /\ OnlyCounts(m, m)
         /\ OnlyCounts(m, [m EXCEPT !.used = u]) /\ [m EXCEPT !.used = u].used = u
         /\ [m EXCEPT !.used = u].pending = m.pending
         /\ OnlyCounts(m, [m EXCEPT !.used = u, !.pending = p])
         /\ [m EXCEPT !.used = u, !.pending = p].used = u /\ [m EXCEPT !.used = u, !.pending = p].pending = p
BY DEF OnlyCounts, IsMaterials, NoMaterials

(* Changes of the counts compose.                                          *)
LEMMA CountsThen ==
  ASSUME NEW m, NEW n, NEW k, OnlyCounts(m, n), OnlyCounts(n, k)
  PROVE  OnlyCounts(m, k)
BY DEF OnlyCounts

(* What does not depend on the images.                                     *)
LEMMA RestHolds ==
  ASSUME NEW m, NEW held, CoreHolds(m, held), EnvironmentHolds(m, held), NEW n, OnlyCounts(m, n),
         m.attemptedCore \/ n.pending = {},
         NEW other, SameOf(CoreKinds \cup EnvironmentKinds, held, other)
  PROVE  CoreHolds(n, other) /\ EnvironmentHolds(n, other) /\ Stored(n) = Stored(m)
<1>1. Stored(n) = Stored(m)
  BY DEF Stored, OnlyCounts
<1>2. \A x \in MaterialsCore : x \in held => x \in other
  BY CoreOfMaterials DEF SameOf
<1>3. \A x \in EnvironmentAll : x \in held <=> x \in other
  BY CoreOfMaterials DEF SameOf
<1>4. EnvironmentSet \in EnvironmentAll /\ EnvironmentPool \in EnvironmentAll
  BY DEF EnvironmentAll
<1>5. CoreHolds(n, other)
  <2>1. \A x \in other : x[1] \in CoreKinds => x \in held
    BY DEF SameOf
  <2> QED BY <1>2, <2>1 DEF CoreHolds, OnlyCounts
<1>6. EnvironmentHolds(n, other)
  <2>1. \A x \in other : x[1] \in EnvironmentKinds => x \in held
    BY DEF SameOf
  <2> QED BY <1>3, <1>4, <2>1 DEF EnvironmentHolds, OnlyCounts
<1> QED BY <1>1, <1>5, <1>6

(* A change of images leaves core and environment objects alone.           *)
LEMMA KinderSame ==
  ASSUME NEW d, NEW e, Kinder(d, e)
  PROVE  SameOf(CoreKinds \cup EnvironmentKinds, d.held, e.held)
BY MaterialKindsDiffer DEF Kinder, Becomes, SameOf

-----------------------------------------------------------------------------
(* Steps that change images only.                                          *)
MatStep(m, d, o) == Kinder(d, o.d) /\ o.ok \in BOOLEAN /\ OnlyCounts(m, o.m)

(* A step of the images keeps the materials owned when its stock does.     *)
LEMMA StepOwns ==
  ASSUME NEW m, NEW d, NEW others, MatOwns(m, d, others), NEW o, MatStep(m, d, o),
         m.attemptedCore \/ o.m.pending = {}, m.device \/ o.m = m,
         NEW more, o.m.pending \cap (Stored(m) \cup more) = {},
         Stock(o.d.held, Stored(m) \cup o.m.pending \cup more, o.m.pending, o.m.used), OneTimeIs(o.d, o.m.pending)
  PROVE  MatOwns(o.m, o.d, more)
<1>1. SameOf(CoreKinds \cup EnvironmentKinds, d.held, o.d.held)
  BY KinderSame DEF MatStep
<1>2. CoreHolds(o.m, o.d.held) /\ EnvironmentHolds(o.m, o.d.held) /\ Stored(o.m) = Stored(m)
  <2>1. PICK n, other : n = o.m /\ other = o.d.held
    OBVIOUS
  <2>2. CoreHolds(m, d.held) /\ EnvironmentHolds(m, d.held) /\ OnlyCounts(m, n) /\ (m.attemptedCore \/ n.pending = {})
    BY <2>1 DEF MatOwns, MatStep
  <2>3. SameOf(CoreKinds \cup EnvironmentKinds, d.held, other)
    BY <1>1, <2>1
  <2>4. CoreHolds(n, other) /\ EnvironmentHolds(n, other) /\ Stored(n) = Stored(m)
    BY <2>2, <2>3, RestHolds
  <2> QED BY <2>1, <2>4
<1>3. MaterialFlags(o.m)
  BY DEF MaterialFlags, MatOwns, MatStep, OnlyCounts
<1> QED BY <1>2, <1>3 DEF MatOwns

(* retirePendingUpload                                                     *)
Retires(m, d, others, o) ==
  /\ MatStep(m, d, o) /\ MatOwns(o.m, o.d, others)
  /\ o.ok => o.m.pending = {}
  /\ m.pending = {} => o.ok = TRUE /\ o.d = d /\ o.m = m

(* retirePendingUpload destroys the pending image once its copy is over.   *)
LEMMA RetirePendingOwns ==
  ASSUME NEW d, Clean(d), NEW m, NEW others, MatOwns(m, d, others), NEW o \in RetirePending(m, d)
  PROVE  Retires(m, d, others, o)
<1>1. Kinder(d, d) /\ OnlyCounts(m, m)
  BY BecomesItself, CountsOnly DEF Kinder, MatOwns, MaterialFlags
<1>2. CASE m.pending = {}
  <2>1. o.d = d /\ o.m = m /\ o.ok = TRUE
    BY <1>2 DEF RetirePending
  <2> QED BY <1>1, <1>2, <2>1 DEF Retires, MatStep
<1>3. CASE m.pending # {}
  <2>1. PICK b \in WaitIdle(d) :
          o = IF b.ok
              THEN Answers(Released([m EXCEPT !.pending = {}], Destroy(b.d, StagingObjects), m.pending), TRUE)
              ELSE [d |-> b.d, m |-> m, ok |-> FALSE]
    BY <1>3 DEF RetirePending
  <2>2. /\ b.ok \in BOOLEAN /\ Clean(b.d) /\ b.d.held = d.held
        /\ IF b.ok THEN Busy(b.d) = {} /\ b.d.work = [w \in Works |-> {}] /\ b.d.refusals = d.refusals
           ELSE b.d.work = d.work /\ b.d.refusals = d.refusals + 1
    BY <2>1, WaitIsClean
  <2>3. d.refusals \in Nat
    BY CleanShape
  <2>4. m.device /\ m.attemptedCore /\ IsMaterials(m)
    BY <1>3 DEF MatOwns, MaterialFlags, NoMaterials, CoreHolds
  <2>5. CASE ~ b.ok
    <3>1. o.d = b.d /\ o.m = m /\ o.ok = FALSE
      BY <2>1, <2>5
    <3>2. Kinder(d, b.d)
      BY <2>2, <2>3, <2>5 DEF Kinder, Becomes
    <3>3. MatOwns(m, b.d, others)
      BY <2>2, <2>5 DEF MatOwns, OneTimeIs
    <3> QED BY <1>1, <1>3, <3>1, <3>2, <3>3 DEF Retires, MatStep
  <2>6. CASE b.ok
    <3>1. PICK n, g : n = [m EXCEPT !.pending = {}] /\ g = Destroy(b.d, StagingObjects)
      OBVIOUS
    <3>2. o = Answers(Released(n, g, m.pending), TRUE)
      BY <2>1, <2>6, <3>1
    <3>3. PICK gone : gone = UNION {ImageObjects(k) : k \in m.pending}
      OBVIOUS
    <3>4. o.d = Destroy(g, gone) /\ o.m = [n EXCEPT !.used = @ - Cardinality(m.pending)] /\ o.ok = TRUE
      BY <3>2, <3>3 DEF Answers, Released
    <3>5. Clean(g) /\ g.held = b.d.held \ StagingObjects /\ g.work = b.d.work /\ g.refusals = b.d.refusals
      BY <2>2, <2>6, <3>1, DestroyIsClean
    <3>6. Busy(g) = {}
      BY <2>2, <2>6, <3>5, WorkIsBusy
    <3>7. /\ Clean(o.d) /\ o.d.held = g.held \ gone /\ o.d.work = g.work /\ o.d.refusals = g.refusals
      BY <3>4, <3>5, <3>6, DestroyIsClean
    <3>8. \A w \in Works : o.d.work[w] = {}
      BY <2>2, <2>6, <3>5, <3>7
    <3>9. \A x \in gone \cup StagingObjects : x[1] \in PixelKinds
      BY <3>3, ImageObjectsAre, StagingObjectsAre, PixelKindsAre
    <3>10. Kinder(d, o.d)
      BY <2>2, <2>3, <2>6, <3>5, <3>7, <3>8, <3>9, SlotsAreWorks DEF Kinder, Becomes
    <3>11. OnlyCounts(m, o.m) /\ o.m.pending = {} /\ o.m.used = m.used - Cardinality(m.pending)
      BY <2>4, <3>1, <3>4 DEF OnlyCounts, IsMaterials, NoMaterials
    <3>12. MatStep(m, d, o)
      BY <3>4, <3>10, <3>11 DEF MatStep
    <3>13. PICK kept, other : kept = Stored(m) \cup m.pending \cup others /\ other = o.d.held
      OBVIOUS
    <3>14. Stock(other, kept \ m.pending, m.pending \ m.pending, m.used - Cardinality(m.pending))
      <4>1. Stock(d.held, kept, m.pending, m.used) /\ m.pending \subseteq kept
        BY <3>13 DEF MatOwns
      <4>2. \A x : x[1] \in ImageKinds => (x \in other <=> x \in d.held /\ \A k \in m.pending : x \notin ImageObjects(k))
        BY <2>2, <3>3, <3>5, <3>7, <3>13, StagingObjectsAre, PixelKindsAre
      <4>3. \A x : x[1] \in StagingKinds => (x \in other <=> x \in d.held /\ m.pending \ m.pending # {})
        <5>1. \A x \in d.held : x[1] \in StagingKinds => x \in StagingObjects
          BY <4>1 DEF Stock
        <5> QED BY <2>2, <3>5, <3>7, <3>13, <5>1
      <4> QED BY <4>1, <4>2, <4>3, StockLoses
    <3>15. kept \ m.pending = Stored(m) \cup o.m.pending \cup others
      BY <3>11, <3>13 DEF MatOwns
    <3>16. Stock(o.d.held, Stored(m) \cup o.m.pending \cup others, o.m.pending, o.m.used)
      BY <3>11, <3>13, <3>14, <3>15
    <3>17. OneTimeIs(o.d, o.m.pending)
      BY <3>8, SlotsAreWorks DEF OneTimeIs
    <3>18. MatOwns(o.m, o.d, others)
      BY <2>4, <3>11, <3>12, <3>16, <3>17, StepOwns
    <3> QED BY <1>3, <3>4, <3>11, <3>12, <3>18 DEF Retires
  <2> QED BY <2>2, <2>5, <2>6
<1> QED BY <1>2, <1>3

(* uploadPixels                                                            *)
Uploads(m, d, name, others, o) ==
  /\ MatStep(m, d, o)
  /\ MatOwns(o.m, o.d, IF o.ok THEN others \cup {name} ELSE others)
  /\ o.ok => Busy(o.d) = {} /\ o.m.pending = {}

(* uploadPixels accounts for a new image in the stock and in the budget.   *)
LEMMA UploadPixelsOwns ==
  ASSUME NEW d, Clean(d), NEW m, NEW others, MatOwns(m, d, others), m.device, m.attemptedCore, m.pending = {},
         NEW name \in Names \ (Stored(m) \cup others), NEW o \in UploadPixels(m, d, name)
  PROVE  Uploads(m, d, name, others, o)
<1>1. PICK kept : kept = Stored(m) \cup others
  OBVIOUS
<1>2. Stock(d.held, kept, {}, m.used) /\ OneTimeIs(d, {}) /\ IsMaterials(m)
  <2>1. kept = Stored(m) \cup m.pending \cup others
    BY <1>1
  <2> QED BY <2>1 DEF MatOwns, MaterialFlags
<1>3. ImageObjects(name) \cap d.held = {} /\ StagingObjects \cap d.held = {}
  BY <1>1, <1>2, StockIsNew
<1>4. PixelsUploaded(m, d, name, o)
  BY <1>2, <1>3, UploadPixelsUploads
<1>5. Kinder(d, o.d) /\ o.ok \in BOOLEAN
  BY <1>4 DEF PixelsUploaded
<1>6. CASE o.ok
  <2>1. o.d.held = d.held \cup ImageObjects(name) /\ Busy(o.d) = {} /\ m.used < ImageBudget /\ o.m = [m EXCEPT !.used = @ + 1]
    BY <1>4, <1>6 DEF PixelsUploaded
  <2>2. OnlyCounts(m, o.m) /\ o.m.pending = {} /\ o.m.used = m.used + 1
    BY <1>2, <2>1 DEF OnlyCounts, IsMaterials, NoMaterials
  <2>3. Stock(d.held \cup ImageObjects(name), kept \cup {name}, {}, m.used + 1)
    BY <1>1, <1>2, <2>1, StockGains
  <2>4. MatStep(m, d, o)
    BY <1>5, <2>2 DEF MatStep
  <2>5. OneTimeIs(o.d, {})
    <3>1. o.d.work[OneTime] \subseteq Busy(o.d)
      BY SlotsAreWorks DEF Busy
    <3> QED BY <2>1, <3>1 DEF OneTimeIs
  <2>6. PICK more : more = others \cup {name}
    OBVIOUS
  <2>7. kept \cup {name} = Stored(m) \cup o.m.pending \cup more
    BY <1>1, <2>2, <2>6
  <2>8. Stock(o.d.held, Stored(m) \cup o.m.pending \cup more, o.m.pending, o.m.used)
    BY <2>1, <2>2, <2>3, <2>7
  <2>9. MatOwns(o.m, o.d, more)
    BY <2>2, <2>4, <2>5, <2>8, StepOwns
  <2> QED BY <1>6, <2>1, <2>2, <2>4, <2>6, <2>9 DEF Uploads
<1>7. CASE ~ o.ok /\ o.d.held = d.held /\ OneTimeIs(o.d, {}) /\ o.m = m
  <2>1. OnlyCounts(m, m)
    BY <1>2, CountsOnly
  <2>2. MatStep(m, d, o)
    BY <1>5, <1>7, <2>1 DEF MatStep
  <2>3. MatOwns(o.m, o.d, others)
    BY <1>7 DEF MatOwns
  <2> QED BY <1>7, <2>2, <2>3 DEF Uploads
<1>8. CASE /\ ~ o.ok
           /\ o.d.held = d.held \cup UploadWork(name) /\ OneTimeIs(o.d, {name}) /\ m.used < ImageBudget
           /\ o.m = [m EXCEPT !.used = @ + 1, !.pending = {name}]
  <2>1. OnlyCounts(m, o.m) /\ o.m.pending = {name} /\ o.m.used = m.used + 1
    BY <1>2, <1>8 DEF OnlyCounts, IsMaterials, NoMaterials
  <2>2. Stock(d.held \cup UploadWork(name), kept \cup {name}, {name}, m.used + 1)
    BY <1>1, <1>2, <1>8, StockPends
  <2>3. MatStep(m, d, o)
    BY <1>5, <2>1 DEF MatStep
  <2>4. kept \cup {name} = Stored(m) \cup o.m.pending \cup others
    BY <1>1, <2>1
  <2>5. Stock(o.d.held, Stored(m) \cup o.m.pending \cup others, o.m.pending, o.m.used)
    BY <1>8, <2>1, <2>2, <2>4
  <2>6. o.m.pending \cap (Stored(m) \cup others) = {} /\ OneTimeIs(o.d, o.m.pending)
    BY <1>8, <2>1
  <2>7. MatOwns(o.m, o.d, others)
    BY <2>3, <2>5, <2>6, StepOwns
  <2> QED BY <1>8, <2>3, <2>7 DEF Uploads
<1> QED BY <1>4, <1>5, <1>6, <1>7, <1>8 DEF PixelsUploaded

(* finishPendingUpload                                                     *)
Retired(m, d, others, o) ==
  MatStep(m, d, o) /\ MatOwns(o.m, o.d, others) /\ (o.ok => o.m.pending = {})
(* A step of the materials leaves a clean driver.                          *)
LEMMA StepClean ==
  ASSUME NEW m, NEW d, NEW o, MatStep(m, d, o)
  PROVE  Clean(o.d)
BY DEF MatStep, Kinder, Becomes

(* Steps of the materials compose.                                         *)
LEMMA StepThen ==
  ASSUME NEW m, NEW d, Clean(d), NEW o, MatStep(m, d, o), NEW p, MatStep(o.m, o.d, p)
  PROVE  MatStep(m, d, p)
<1>1. PICK e, n : e = o.d /\ n = o.m
  OBVIOUS
<1>2. Becomes(d, e, PixelKinds, FrameSlots) /\ Becomes(e, p.d, PixelKinds, FrameSlots) /\ OnlyCounts(m, n) /\ OnlyCounts(n, p.m)
  BY <1>1 DEF MatStep, Kinder
<1>3. Becomes(d, p.d, PixelKinds, FrameSlots) /\ OnlyCounts(m, p.m)
  BY <1>2, BecomesThen, CountsThen
<1> QED BY <1>3 DEF MatStep, Kinder

(* What holds of the outcomes of a retirement holds when it is tried       *)
(* again.                                                                  *)
LEMMA RetiredAgain ==
  ASSUME NEW m, NEW d, Clean(d), NEW others, NEW outcomes, \A o \in outcomes : Retired(m, d, others, o),
         NEW p \in Again(outcomes)
  PROVE  Retired(m, d, others, p)
<1>1. PICK o \in outcomes : p \in IF o.ok THEN {o} ELSE RetirePending(o.m, o.d)
  BY DEF Again
<1>2. Retired(m, d, others, o)
  OBVIOUS
<1>3. CASE o.ok
  BY <1>1, <1>2, <1>3
<1>4. CASE ~ o.ok
  <2>1. PICK e, n : e = o.d /\ n = o.m
    OBVIOUS
  <2>2. p \in RetirePending(n, e) /\ Clean(e) /\ MatOwns(n, e, others)
    BY <1>1, <1>2, <1>4, <2>1, StepClean DEF Retired
  <2>3. Retires(n, e, others, p)
    BY <2>2, RetirePendingOwns
  <2>4. MatStep(m, d, p)
    BY <1>2, <2>1, <2>3, StepThen DEF Retired, Retires
  <2> QED BY <2>3, <2>4 DEF Retired, Retires
<1> QED BY <1>3, <1>4

(* finishPendingUpload leaves nothing pending when it succeeds.            *)
LEMMA FinishPendingOwns ==
  ASSUME NEW d, Clean(d), NEW m, NEW others, MatOwns(m, d, others), NEW o \in FinishPending(m, d)
  PROVE  Retired(m, d, others, o)
<1>1. PICK a, b : a = RetirePending(m, d) /\ b = Again(a)
  OBVIOUS
<1>2. \A p \in a : Retired(m, d, others, p)
  BY <1>1, RetirePendingOwns DEF Retires, Retired
<1>3. \A p \in b : Retired(m, d, others, p)
  BY <1>1, <1>2, RetiredAgain
<1>4. o \in Again(b)
  BY <1>1 DEF FinishPending
<1> QED BY <1>3, <1>4, RetiredAgain

(* Images that lose their last reference.                                  *)
AllOf(names) == UNION {ImageObjects(n) : n \in names}

(* Images that are destroyed leave the stock and the budget.               *)
LEMMA StockReleases ==
  ASSUME NEW d, Clean(d), NEW kept, NEW pending, NEW used, Stock(d.held, kept, pending, used),
         NEW names, names \subseteq kept \ pending, Busy(d) \cap AllOf(names) = {},
         NEW e \in {Destroy(d, AllOf(names))}
  PROVE  /\ Stock(e.held, kept \ names, pending, used - Cardinality(names))
         /\ Becomes(d, e, PixelKinds, Works) /\ e.work = d.work /\ e.held = d.held \ AllOf(names)
<1>1. PICK gone : gone = AllOf(names)
  OBVIOUS
<1>2. \A x : x \in gone <=> \E n \in names : x \in ImageObjects(n)
  BY <1>1 DEF AllOf
<1>3. \A x \in gone : x[1] \in ImageKinds /\ x[1] \in PixelKinds /\ x[1] \notin StagingKinds
  BY <1>2, ImageObjectsAre, PixelKindsAre
<1>4. Becomes(d, e, PixelKinds, Works) /\ e.held = d.held \ gone /\ e.work = d.work
  <2>1. gone \cap Busy(d) = {} /\ e = Destroy(d, gone)
    BY <1>1
  <2> QED BY <1>3, <2>1, DestroyBecomes
<1>5. Stock(e.held, kept \ names, pending \ names, used - Cardinality(names))
  <2>1. PICK other : other = e.held
    OBVIOUS
  <2>2. names \subseteq kept /\ pending \ names = pending
    OBVIOUS
  <2>3. \A x : x[1] \in ImageKinds => (x \in other <=> x \in d.held /\ \A n \in names : x \notin ImageObjects(n))
    BY <1>2, <1>4, <2>1
  <2>4. \A x : x[1] \in StagingKinds => (x \in other <=> x \in d.held /\ pending \ names # {})
    <3>1. \A x \in d.held : x[1] \in StagingKinds => pending # {}
      BY DEF Stock
    <3> QED BY <1>3, <1>4, <2>1, <2>2, <3>1
  <2>5. Stock(other, kept \ names, pending \ names, used - Cardinality(names))
    BY <2>2, <2>3, <2>4, StockLoses
  <2> QED BY <2>1, <2>5
<1>6. pending \ names = pending
  OBVIOUS
<1> QED BY <1>1, <1>4, <1>5, <1>6

(* The core of the materials.                                              *)
(* The uniforms of a frame slot.                                           *)
LEMMA FrameBufferMakes ==
  ASSUME NEW held, NEW busy, NEW slot,
         {FrameBuffer(slot), FrameMemory(slot)} \cap held = {}
  PROVE  Makes(<<Make(FrameBuffer(slot), {}), Make(FrameMemory(slot), {}), Call({FrameMemory(slot)})>>, held, busy, {FrameBuffer(slot), FrameMemory(slot)})
<1>1. PICK a, b, c :
        /\ a = Make(FrameBuffer(slot), {})
        /\ b = Make(FrameMemory(slot), {})
        /\ c = Call({FrameMemory(slot)})
  OBVIOUS
<1>2. /\ a.makes = {FrameBuffer(slot)}
      /\ b.makes = {FrameMemory(slot)}
      /\ c.makes = {}
  BY <1>1, CallsMake
<1>3. FitsIn(a, held, busy)
  <2>1. FrameBuffer(slot) \notin held
    BY <1>2 DEF FrameBuffer, FrameMemory
  <2> QED BY <1>1, <2>1, MakeFits
<1>4. FitsIn(b, held \cup (a.makes), busy)
  <2>1. FrameMemory(slot) \notin held \cup (a.makes)
    BY <1>2 DEF FrameBuffer, FrameMemory
  <2> QED BY <1>1, <2>1, MakeFits
<1>5. FitsIn(c, held \cup (a.makes \cup b.makes), busy)
  <2>1. {FrameMemory(slot)} \subseteq held \cup (a.makes \cup b.makes)
    BY <1>2 DEF FrameBuffer, FrameMemory
  <2> QED BY <1>1, <2>1, CallFits
<1>6. Makes(<<a, b, c>>, held, busy, a.makes \cup b.makes \cup c.makes)
  BY <1>3, <1>4, <1>5, MakesThree
<1>7. a.makes \cup b.makes \cup c.makes = {FrameBuffer(slot), FrameMemory(slot)}
  BY <1>2
<1>8. <<a, b, c>> = <<Make(FrameBuffer(slot), {}), Make(FrameMemory(slot), {}), Call({FrameMemory(slot)})>>
  BY <1>1
<1> QED BY <1>6, <1>7, <1>8

(* The layouts of materials.                                               *)
LEMMA LayoutsOfMaterialsMake ==
  ASSUME NEW held, NEW busy,
         {EmptyLayout, MaterialLayout} \cap held = {}
  PROVE  Makes(<<Make(EmptyLayout, {}), Make(MaterialLayout, {})>>, held, busy, {EmptyLayout, MaterialLayout})
<1>1. PICK a, b :
        /\ a = Make(EmptyLayout, {})
        /\ b = Make(MaterialLayout, {})
  OBVIOUS
<1>2. /\ a.makes = {EmptyLayout}
      /\ b.makes = {MaterialLayout}
  BY <1>1, CallsMake
<1>3. FitsIn(a, held, busy)
  <2>1. EmptyLayout \notin held
    BY <1>2 DEF EmptyLayout, MaterialLayout
  <2> QED BY <1>1, <2>1, MakeFits
<1>4. FitsIn(b, held \cup (a.makes), busy)
  <2>1. MaterialLayout \notin held \cup (a.makes)
    BY <1>2 DEF EmptyLayout, MaterialLayout
  <2> QED BY <1>1, <2>1, MakeFits
<1>5. Makes(<<a, b>>, held, busy, a.makes \cup b.makes)
  BY <1>3, <1>4, MakesTwo
<1>6. a.makes \cup b.makes = {EmptyLayout, MaterialLayout}
  BY <1>2
<1>7. <<a, b>> = <<Make(EmptyLayout, {}), Make(MaterialLayout, {})>>
  BY <1>1
<1> QED BY <1>5, <1>6, <1>7

(* The uniform buffer of a frame slot with its memory.                     *)
LEMMA FrameBufferAdds ==
  ASSUME NEW d, Clean(d), NEW slot, {FrameBuffer(slot), FrameMemory(slot)} \cap d.held = {}, NEW o \in FrameBufferMade(d, slot)
  PROVE  Adds(d, o, {FrameBuffer(slot), FrameMemory(slot)})
<1>1. PICK calls, both :
        /\ calls = <<Make(FrameBuffer(slot), {}), Make(FrameMemory(slot), {}), Call({FrameMemory(slot)})>>
        /\ both = {FrameBuffer(slot), FrameMemory(slot)}
  OBVIOUS
<1>2. Makes(calls, d.held, Busy(d), both)
  BY <1>1, FrameBufferMakes
<1>3. \A p \in Try(d, calls) : Adds(d, p, both)
  BY <1>2, TryMakes
<1>4. o \in OnFailure(Try(d, calls), both)
  BY <1>1 DEF FrameBufferMade
<1>5. both \cap d.held = {}
  BY <1>1
<1>6. Adds(d, o, both)
  BY <1>3, <1>4, <1>5, OnFailureAdds
<1> QED BY <1>1, <1>6

CoreUpto(n) ==
  {EmptyLayout, MaterialLayout} \cup {FrameBuffer(s) : s \in 0 .. n - 1} \cup {FrameMemory(s) : s \in 0 .. n - 1}

(* The frame buffers of different slots differ.                            *)
LEMMA FrameBuffersDiffer ==
  ASSUME NEW s, NEW t
  PROVE  /\ FrameBuffer(s) # FrameMemory(t) /\ EmptyLayout # FrameBuffer(s) /\ EmptyLayout # FrameMemory(s)
         /\ MaterialLayout # FrameBuffer(s) /\ MaterialLayout # FrameMemory(s)
         /\ s # t => FrameBuffer(s) # FrameBuffer(t) /\ FrameMemory(s) # FrameMemory(t)
BY DEF FrameBuffer, FrameMemory, EmptyLayout, MaterialLayout

(* The material core grows slot by slot.                                   *)
LEMMA CoreGrows ==
  /\ CoreUpto(0) = {EmptyLayout, MaterialLayout} /\ CoreUpto(FramesInFlight) = MaterialsCore
  /\ \A n \in Nat \ {0} :
       /\ CoreUpto(n) = CoreUpto(n - 1) \cup {FrameBuffer(n - 1), FrameMemory(n - 1)}
       /\ CoreUpto(n - 1) \cap {FrameBuffer(n - 1), FrameMemory(n - 1)} = {}
       /\ n <= FramesInFlight => {FrameBuffer(n - 1), FrameMemory(n - 1)} \subseteq MaterialsCore
<1>1. CoreUpto(0) = {EmptyLayout, MaterialLayout}
  <2>1. 0 .. 0 - 1 = {}
    OBVIOUS
  <2> QED BY <2>1 DEF CoreUpto
<1>2. CoreUpto(FramesInFlight) = MaterialsCore
  BY DEF CoreUpto, MaterialsCore, FrameSlots
<1>3. ASSUME NEW n \in Nat \ {0}
      PROVE  /\ CoreUpto(n) = CoreUpto(n - 1) \cup {FrameBuffer(n - 1), FrameMemory(n - 1)}
             /\ CoreUpto(n - 1) \cap {FrameBuffer(n - 1), FrameMemory(n - 1)} = {}
             /\ n <= FramesInFlight => {FrameBuffer(n - 1), FrameMemory(n - 1)} \subseteq MaterialsCore
  <2>1. \A s : s \in 0 .. n - 1 <=> s \in 0 .. (n - 1) - 1 \/ s = n - 1
    OBVIOUS
  <2>2. CoreUpto(n) = CoreUpto(n - 1) \cup {FrameBuffer(n - 1), FrameMemory(n - 1)}
    BY <2>1 DEF CoreUpto
  <2>3. \A s \in 0 .. (n - 1) - 1 : s # n - 1
    OBVIOUS
  <2>4. \A x \in CoreUpto(n - 1) : x # FrameBuffer(n - 1) /\ x # FrameMemory(n - 1)
    <3>1. TAKE x \in CoreUpto(n - 1)
    <3>2. CASE x \in {EmptyLayout, MaterialLayout}
      BY <3>2, FrameBuffersDiffer
    <3>3. CASE \E s \in 0 .. (n - 1) - 1 : x = FrameBuffer(s)
      <4>1. PICK s \in 0 .. (n - 1) - 1 : x = FrameBuffer(s)
        BY <3>3
      <4> QED BY <2>3, <4>1, FrameBuffersDiffer
    <3>4. CASE \E s \in 0 .. (n - 1) - 1 : x = FrameMemory(s)
      <4>1. PICK s \in 0 .. (n - 1) - 1 : x = FrameMemory(s)
        BY <3>4
      <4> QED BY <2>3, <4>1, FrameBuffersDiffer
    <3> QED BY <3>2, <3>3, <3>4 DEF CoreUpto
  <2>5. n <= FramesInFlight => n - 1 \in FrameSlots
    BY DriverAssumption DEF FrameSlots
  <2> QED BY <2>2, <2>4, <2>5 DEF MaterialsCore
<1> QED BY <1>1, <1>2, <1>3

(* The turns of a loop are natural numbers.                                *)
LEMMA TurnsAre ==
  ASSUME NEW last \in Nat, NEW n \in 1 .. last
  PROVE  n - 1 \in 0 .. last /\ n \in 0 .. last /\ n \in Nat \ {0} /\ n <= last
OBVIOUS

(* The loop that makes the frame buffers adds objects of the core.         *)
LEMMA FrameBuffersAdd ==
  ASSUME NEW d, Clean(d), MaterialsCore \cap d.held = {}, NEW q \in FrameBuffersMade(d)
  PROVE  Adds(d, q, MaterialsCore)
<1>1. PICK items, last, start : last = FramesInFlight /\ items = [k \in 1 .. FramesInFlight |-> k]
                            /\ start = Try(d, <<Make(EmptyLayout, {}), Make(MaterialLayout, {})>>)
  OBVIOUS
<1>2. last \in Nat /\ Len(items) = last
  BY <1>1, DriverAssumption
<1>3. PICK f : IsRun(f, "frame buffer", 0, start, items, last) /\ q \in f[last]
  BY <1>1, <1>2, FrameBufferRun
<1> DEFINE G == [n \in 0 .. last |-> {o \in Reached(f, last) : Adds(d, o, CoreUpto(n))}]
<1>4. \A n \in 0 .. last : \A o \in Reached(f, last) : o \in G[n] <=> Adds(d, o, CoreUpto(n))
  OBVIOUS
<1>5. \A n \in 0 .. last : \A o \in G[n] : Adds(d, o, CoreUpto(n))
  OBVIOUS
<1> HIDE DEF G
<1>6. \A o \in start \cap Reached(f, last) : o \in G[0]
  <2>1. Makes(<<Make(EmptyLayout, {}), Make(MaterialLayout, {})>>, d.held, Busy(d), {EmptyLayout, MaterialLayout})
    <3>1. {EmptyLayout, MaterialLayout} \cap d.held = {}
      BY DEF MaterialsCore
    <3> QED BY <3>1, LayoutsOfMaterialsMake
  <2>2. \A o \in start : Adds(d, o, CoreUpto(0))
    BY <1>1, <2>1, TryMakes, CoreGrows
  <2>3. 0 \in 0 .. last
    BY <1>2
  <2> QED BY <1>4, <2>2, <2>3
<1>7. ASSUME NEW n \in 1 .. last, NEW o \in f[n - 1] \cap G[n - 1],
             NEW p \in Stage("frame buffer", 0, o, items[n]) \cap Reached(f, last)
      PROVE  p \in G[n]
  <2>9. last \in Nat
    BY <1>2
  <2>0. n - 1 \in 0 .. last /\ n \in 0 .. last /\ n \in Nat \ {0} /\ n <= last
    BY <2>9, TurnsAre
  <2>1. n - 1 \in 0 .. last /\ n \in 0 .. last /\ n \in Nat \ {0} /\ n <= FramesInFlight
    BY <1>1, <2>0
  <2>2. Adds(d, o, CoreUpto(n - 1))
    BY <1>5, <2>1
  <2>3. p \in IF o.ok THEN FrameBufferMade(o.d, n - 1) ELSE {o}
    BY <1>1, <2>1 DEF Stage
  <2>4. PICK slot, less, both : slot = n - 1 /\ less = CoreUpto(n - 1) /\ both = {FrameBuffer(slot), FrameMemory(slot)}
    OBVIOUS
  <2>5. /\ CoreUpto(n) = less \cup both /\ less \cap both = {} /\ both \subseteq MaterialsCore
    BY <2>1, <2>4, CoreGrows
  <2>6. Adds(d, p, CoreUpto(n))
    <3>1. CASE o.ok
      <4>1. PICK e : e = o.d
        OBVIOUS
      <4>2. Clean(e) /\ e.held = d.held \cup less /\ d.refusals \in Nat
        BY <2>2, <2>4, <3>1, <4>1, CleanShape DEF Adds
      <4>3. {FrameBuffer(slot), FrameMemory(slot)} \cap e.held = {}
        BY <2>4, <2>5, <4>2
      <4>4. Adds(e, p, {FrameBuffer(slot), FrameMemory(slot)})
        BY <2>3, <2>4, <3>1, <4>1, <4>2, <4>3, FrameBufferAdds
      <4>5. Adds(o.d, p, both) /\ Adds(d, o, less)
        BY <2>2, <2>4, <4>1, <4>4
      <4> QED BY <2>5, <3>1, <4>2, <4>5, AddsMore
    <3>2. CASE ~ o.ok
      <4>1. p = o
        BY <2>3, <3>2
      <4>2. PICK more : more = CoreUpto(n) /\ less \subseteq more
        BY <2>4, <2>5
      <4>3. Adds(d, o, less)
        BY <2>2, <2>4
      <4>4. Adds(d, o, more)
        BY <3>2, <4>2, <4>3, AddsLess
      <4> QED BY <4>1, <4>2, <4>4
    <3> QED BY <3>1, <3>2
  <2> QED BY <1>4, <2>1, <2>6
<1>8. Climbs("frame buffer", 0, start, items, last, f, G)
  BY <1>6, <1>7 DEF Climbs
<1>9. f[last] \subseteq G[last]
  BY <1>2, <1>3, <1>8, RunClimbs
<1>10. last \in 0 .. last
  BY <1>2
<1>11. Adds(d, q, CoreUpto(last))
  BY <1>3, <1>5, <1>9, <1>10
<1> QED BY <1>1, <1>11, CoreGrows

(* The images a state accounts for are now referred to by another.         *)
LEMMA Restored ==
  ASSUME NEW m, NEW d, NEW others, MatOwns(m, d, others), NEW n, MaterialFlags(n),
         n.pending = m.pending, n.used = m.used, NEW more, Stored(n) \cup more = Stored(m) \cup others,
         CoreHolds(n, d.held), EnvironmentHolds(n, d.held)
  PROVE  MatOwns(n, d, more)
<1>1. n.pending \cap (Stored(n) \cup more) = {}
  BY DEF MatOwns
<1>2. Stored(n) \cup n.pending \cup more = Stored(m) \cup m.pending \cup others
  OBVIOUS
<1>3. Stock(d.held, Stored(n) \cup n.pending \cup more, n.pending, n.used)
  BY <1>2 DEF MatOwns
<1> QED BY <1>1, <1>3 DEF MatOwns

-----------------------------------------------------------------------------
(* What preparing materials may create.                                    *)
PrepareKinds == PixelKinds \cup CoreKinds \cup EnvironmentKinds
Readier(d, e) == Becomes(d, e, PrepareKinds, FrameSlots)

(* A change of images takes nothing of the core away.                      *)
LEMMA KinderIsReadier ==
  ASSUME NEW d, NEW e, Kinder(d, e)
  PROVE  Readier(d, e)
<1>1. PixelKinds \subseteq PrepareKinds
  BY DEF PrepareKinds
<1> QED BY <1>1, BecomesWider DEF Kinder, Readier

(* Changes that take nothing of the core away compose.                     *)
LEMMA ReadierThen ==
  ASSUME NEW d, Clean(d), NEW e, Readier(d, e), NEW f, Readier(e, f)
  PROVE  Readier(d, f) /\ Clean(f)
<1>1. Becomes(d, e, PrepareKinds, FrameSlots) /\ Becomes(e, f, PrepareKinds, FrameSlots)
  BY DEF Readier
<1>2. Becomes(d, f, PrepareKinds, FrameSlots)
  BY <1>1, BecomesThen
<1>3. Clean(f)
  BY <1>1 DEF Becomes
<1> QED BY <1>2, <1>3 DEF Readier

(* What is there of the core when these default images were uploaded.      *)
CoreMade(d, names, o) ==
  /\ Readier(d, o.d) /\ o.ok \in BOOLEAN /\ MatOwns(o.m, o.d, {}) /\ IsOutcome(o)
  /\ o.m.device /\ o.m.attemptedCore /\ ~ o.m.ready /\ ~ o.m.brdf /\ o.m.shows = NoSky
  /\ o.ok => o.m.pending = {} /\ MaterialsCore \subseteq o.d.held /\ o.m.defaults = names

(* One more default image in the loop over defaults.                       *)
LEMMA DefaultImageOwns ==
  ASSUME NEW d, Clean(d), NEW o, NEW names, CoreMade(d, names, o), o.ok, NEW name \in Defaults \ names,
         NEW i \in UploadPixels(o.m, o.d, name),
         NEW q, q = IF i.ok THEN [i EXCEPT !.m.defaults = @ \cup {name}] ELSE i
  PROVE  CoreMade(d, names \cup {name}, q)
<1>1. /\ Readier(d, o.d) /\ MatOwns(o.m, o.d, {}) /\ o.m.device /\ o.m.attemptedCore /\ ~ o.m.ready /\ ~ o.m.brdf
      /\ o.m.shows = NoSky /\ o.m.pending = {} /\ MaterialsCore \subseteq o.d.held /\ o.m.defaults = names
  BY DEF CoreMade
<1>2. Clean(o.d) /\ IsMaterials(o.m)
  BY <1>1 DEF Readier, Becomes, MatOwns, MaterialFlags
<1>3. Stored(o.m) = names
  BY <1>1 DEF Stored
<1>4. name \in Names \ (Stored(o.m) \cup {})
  BY <1>3 DEF Names
<1>5. PICK m, e, none : m = o.m /\ e = o.d /\ none = {}
  OBVIOUS
<1>6. Uploads(m, e, name, none, i)
  BY <1>1, <1>2, <1>4, <1>5, UploadPixelsOwns
<1>7. IsOutcome(i)
  BY <1>2, UploadPixelsAlike
<1>8. /\ MatStep(m, e, i) /\ MatOwns(i.m, i.d, IF i.ok THEN none \cup {name} ELSE none)
      /\ i.ok => Busy(i.d) = {} /\ i.m.pending = {}
  BY <1>6 DEF Uploads
<1>9. /\ Kinder(e, i.d) /\ i.ok \in BOOLEAN
      /\ i.m.device /\ i.m.attemptedCore /\ ~ i.m.ready /\ ~ i.m.brdf /\ i.m.shows = NoSky /\ i.m.defaults = names
  BY <1>1, <1>5, <1>8 DEF MatStep, OnlyCounts
<1>10. Readier(d, i.d)
  BY <1>1, <1>5, <1>9, KinderIsReadier, ReadierThen
<1>11. MaterialsCore \subseteq i.d.held
  BY <1>1, <1>5, <1>9, KinderSame, CoreOfMaterials DEF SameOf
<1>12. CASE ~ i.ok
  BY <1>5, <1>7, <1>8, <1>9, <1>10, <1>12 DEF CoreMade
<1>13. CASE i.ok
  <2>1. PICK n, a : n = [a EXCEPT !.defaults = names \cup {name}] /\ a = i.m
    OBVIOUS
  <2>2. MatOwns(a, i.d, {name}) /\ a.pending = {} /\ MaterialFlags(a) /\ IsMaterials(a)
    BY <1>5, <1>8, <1>13, <2>1 DEF MatOwns, MaterialFlags
  <2>3. q.d = i.d /\ q.ok = i.ok /\ q.m = n /\ IsOutcome(q)
    BY <1>7, <1>9, <1>13, <2>1 DEF IsOutcome
  <2>4. /\ n.device /\ n.attemptedCore /\ ~ n.ready /\ ~ n.brdf /\ n.shows = NoSky /\ n.pending = {} /\ n.used = a.used
        /\ n.defaults = names \cup {name} /\ IsMaterials(n)
    BY <1>9, <2>1, <2>2 DEF IsMaterials, NoMaterials
  <2>5. MaterialFlags(n)
    <3>1. names \subseteq Defaults
      BY <1>9, <2>1, <2>2 DEF MaterialFlags
    <3>2. n.device = a.device /\ n.attemptedCore = a.attemptedCore /\ n.ready = a.ready /\ n.brdf = a.brdf
      BY <2>1, <2>2 DEF IsMaterials, NoMaterials
    <3> QED BY <2>2, <2>4, <3>1, <3>2 DEF MaterialFlags
  <2>6. Stored(n) \cup {} = Stored(a) \cup {name}
    BY <1>9, <2>1, <2>4 DEF Stored
  <2>7. CoreHolds(n, i.d.held)
    BY <1>9, <2>1, <2>2, <2>4 DEF MatOwns, CoreHolds
  <2>8. EnvironmentHolds(n, i.d.held)
    BY <1>9, <2>1, <2>2, <2>4 DEF MatOwns, EnvironmentHolds
  <2>9. PICK b, one : b = i.d /\ one = {name}
    OBVIOUS
  <2>10. MatOwns(n, b, none)
    BY <1>5, <2>2, <2>4, <2>5, <2>6, <2>7, <2>8, <2>9, Restored
  <2> QED BY <1>5, <1>9, <1>10, <1>11, <1>13, <2>3, <2>4, <2>9, <2>10 DEF CoreMade
<1> QED BY <1>9, <1>12, <1>13

NamesUpto(items, n) == {items[k] : k \in 1 .. n}

(* A sequence without repetition names one more item each turn.            *)
LEMMA NamesGrow ==
  ASSUME NEW items, NEW last \in Nat, NEW n \in 1 .. last,
         \A i, j \in 1 .. last : items[i] = items[j] => i = j
  PROVE  NamesUpto(items, n) = NamesUpto(items, n - 1) \cup {items[n]} /\ items[n] \notin NamesUpto(items, n - 1)
<1>1. \A k : k \in 1 .. n <=> k \in 1 .. n - 1 \/ k = n
  OBVIOUS
<1>2. \A k \in 1 .. n - 1 : k \in 1 .. last /\ k # n
  OBVIOUS
<1>3. NamesUpto(items, n) = NamesUpto(items, n - 1) \cup {items[n]}
  BY <1>1 DEF NamesUpto
<1>4. items[n] \notin NamesUpto(items, n - 1)
  BY <1>2 DEF NamesUpto
<1> QED BY <1>3, <1>4

(* The defaults are enumerated once each.                                  *)
LEMMA DefaultsInOrder ==
  /\ Len(SetToSeq(Defaults)) \in Nat
  /\ \A i \in 1 .. Len(SetToSeq(Defaults)) : SetToSeq(Defaults)[i] \in Defaults
  /\ \A i, j \in 1 .. Len(SetToSeq(Defaults)) : SetToSeq(Defaults)[i] = SetToSeq(Defaults)[j] => i = j
  /\ NamesUpto(SetToSeq(Defaults), Len(SetToSeq(Defaults))) = Defaults
<1>1. IsFiniteSet(Defaults)
  BY MaterialAssumption
<1>2. PICK items, last : items = SetToSeq(Defaults) /\ last = Cardinality(Defaults)
  OBVIOUS
<1>3. /\ Len(items) = last /\ last \in Nat /\ items \in [1 .. last -> Defaults]
      /\ \A x \in Defaults : \E i \in 1 .. last : items[i] = x
      /\ \A i, j \in 1 .. last : items[i] = items[j] => i = j
  BY <1>1, <1>2, SeqOfSet
<1>4. NamesUpto(items, last) = Defaults
  BY <1>3 DEF NamesUpto
<1> QED BY <1>2, <1>3, <1>4

(* createCore                                                              *)
LEMMA CreateCoreOwns ==
  ASSUME NEW d, Clean(d), NEW m, MatOwns(m, d, {}), m.device, m.attemptedCore, ~ m.ready, m.defaults = {},
         m.pending = {}, ~ m.brdf, m.shows = NoSky, \A x \in d.held : x[1] \notin CoreKinds,
         NEW q \in CreateCore(m, d)
  PROVE  CoreMade(d, Defaults, q)
<1>1. PICK items, last, start : /\ items = SetToSeq(Defaults) /\ last = Len(items)
                                /\ start = Tried(m, FrameBuffersMade(d))
  OBVIOUS
<1>2. last \in Nat
  BY <1>1, DefaultsInOrder
<1>3. PICK f : IsRun(f, "default", 0, start, items, last) /\ q \in f[last]
  BY <1>1, <1>2, DefaultRun
<1> DEFINE G == [n \in 0 .. last |-> {o \in Reached(f, last) : CoreMade(d, NamesUpto(items, n), o)}]
<1>4. \A n \in 0 .. last : \A o \in Reached(f, last) : o \in G[n] <=> CoreMade(d, NamesUpto(items, n), o)
  OBVIOUS
<1>5. \A n \in 0 .. last : \A o \in G[n] : CoreMade(d, NamesUpto(items, n), o)
  OBVIOUS
<1> HIDE DEF G
<1>6. \A o \in start \cap Reached(f, last) : o \in G[0]
  <2>1. ASSUME NEW o \in start
        PROVE  CoreMade(d, NamesUpto(items, 0), o)
    <3>1. PICK p \in FrameBuffersMade(d) : o = [d |-> p.d, m |-> m, ok |-> p.ok]
      BY <1>1 DEF Tried
    <3>2. MaterialsCore \cap d.held = {}
      BY CoreOfMaterials
    <3>3. Adds(d, p, MaterialsCore)
      BY <3>2, FrameBuffersAdd
    <3>4. \A x \in MaterialsCore : x[1] \in PrepareKinds
      BY CoreOfMaterials DEF PrepareKinds
    <3>5. Readier(d, p.d)
      BY <3>3, <3>4, AddsBecomes DEF Readier
    <3>6. /\ Clean(p.d) /\ p.ok \in BOOLEAN /\ p.d.work = d.work /\ d.held \subseteq p.d.held
          /\ p.d.held \subseteq d.held \cup MaterialsCore /\ (p.ok => p.d.held = d.held \cup MaterialsCore)
      BY <3>3 DEF Adds
    <3>7. SameOf(PixelKinds, d.held, p.d.held)
      BY <3>6, CoreOfMaterials, MaterialKindsDiffer DEF SameOf
    <3>8. Stock(p.d.held, Stored(m) \cup m.pending \cup {}, m.pending, m.used)
      BY <3>7, StockSame DEF MatOwns
    <3>9. OneTimeIs(p.d, m.pending)
      BY <3>6 DEF MatOwns, OneTimeIs
    <3>10. CoreHolds(m, p.d.held)
      BY <3>6 DEF MatOwns, CoreHolds
    <3>11. EnvironmentHolds(m, p.d.held)
      <4>1. \A x \in p.d.held : x[1] \in EnvironmentKinds => x \in d.held
        BY <3>6, CoreOfMaterials, MaterialKindsDiffer
      <4>2. EnvironmentSet \in p.d.held => EnvironmentSet \in d.held
        BY <4>1, CoreOfMaterials DEF EnvironmentAll
      <4> QED BY <3>6, <4>1, <4>2 DEF MatOwns, EnvironmentHolds
    <3>12. MatOwns(m, p.d, {})
      BY <3>8, <3>9, <3>10, <3>11 DEF MatOwns
    <3>13. \A k \in 1 .. 0 : FALSE
      OBVIOUS
    <3>14. NamesUpto(items, 0) = {}
      BY <3>13 DEF NamesUpto
    <3>15. o.d = p.d /\ o.m = m /\ o.ok = p.ok /\ IsOutcome(o)
      BY <3>1 DEF IsOutcome
    <3> QED BY <3>5, <3>6, <3>12, <3>14, <3>15 DEF CoreMade
  <2>2. 0 \in 0 .. last
    BY <1>2
  <2> QED BY <1>4, <2>1, <2>2
<1>7. ASSUME NEW n \in 1 .. last, NEW o \in f[n - 1] \cap G[n - 1],
             NEW p \in Stage("default", 0, o, items[n]) \cap Reached(f, last)
      PROVE  p \in G[n]
  <2>1. n - 1 \in 0 .. last /\ n \in 0 .. last
    BY <1>2, TurnsAre
  <2>2. PICK less, name : less = NamesUpto(items, n - 1) /\ name = items[n]
    OBVIOUS
  <2>3. CoreMade(d, less, o)
    BY <1>5, <2>1, <2>2
  <2>4. NamesUpto(items, n) = less \cup {name} /\ name \in Defaults \ less
    <3>1. items[n] \in Defaults /\ \A i, j \in 1 .. last : items[i] = items[j] => i = j
      BY <1>1, DefaultsInOrder
    <3> QED BY <1>2, <2>2, <3>1, NamesGrow
  <2>5. p \in DefaultMade(o, name)
    BY <2>2 DEF Stage
  <2>6. CoreMade(d, less \cup {name}, p)
    <3>1. CASE ~ o.ok
      <4>1. p = o
        BY <2>5, <3>1 DEF DefaultMade
      <4> QED BY <2>3, <3>1, <4>1 DEF CoreMade
    <3>2. CASE o.ok
      <4>1. PICK i \in UploadPixels(o.m, o.d, name) : p = IF i.ok THEN [i EXCEPT !.m.defaults = @ \cup {name}] ELSE i
        BY <2>5, <3>2 DEF DefaultMade
      <4> QED BY <2>3, <2>4, <3>2, <4>1, DefaultImageOwns
    <3> QED BY <3>1, <3>2
  <2> QED BY <1>4, <2>1, <2>4, <2>6
<1>8. Climbs("default", 0, start, items, last, f, G)
  BY <1>6, <1>7 DEF Climbs
<1>9. f[last] \subseteq G[last]
  BY <1>2, <1>3, <1>8, RunClimbs
<1>10. last \in 0 .. last
  BY <1>2
<1>11. CoreMade(d, NamesUpto(items, last), q)
  BY <1>3, <1>5, <1>9, <1>10
<1> QED BY <1>1, <1>11, DefaultsInOrder

(* What preparing materials, or a part of them, leaves behind.             *)
Readies(d, others, o) ==
  /\ Readier(d, o.d) /\ o.ok \in BOOLEAN /\ MatOwns(o.m, o.d, others) /\ IsOutcome(o)
  /\ o.m.device /\ o.m.attemptedCore

(* prepare attempts the core once.                                         *)
LEMMA PrepareCoreOwns ==
  ASSUME NEW d, Clean(d), NEW m, NEW others, MatOwns(m, d, others), m.device, m.pending = {},
         ~ m.ready => others = {}, NEW o \in PrepareCore(m, d)
  PROVE  /\ Readies(d, others, o) /\ (o.ok => o.m.ready /\ o.m.pending = {})
         /\ (m.ready => o.m.ready)
<1>1. MaterialFlags(m) /\ CoreHolds(m, d.held) /\ EnvironmentHolds(m, d.held) /\ IsMaterials(m)
  BY DEF MatOwns, MaterialFlags
<1>2. CASE m.attemptedCore
  <2>1. o = [d |-> d, m |-> m, ok |-> m.ready]
    BY <1>2 DEF PrepareCore
  <2>2. o.d = d /\ o.m = m /\ o.ok = m.ready /\ IsOutcome(o)
    BY <2>1 DEF IsOutcome
  <2>3. Readier(d, d)
    BY BecomesItself DEF Readier
  <2>4. o.ok \in BOOLEAN
    BY <1>1, <2>2 DEF MaterialFlags
  <2> QED BY <1>2, <2>2, <2>3, <2>4 DEF Readies
<1>3. CASE ~ m.attemptedCore
  <2>1. PICK n : n = [m EXCEPT !.attemptedCore = TRUE]
    OBVIOUS
  <2>2. PICK p \in CreateCore(n, d) : o = [p EXCEPT !.m.ready = p.ok]
    BY <1>3, <2>1 DEF PrepareCore
  <2>3. ~ m.ready /\ m.defaults = {} /\ (\A x \in d.held : x[1] \notin CoreKinds) /\ ~ m.brdf /\ m.shows = NoSky
    BY <1>1, <1>3 DEF CoreHolds, EnvironmentHolds
  <2>4. others = {}
    BY <2>3
  <2>5. /\ n.device /\ n.attemptedCore /\ ~ n.ready /\ n.defaults = {} /\ n.pending = {} /\ n.used = m.used
        /\ ~ n.brdf /\ n.shows = NoSky /\ IsMaterials(n) /\ n.device = m.device /\ n.ready = m.ready /\ n.brdf = m.brdf
    BY <1>1, <2>1, <2>3 DEF IsMaterials, NoMaterials
  <2>6. MatOwns(n, d, {})
    <3>1. n.attemptedCore = TRUE
      BY <1>1, <2>1 DEF IsMaterials, NoMaterials
    <3>2. MaterialFlags(n)
      BY <1>1, <2>3, <2>5, <3>1 DEF MaterialFlags
    <3>3. CoreHolds(n, d.held)
      BY <1>1, <2>5 DEF CoreHolds
    <3>4. EnvironmentHolds(n, d.held)
      BY <1>1, <2>3, <2>5 DEF EnvironmentHolds
    <3>5. Stored(n) = Stored(m)
      BY <2>3, <2>5 DEF Stored
    <3>6. PICK none : none = {}
      OBVIOUS
    <3>7. MatOwns(m, d, none) /\ Stored(n) \cup none = Stored(m) \cup none /\ n.pending = m.pending
      BY <2>4, <2>5, <3>5, <3>6
    <3>8. MatOwns(n, d, none)
      BY <2>5, <3>2, <3>3, <3>4, <3>7, Restored
    <3> QED BY <3>6, <3>8
  <2>7. CoreMade(d, Defaults, p)
    BY <2>2, <2>3, <2>5, <2>6, CreateCoreOwns
  <2>8. /\ Readier(d, p.d) /\ p.ok \in BOOLEAN /\ MatOwns(p.m, p.d, {}) /\ IsOutcome(p)
        /\ p.m.device /\ p.m.attemptedCore /\ ~ p.m.ready /\ ~ p.m.brdf /\ p.m.shows = NoSky
        /\ p.ok => p.m.pending = {} /\ MaterialsCore \subseteq p.d.held /\ p.m.defaults = Defaults
    BY <2>7 DEF CoreMade
  <2>9. PICK a, k, e, b : a = p.m /\ k = [a EXCEPT !.ready = b] /\ e = p.d /\ b = p.ok
    OBVIOUS
  <2>10. o.d = e /\ o.m = k /\ o.ok = b /\ IsOutcome(o)
    BY <2>2, <2>8, <2>9 DEF IsOutcome
  <2>11. MaterialFlags(a) /\ CoreHolds(a, e.held) /\ EnvironmentHolds(a, e.held) /\ IsMaterials(a) /\ MatOwns(a, e, {})
    BY <2>8, <2>9 DEF MatOwns, MaterialFlags
  <2>12. /\ k.device = a.device /\ k.attemptedCore = a.attemptedCore /\ k.ready = b /\ k.defaults = a.defaults
         /\ k.pending = a.pending /\ k.used = a.used /\ k.brdf = a.brdf /\ k.shows = a.shows /\ IsMaterials(k)
    BY <2>9, <2>11 DEF IsMaterials, NoMaterials
  <2>13. a.device /\ a.attemptedCore /\ ~ a.brdf /\ a.shows = NoSky /\ ~ a.ready /\ b \in BOOLEAN
    BY <2>8, <2>9
  <2>14. MaterialFlags(k)
    BY <2>11, <2>12, <2>13 DEF MaterialFlags
  <2>15. CoreHolds(k, e.held)
    <3>1. b => a.pending = {} /\ MaterialsCore \subseteq e.held /\ a.defaults = Defaults
      BY <2>8, <2>9
    <3> QED BY <2>11, <2>12, <2>13, <3>1 DEF CoreHolds
  <2>16. EnvironmentHolds(k, e.held)
    BY <2>11, <2>12, <2>13 DEF EnvironmentHolds
  <2>17. Stored(k) = Stored(a)
    BY <2>12 DEF Stored
  <2>18. PICK none : none = {}
    OBVIOUS
  <2>19. MatOwns(a, e, none) /\ Stored(k) \cup none = Stored(a) \cup none
    BY <2>11, <2>17, <2>18
  <2>20. MatOwns(k, e, none)
    BY <2>12, <2>14, <2>15, <2>16, <2>19, Restored
  <2>21. Readies(d, {}, o)
    BY <2>8, <2>9, <2>10, <2>12, <2>13, <2>18, <2>20 DEF Readies
  <2>22. o.ok => o.m.ready /\ o.m.pending = {}
    BY <2>8, <2>9, <2>10, <2>12
  <2> QED BY <2>3, <2>4, <2>21, <2>22
<1> QED BY <1>2, <1>3

-----------------------------------------------------------------------------
(* Objects that are made when they are missing.                            *)
EnsuredBy(d, objects, o) ==
  /\ Clean(o.d) /\ o.ok \in BOOLEAN /\ o.d.work = d.work /\ o.d.refusals >= d.refusals /\ o.d.refusals \in Nat
  /\ d.held \subseteq o.d.held /\ o.d.held \subseteq d.held \cup objects
  /\ o.ok => objects \subseteq o.d.held

(* An object created unless it exists is there when that succeeds.         *)
LEMMA EnsuredMakes ==
  ASSUME NEW d, Clean(d), NEW object, NEW needs, needs \subseteq d.held, NEW o \in Ensured(d, object, needs)
  PROVE  EnsuredBy(d, {object}, o)
<1>1. d.refusals \in Nat
  BY CleanShape
<1>2. CASE object \in d.held
  <2>1. o.d = d /\ o.ok = TRUE
    BY <1>2 DEF Ensured, Returns
  <2>2. d.refusals >= d.refusals
    BY <1>1
  <2> QED BY <1>1, <1>2, <2>1, <2>2 DEF EnsuredBy
<1>3. CASE object \notin d.held
  <2>1. o \in Try(d, <<Make(object, needs)>>)
    BY <1>3 DEF Ensured
  <2>2. PICK held, busy : held = d.held /\ busy = Busy(d)
    OBVIOUS
  <2>3. FitsIn(Make(object, needs), held, busy)
    BY <1>3, <2>2, MakeFits
  <2>4. Makes(<<Make(object, needs)>>, held, busy, Make(object, needs).makes)
    BY <2>3, MakesOne
  <2>5. Makes(<<Make(object, needs)>>, d.held, Busy(d), {object})
    <3>1. Make(object, needs).makes = {object}
      BY DEF Make
    <3> QED BY <2>2, <2>4, <3>1
  <2>6. Adds(d, o, {object})
    BY <2>1, <2>5, TryMakes
  <2>7. Clean(o.d)
    BY <2>6 DEF Adds
  <2>8. o.d.refusals \in Nat
    BY <2>7, CleanShape
  <2>9. o.d.refusals >= d.refusals
    BY <1>1, <2>6 DEF Adds
  <2> QED BY <2>6, <2>8, <2>9 DEF EnsuredBy, Adds
<1> QED BY <1>2, <1>3

(* Objects ensured in turn are all there when the last succeeds.           *)
LEMMA EnsuredThen ==
  ASSUME NEW d, d.refusals \in Nat, NEW first, NEW o, EnsuredBy(d, first, o), NEW then, NEW p,
         IF o.ok THEN EnsuredBy(o.d, then, p) ELSE p = o
  PROVE  EnsuredBy(d, first \cup then, p)
<1>1. CASE ~ o.ok
  BY <1>1 DEF EnsuredBy
<1>2. CASE o.ok
  <2>1. p.d.refusals >= d.refusals
    BY <1>2 DEF EnsuredBy
  <2>2. first \subseteq o.d.held
    BY <1>2 DEF EnsuredBy
  <2> QED BY <1>2, <2>1, <2>2 DEF EnsuredBy
<1> QED BY <1>1, <1>2 DEF EnsuredBy

(* createEnvironmentDescriptors                                            *)
LEMMA EnvironmentMadeEnsures ==
  ASSUME NEW d, Clean(d), EnvironmentSet \in d.held => EnvironmentPool \in d.held, NEW o \in EnvironmentMade(d)
  PROVE  EnsuredBy(d, EnvironmentAll, o) /\ (EnvironmentSet \in o.d.held => EnvironmentPool \in o.d.held)
<1> DEFINE S0 == <<"environment sampler", 0>>
           S1 == <<"environment sampler", 1>>
<1>1. PICK r \in AndThen(AndThen(AndThen(Ensured(d, EnvironmentLayout, {}),
                                  LAMBDA e : Ensured(e, <<"environment sampler", 0>>, {})),
                          LAMBDA e : Ensured(e, <<"environment sampler", 1>>, {})),
                  LAMBDA e : Ensured(e, EnvironmentPool, {})) :
        IF r.ok THEN o \in Ensured(r.d, EnvironmentSet, {EnvironmentPool, EnvironmentLayout}) ELSE o = r
  BY DEF EnvironmentMade, AndThen
<1>2. PICK c \in AndThen(AndThen(Ensured(d, EnvironmentLayout, {}),
                                  LAMBDA e : Ensured(e, <<"environment sampler", 0>>, {})),
                          LAMBDA e : Ensured(e, <<"environment sampler", 1>>, {})) :
        IF c.ok THEN r \in Ensured(c.d, EnvironmentPool, {}) ELSE r = c
  BY <1>1 DEF AndThen
<1>3. PICK b \in AndThen(Ensured(d, EnvironmentLayout, {}),
                                  LAMBDA e : Ensured(e, <<"environment sampler", 0>>, {})) :
        IF b.ok THEN c \in Ensured(b.d, S1, {}) ELSE c = b
  BY <1>2 DEF AndThen
<1>4. PICK a \in Ensured(d, EnvironmentLayout, {}) :
        IF a.ok THEN b \in Ensured(a.d, S0, {}) ELSE b = a
  BY <1>3 DEF AndThen
<1>5. d.refusals \in Nat
  BY CleanShape
<1>6. EnsuredBy(d, {EnvironmentLayout}, a)
  BY <1>4, EnsuredMakes
<1>7. EnsuredBy(d, {EnvironmentLayout} \cup {S0}, b)
  <2>1. Clean(a.d)
    BY <1>6 DEF EnsuredBy
  <2>2. IF a.ok THEN EnsuredBy(a.d, {S0}, b) ELSE b = a
    BY <1>4, <2>1, EnsuredMakes
  <2> QED BY <1>5, <1>6, <2>2, EnsuredThen
<1>8. EnsuredBy(d, ({EnvironmentLayout} \cup {S0}) \cup {S1}, c)
  <2>1. Clean(b.d)
    BY <1>7 DEF EnsuredBy
  <2>2. IF b.ok THEN EnsuredBy(b.d, {S1}, c) ELSE c = b
    BY <1>3, <2>1, EnsuredMakes
  <2> QED BY <1>5, <1>7, <2>2, EnsuredThen
<1>9. PICK most : most = (({EnvironmentLayout} \cup {S0}) \cup {S1}) \cup {EnvironmentPool}
  OBVIOUS
<1>10. EnsuredBy(d, most, r)
  <2>1. Clean(c.d)
    BY <1>8 DEF EnsuredBy
  <2>2. IF c.ok THEN EnsuredBy(c.d, {EnvironmentPool}, r) ELSE r = c
    BY <1>2, <2>1, EnsuredMakes
  <2> QED BY <1>5, <1>8, <1>9, <2>2, EnsuredThen
<1>11. EnvironmentAll = most \cup {EnvironmentSet} /\ EnvironmentSet \notin most /\ EnvironmentPool \in most
  BY <1>9 DEF EnvironmentAll, EnvironmentSamplers, EnvironmentSet, EnvironmentLayout, EnvironmentPool
<1>12. IF r.ok THEN EnsuredBy(r.d, {EnvironmentSet}, o) ELSE o = r
  <2>1. Clean(r.d) /\ (r.ok => {EnvironmentPool, EnvironmentLayout} \subseteq r.d.held)
    BY <1>9, <1>10 DEF EnsuredBy
  <2> QED BY <1>1, <2>1, EnsuredMakes
<1>13. EnsuredBy(d, EnvironmentAll, o)
  BY <1>5, <1>10, <1>11, <1>12, EnsuredThen
<1>14. EnvironmentSet \in o.d.held => EnvironmentPool \in o.d.held
  <2>1. CASE r.ok
    BY <1>10, <1>11, <1>12, <2>1 DEF EnsuredBy
  <2>2. CASE ~ r.ok
    <3>1. o.d = r.d
      BY <1>12, <2>2
    <3>2. d.held \subseteq r.d.held /\ r.d.held \subseteq d.held \cup most
      BY <1>10 DEF EnsuredBy
    <3> QED BY <1>11, <3>1, <3>2
  <2> QED BY <2>1, <2>2
<1> QED BY <1>13, <1>14

(* ~TextureImage, for images that only `others` named.                     *)
Releases(d, m, names, more, r) ==
  /\ Kinder(d, r.d) /\ OnlyCounts(m, r.m) /\ MatOwns(r.m, r.d, more) /\ r.d.work = d.work
  /\ r.d.held = d.held \ AllOf(names) /\ r.m.pending = m.pending

(* Images released for good leave the stock and the budget.                *)
LEMMA ReleasedOwns ==
  ASSUME NEW d, Clean(d), NEW m, m.device, NEW others, MatOwns(m, d, others), NEW names, names \subseteq others,
         NEW more \in {others \ names}, names \cap Stored(m) = {},
         Busy(d) \cap AllOf(names) = {}, NEW r \in {Released(m, d, names)}
  PROVE  Releases(d, m, names, more, r)
<1>1. PICK e : e \in {Destroy(d, AllOf(names))}
  OBVIOUS
<1>2. r.d = e /\ r.m = [m EXCEPT !.used = @ - Cardinality(names)]
  BY <1>1 DEF Released, AllOf
<1>3. PICK kept : kept = Stored(m) \cup m.pending \cup others
  OBVIOUS
<1>4. MaterialFlags(m) /\ IsMaterials(m) /\ m.pending \cap (Stored(m) \cup others) = {} /\ Stock(d.held, kept, m.pending, m.used)
  BY <1>3 DEF MatOwns, MaterialFlags
<1>5. names \subseteq kept \ m.pending
  BY <1>3, <1>4
<1>6. /\ Stock(e.held, kept \ names, m.pending, m.used - Cardinality(names))
      /\ Becomes(d, e, PixelKinds, Works) /\ e.work = d.work
      /\ e.held = d.held \ AllOf(names)
  BY <1>1, <1>4, <1>5, StockReleases
<1>7. Kinder(d, e)
  BY <1>6, SlotsAreWorks DEF Kinder, Becomes
<1>8. OnlyCounts(m, r.m) /\ r.m.pending = m.pending /\ r.m.used = m.used - Cardinality(names)
  BY <1>2, <1>4 DEF OnlyCounts, IsMaterials, NoMaterials
<1>9. Stored(r.m) = Stored(m)
  BY <1>8 DEF Stored, OnlyCounts
<1>10. kept \ names = Stored(r.m) \cup r.m.pending \cup more
  BY <1>3, <1>4, <1>8, <1>9
<1>11. Stock(r.d.held, Stored(r.m) \cup r.m.pending \cup more, r.m.pending, r.m.used)
  BY <1>2, <1>6, <1>8, <1>10
<1>12. OneTimeIs(r.d, r.m.pending)
  BY <1>2, <1>6, <1>8 DEF MatOwns, OneTimeIs
<1>13. r.m.pending \cap (Stored(r.m) \cup more) = {}
  BY <1>4, <1>8, <1>9
<1>14. MaterialFlags(r.m)
  BY <1>4, <1>8 DEF MaterialFlags, OnlyCounts
<1>15. CoreHolds(r.m, r.d.held) /\ EnvironmentHolds(r.m, r.d.held)
  <2>1. PICK n, other : n = r.m /\ other = r.d.held
    OBVIOUS
  <2>2. SameOf(CoreKinds \cup EnvironmentKinds, d.held, other)
    BY <1>2, <1>7, <2>1, KinderSame
  <2>3. CoreHolds(m, d.held) /\ EnvironmentHolds(m, d.held) /\ OnlyCounts(m, n)
    BY <1>8, <2>1 DEF MatOwns
  <2>4. m.attemptedCore \/ n.pending = {}
    BY <1>8, <2>1, <2>3 DEF CoreHolds
  <2>5. CoreHolds(n, other) /\ EnvironmentHolds(n, other)
    BY <2>2, <2>3, <2>4, RestHolds
  <2> QED BY <2>1, <2>5
<1>16. MatOwns(r.m, r.d, more)
  BY <1>11, <1>12, <1>13, <1>14, <1>15 DEF MatOwns
<1> QED BY <1>2, <1>6, <1>7, <1>8, <1>16 DEF Releases

-----------------------------------------------------------------------------
(* Only what a frame finds prepared differs.                               *)
SameImages(m, n) ==
  /\ IsMaterials(n)
  /\ n.device = m.device /\ n.attemptedCore = m.attemptedCore /\ n.ready = m.ready
  /\ n.defaults = m.defaults /\ n.brdf = m.brdf /\ n.shows = m.shows
  /\ n.pending = m.pending /\ n.used = m.used

(* Changes of the gate and the prepared mark keep the materials owned.     *)
LEMMA SameImagesOwn ==
  ASSUME NEW m, NEW d, NEW others, MatOwns(m, d, others), m.device, NEW n, SameImages(m, n)
  PROVE  MatOwns(n, d, others)
<1>1. Stored(n) = Stored(m)
  BY DEF Stored, SameImages
<1>2. CoreHolds(n, d.held) /\ EnvironmentHolds(n, d.held) /\ MaterialFlags(n)
  BY DEF SameImages, MatOwns, CoreHolds, EnvironmentHolds, MaterialFlags
<1> QED BY <1>1, <1>2 DEF MatOwns, SameImages

(* Setting gate or prepared mark changes no image.                         *)
LEMMA GateOnly ==
  ASSUME NEW m, IsMaterials(m), NEW gate, DOMAIN gate = DOMAIN FreshGate, NEW p
  PROVE  /\ SameImages(m, [m EXCEPT !.gate = gate]) /\ SameImages(m, [m EXCEPT !.prepared = p])
         /\ SameImages(m, [m EXCEPT !.prepared = p, !.gate = gate])
BY DEF SameImages, IsMaterials, NoMaterials

-----------------------------------------------------------------------------
(* The reflections.                                                        *)
(* The lobe table, made once.                                              *)
LEMMA TableMadeOwns ==
  ASSUME NEW d, Clean(d), NEW m, NEW others, MatOwns(m, d, others), m.device, m.attemptedCore, m.ready, m.pending = {},
         others \subseteq Contents, NEW o \in TableMade(m, d)
  PROVE  /\ Readies(d, others, o) /\ o.m.ready /\ o.m.shows = m.shows
         /\ o.ok => o.m.brdf /\ o.m.pending = {}
<1>1. MaterialFlags(m) /\ CoreHolds(m, d.held) /\ EnvironmentHolds(m, d.held) /\ IsMaterials(m)
  BY DEF MatOwns, MaterialFlags
<1>2. CASE m.brdf
  <2>1. o.d = d /\ o.m = m /\ o.ok = TRUE /\ IsOutcome(o)
    BY <1>2 DEF TableMade, IsOutcome
  <2>2. Readier(d, d)
    BY BecomesItself DEF Readier
  <2> QED BY <1>2, <2>1, <2>2 DEF Readies
<1>3. CASE ~ m.brdf
  <2>1. PICK i \in UploadPixels(m, d, BrdfTable) : o = IF i.ok THEN [i EXCEPT !.m.brdf = TRUE] ELSE i
    BY <1>3 DEF TableMade
  <2>2. BrdfTable \in Names \ (Stored(m) \cup others)
    BY <1>1, <1>3, MaterialAssumption DEF Names, Stored, MaterialFlags, EnvironmentHolds
  <2>3. Uploads(m, d, BrdfTable, others, i) /\ IsOutcome(i)
    BY <1>1, <2>1, <2>2, UploadPixelsOwns, UploadPixelsAlike
  <2>4. /\ MatStep(m, d, i) /\ MatOwns(i.m, i.d, IF i.ok THEN others \cup {BrdfTable} ELSE others)
        /\ i.ok => i.m.pending = {}
    BY <2>3 DEF Uploads
  <2>5. /\ Kinder(d, i.d) /\ i.ok \in BOOLEAN /\ IsMaterials(i.m)
        /\ i.m.device /\ i.m.attemptedCore /\ i.m.ready /\ ~ i.m.brdf /\ i.m.shows = m.shows /\ i.m.defaults = m.defaults
    BY <1>3, <2>4 DEF MatStep, OnlyCounts
  <2>6. Readier(d, i.d)
    BY <2>5, KinderIsReadier
  <2>7. CASE ~ i.ok
    <3>1. o = i
      BY <2>1, <2>7
    <3> QED BY <2>3, <2>4, <2>5, <2>6, <2>7, <3>1 DEF Readies
  <2>8. CASE i.ok
    <3>1. PICK a, n, e, more : a = i.m /\ n = [a EXCEPT !.brdf = TRUE] /\ e = i.d /\ more = others \cup {BrdfTable}
      OBVIOUS
    <3>2. o.d = e /\ o.m = n /\ o.ok = i.ok /\ IsOutcome(o)
      BY <2>1, <2>3, <2>8, <3>1 DEF IsOutcome
    <3>3. MatOwns(a, e, more) /\ MaterialFlags(a) /\ CoreHolds(a, e.held) /\ EnvironmentHolds(a, e.held)
      BY <2>4, <2>8, <3>1 DEF MatOwns
    <3>4. /\ n.device = a.device /\ n.attemptedCore = a.attemptedCore /\ n.ready = a.ready /\ n.defaults = a.defaults
          /\ n.pending = a.pending /\ n.used = a.used /\ n.brdf = TRUE /\ n.shows = a.shows /\ IsMaterials(n)
      BY <2>5, <3>1 DEF IsMaterials, NoMaterials
    <3>5. a.ready /\ a.device /\ ~ a.brdf
      BY <2>5, <3>1
    <3>6. MaterialFlags(n)
      BY <3>3, <3>4, <3>5 DEF MaterialFlags
    <3>7. CoreHolds(n, e.held)
      BY <3>3, <3>4 DEF CoreHolds
    <3>8. EnvironmentHolds(n, e.held)
      BY <3>3, <3>4, <3>5 DEF EnvironmentHolds
    <3>9. Stored(n) \cup others = Stored(a) \cup more
      BY <3>1, <3>4, <3>5 DEF Stored
    <3>10. MatOwns(n, e, others)
      BY <3>3, <3>4, <3>6, <3>7, <3>8, <3>9, Restored
    <3> QED BY <2>4, <2>5, <2>6, <2>8, <3>1, <3>2, <3>4, <3>10 DEF Readies
  <2> QED BY <2>5, <2>7, <2>8
<1> QED BY <1>1, <1>2, <1>3 DEF MaterialFlags

(* The rest of prepareEnvironment, once both images are there.             *)
LEMMA BindOwns ==
  ASSUME NEW d, Clean(d), NEW m, NEW others, NEW sky \in Skies, MatOwns(m, d, others \cup {sky}),
         m.device, m.attemptedCore, m.ready, m.pending = {}, m.brdf, m.shows # sky, Busy(d) = {},
         others \subseteq Contents, NEW o \in BindEnvironment(m, d, sky)
  PROVE  Readies(d, others, o) /\ o.m.ready
<1>1. PICK b \in EnvironmentMade(d) :
        o = Answers(IF b.ok THEN Replace(m, b.d, sky) ELSE Released(m, b.d, {sky}), b.ok)
  BY DEF BindEnvironment
<1>2. MaterialFlags(m) /\ CoreHolds(m, d.held) /\ EnvironmentHolds(m, d.held) /\ IsMaterials(m)
  BY DEF MatOwns, MaterialFlags
<1>3. /\ EnsuredBy(d, EnvironmentAll, b) /\ (EnvironmentSet \in b.d.held => EnvironmentPool \in b.d.held)
  BY <1>1, <1>2, EnvironmentMadeEnsures DEF EnvironmentHolds
<1>4. PICK e : e = b.d
  OBVIOUS
<1>5. /\ Clean(e) /\ b.ok \in BOOLEAN /\ e.work = d.work /\ e.refusals >= d.refusals /\ d.held \subseteq e.held
      /\ e.held \subseteq d.held \cup EnvironmentAll /\ (b.ok => EnvironmentAll \subseteq e.held)
  BY <1>3, <1>4 DEF EnsuredBy
<1>6. Busy(e) = {}
  BY <1>5, WorkIsBusy
<1>7. Readier(d, e)
  BY <1>5, CoreOfMaterials DEF Readier, Becomes, PrepareKinds
<1>8. PICK more : more = others \cup {sky}
  OBVIOUS
<1>9. MatOwns(m, e, more)
  <2>1. SameOf(PixelKinds, d.held, e.held)
    BY <1>5, CoreOfMaterials, MaterialKindsDiffer DEF SameOf
  <2>2. Stock(e.held, Stored(m) \cup m.pending \cup more, m.pending, m.used)
    BY <1>8, <2>1, StockSame DEF MatOwns
  <2>3. OneTimeIs(e, m.pending)
    BY <1>5 DEF MatOwns, OneTimeIs
  <2>4. CoreHolds(m, e.held)
    BY <1>2, <1>5, CoreOfMaterials, MaterialKindsDiffer DEF CoreHolds
  <2>5. EnvironmentHolds(m, e.held)
    BY <1>2, <1>3, <1>4, <1>5 DEF EnvironmentHolds
  <2> QED BY <1>8, <2>2, <2>3, <2>4, <2>5 DEF MatOwns
<1>10. sky \notin Contents /\ sky \notin Defaults /\ sky # BrdfTable /\ sky # NoSky
  BY MaterialAssumption
<1>11. Stored(m) = m.defaults \cup {BrdfTable} \cup (IF m.shows = NoSky THEN {} ELSE {m.shows}) /\ m.defaults \subseteq Defaults
  BY <1>2 DEF Stored, MaterialFlags
<1>12. sky \notin Stored(m) /\ sky \notin others /\ sky \in more
  BY <1>8, <1>10, <1>11
<1>13. CASE ~ b.ok
  <2>8. PICK names : names = {sky}
    OBVIOUS
  <2>1. PICK r : r \in {Released(m, e, names)}
    OBVIOUS
  <2>2. o.d = r.d /\ o.m = r.m /\ o.ok = b.ok /\ IsOutcome(o)
    BY <1>1, <1>4, <1>13, <2>1, <2>8 DEF Answers, IsOutcome
  <2>3. others \in {more \ names} /\ names \cap Stored(m) = {} /\ names \subseteq more
    BY <1>8, <1>12, <2>8
  <2>6. Busy(e) \cap AllOf(names) = {}
    BY <1>6
  <2>7. Releases(e, m, names, others, r)
    BY <1>5, <1>9, <2>1, <2>3, <2>6, ReleasedOwns
  <2>4. Kinder(e, r.d) /\ OnlyCounts(m, r.m) /\ MatOwns(r.m, r.d, others)
    BY <2>7 DEF Releases
  <2>5. Readier(d, r.d)
    BY <1>7, <2>4, KinderIsReadier, ReadierThen
  <2> QED BY <1>5, <2>2, <2>4, <2>5 DEF Readies, OnlyCounts
<1>14. CASE b.ok
  <2>1. PICK n, g, old :
          /\ n = [m EXCEPT !.shows = sky, !.written = sky, !.prepared = TRUE, !.gate = Completed(@)]
          /\ g = Rewrite(e, {EnvironmentSet, ImageView(sky), ImageView(BrdfTable)}) /\ old = {m.shows} \ {NoSky, sky}
    OBVIOUS
  <2>2. PICK r : r = Released(n, g, old)
    OBVIOUS
  <2>3. o.d = r.d /\ o.m = r.m /\ o.ok = b.ok /\ IsOutcome(o)
    BY <1>1, <1>4, <1>14, <2>1, <2>2 DEF Answers, IsOutcome, Replace
  <2>4. g = e
    <3>1. ImageView(sky) \in e.held /\ ImageView(BrdfTable) \in e.held
      BY <1>9, <1>11, <1>12 DEF MatOwns, Stock
    <3>2. EnvironmentSet \in e.held
      BY <1>5, <1>14 DEF EnvironmentAll
    <3> QED BY <1>5, <1>6, <2>1, <3>1, <3>2, RewriteIsClean
  <2>5. /\ n.device = m.device /\ n.attemptedCore = m.attemptedCore /\ n.ready = m.ready /\ n.defaults = m.defaults
        /\ n.pending = m.pending /\ n.used = m.used /\ n.brdf = m.brdf /\ n.shows = sky /\ IsMaterials(n)
    <3>1. PICK c : c = Completed(m.gate)
      OBVIOUS
    <3>2. DOMAIN c = DOMAIN FreshGate
      BY <1>2, <3>1, AttemptingKept DEF IsMaterials
    <3>3. n = [m EXCEPT !.shows = sky, !.written = sky, !.prepared = TRUE, !.gate = c]
      BY <2>1, <3>1
    <3> QED BY <1>2, <3>2, <3>3 DEF IsMaterials, NoMaterials
  <2>6. MaterialFlags(n)
    BY <1>2, <2>5 DEF MaterialFlags
  <2>7. CoreHolds(n, e.held)
    BY <1>9, <2>5 DEF MatOwns, CoreHolds
  <2>8. EnvironmentHolds(n, e.held)
    BY <1>5, <1>9, <1>14, <2>5 DEF MatOwns, EnvironmentHolds
  <2>9. Stored(n) = m.defaults \cup {BrdfTable} \cup {sky}
    BY <1>10, <2>5 DEF Stored
  <2>10. PICK both : both = others \cup old
    OBVIOUS
  <2>11. Stored(n) \cup both = Stored(m) \cup more
    BY <1>8, <1>11, <2>1, <2>9, <2>10
  <2>12. MatOwns(n, e, both)
    BY <1>9, <2>5, <2>6, <2>7, <2>8, <2>11, Restored
  <2>13. m.shows \in Skies \cup {NoSky}
    BY <1>2 DEF EnvironmentHolds
  <2>14. old \subseteq both /\ others \in {both \ old} /\ old \cap Stored(n) = {}
    BY <1>2, <2>1, <2>9, <2>10, <2>13, MaterialAssumption DEF MaterialFlags
  <2>15. Busy(e) \cap AllOf(old) = {}
    BY <1>6
  <2>16. r \in {Released(n, e, old)}
    BY <2>2, <2>4
  <2>19. Clean(e) /\ n.device
    BY <1>5, <2>5
  <2>20. Releases(e, n, old, others, r)
    BY <2>12, <2>14, <2>15, <2>16, <2>19, ReleasedOwns
  <2>17. Kinder(e, r.d) /\ OnlyCounts(n, r.m) /\ MatOwns(r.m, r.d, others)
    BY <2>20 DEF Releases
  <2>18. Readier(d, r.d)
    BY <1>7, <2>17, KinderIsReadier, ReadierThen
  <2> QED BY <1>5, <2>3, <2>5, <2>17, <2>18 DEF Readies, OnlyCounts
<1> QED BY <1>5, <1>13, <1>14

(* What an upload makes of materials that are ready.                       *)
LEMMA UploadReadies ==
  ASSUME NEW d, Clean(d), NEW m, NEW others, MatOwns(m, d, others), m.device, m.attemptedCore, m.pending = {},
         NEW name \in Names \ (Stored(m) \cup others), NEW o \in UploadPixels(m, d, name),
         NEW more, more = IF o.ok THEN others \cup {name} ELSE others
  PROVE  /\ Readies(d, more, o) /\ (o.ok => Busy(o.d) = {} /\ o.m.pending = {})
         /\ OnlyCounts(m, o.m)
<1>1. MaterialFlags(m) /\ IsMaterials(m)
  BY DEF MatOwns, MaterialFlags
<1>2. Uploads(m, d, name, others, o) /\ IsOutcome(o)
  BY <1>1, UploadPixelsOwns, UploadPixelsAlike
<1>3. /\ MatStep(m, d, o) /\ MatOwns(o.m, o.d, more)
      /\ o.ok => Busy(o.d) = {} /\ o.m.pending = {}
  BY <1>2 DEF Uploads
<1>4. Kinder(d, o.d) /\ o.ok \in BOOLEAN /\ OnlyCounts(m, o.m)
  BY <1>3 DEF MatStep
<1>5. Readier(d, o.d)
  BY <1>4, KinderIsReadier
<1> QED BY <1>2, <1>3, <1>4, <1>5 DEF Readies, OnlyCounts

(* The reflections of a sky that are not at hand.                          *)
LEMMA EnvironmentOwns ==
  ASSUME NEW d, Clean(d), NEW m, NEW others, MatOwns(m, d, others), m.device, m.attemptedCore, m.ready,
         m.pending = {}, others \subseteq Contents, NEW sky \in Skies, m.shows # sky,
         NEW o \in Environment(m, d, sky)
  PROVE  Readies(d, others, o) /\ o.m.ready
<1>1. PICK q \in Continue(TableMade(m, d), LAMBDA n, e : UploadPixels(n, e, sky)) :
        IF q.ok THEN o \in BindEnvironment(q.m, q.d, sky) ELSE o = q
  BY DEF Environment, Continue
<1>2. PICK p \in TableMade(m, d) : IF p.ok THEN q \in UploadPixels(p.m, p.d, sky) ELSE q = p
  BY <1>1 DEF Continue
<1>3. /\ Readies(d, others, p) /\ p.m.ready /\ p.m.shows = m.shows
      /\ p.ok => p.m.brdf /\ p.m.pending = {}
  BY <1>2, TableMadeOwns
<1>4. PICK e, n : e = p.d /\ n = p.m
  OBVIOUS
<1>5. Readier(d, e) /\ MatOwns(n, e, others) /\ n.device /\ n.attemptedCore /\ n.ready /\ n.shows = m.shows
  BY <1>3, <1>4 DEF Readies
<1>6. Clean(e)
  BY <1>5 DEF Readier, Becomes
<1>7. CASE ~ p.ok
  BY <1>1, <1>2, <1>3, <1>7
<1>8. CASE p.ok
  <2>1. n.brdf /\ n.pending = {} /\ q \in UploadPixels(n, e, sky)
    BY <1>2, <1>3, <1>4, <1>8
  <2>2. MaterialFlags(n)
    BY <1>5 DEF MatOwns
  <2>3. sky \notin others /\ sky \notin n.defaults /\ sky # BrdfTable /\ sky # NoSky /\ sky \in Names
    BY <2>2, MaterialAssumption DEF Names, MaterialFlags
  <2>4. sky \in Names \ (Stored(n) \cup others)
    BY <1>5, <2>3 DEF Stored
  <2>5. PICK more : more = IF q.ok THEN others \cup {sky} ELSE others
    OBVIOUS
  <2>6. /\ Readies(e, more, q) /\ (q.ok => Busy(q.d) = {} /\ q.m.pending = {})
        /\ OnlyCounts(n, q.m)
    BY <1>5, <1>6, <2>1, <2>4, <2>5, UploadReadies
  <2>7. PICK g, k : g = q.d /\ k = q.m
    OBVIOUS
  <2>8. /\ Readier(e, g) /\ q.ok \in BOOLEAN /\ MatOwns(k, g, more) /\ IsOutcome(q) /\ k.device /\ k.attemptedCore
        /\ k.ready /\ k.brdf /\ k.shows = m.shows
    BY <1>5, <2>1, <2>6, <2>7 DEF Readies, OnlyCounts
  <2>9. Readier(d, g) /\ Clean(g)
    BY <1>5, <2>8, ReadierThen
  <2>10. CASE ~ q.ok
    <3>1. o = q /\ more = others
      BY <1>1, <2>5, <2>10
    <3> QED BY <2>7, <2>8, <2>9, <3>1 DEF Readies
  <2>11. CASE q.ok
    <3>1. o \in BindEnvironment(k, g, sky) /\ Busy(g) = {} /\ k.pending = {}
      BY <1>1, <2>6, <2>7, <2>11
    <3>2. MatOwns(k, g, others \cup {sky})
      BY <2>5, <2>8, <2>11
    <3>3. Readies(g, others, o) /\ o.m.ready
      BY <2>8, <2>9, <3>1, <3>2, BindOwns
    <3>4. /\ Readier(g, o.d) /\ o.ok \in BOOLEAN /\ MatOwns(o.m, o.d, others) /\ IsOutcome(o)
          /\ o.m.device /\ o.m.attemptedCore
      BY <3>3 DEF Readies
    <3>5. Readier(d, o.d)
      BY <2>9, <3>4, ReadierThen
    <3> QED BY <3>3, <3>4, <3>5 DEF Readies
  <2> QED BY <2>10, <2>11
<1> QED BY <1>7, <1>8

(* prepareEnvironment                                                      *)
LEMMA AskedSame ==
  ASSUME NEW m, IsMaterials(m), NEW sky, NEW cooled
  PROVE  SameImages(m, Asked(m, sky, cooled))
<1>1. PICK gate : gate = IF sky # NoSky /\ Generates(Observed(m.gate, sky), cooled)
                     THEN Attempting(Observed(m.gate, sky)) ELSE Observed(m.gate, sky)
  OBVIOUS
<1>2. DOMAIN m.gate = DOMAIN FreshGate
  BY DEF IsMaterials
<1>3. PICK seen : seen = Observed(m.gate, sky)
  OBVIOUS
<1>4. DOMAIN seen = DOMAIN FreshGate
  BY <1>2, <1>3, GateKept
<1>5. DOMAIN Attempting(seen) = DOMAIN FreshGate
  BY <1>4, AttemptingKept
<1>6. DOMAIN gate = DOMAIN FreshGate
  BY <1>1, <1>3, <1>4, <1>5
<1>7. Asked(m, sky, cooled) = [m EXCEPT !.gate = gate]
  BY <1>1 DEF Asked
<1>8. SameImages(m, [m EXCEPT !.gate = gate])
  BY <1>6 DEF SameImages, IsMaterials, NoMaterials
<1> QED BY <1>7, <1>8

(* prepareEnvironment keeps the materials owned, whatever fails.           *)
LEMMA PrepareEnvironmentOwns ==
  ASSUME NEW d, Clean(d), NEW m, NEW others, MatOwns(m, d, others), m.device, m.attemptedCore, m.ready,
         m.pending = {}, others \subseteq Contents, NEW sky \in Skies \cup {NoSky}, NEW cooled,
         NEW o \in PrepareEnvironment(m, d, sky, cooled)
  PROVE  Readies(d, others, o) /\ o.m.ready
<1>1. PICK n : n = Asked(m, sky, cooled)
  OBVIOUS
<1>2. MaterialFlags(m) /\ IsMaterials(m) /\ EnvironmentHolds(m, d.held)
  BY DEF MatOwns, MaterialFlags
<1>3. SameImages(m, n)
  BY <1>1, <1>2, AskedSame
<1>4. /\ IsMaterials(n) /\ n.device /\ n.attemptedCore /\ n.ready
      /\ n.shows = m.shows /\ n.pending = {} /\ n.brdf = m.brdf
  BY <1>3 DEF SameImages
<1>5. MatOwns(n, d, others)
  BY <1>3, SameImagesOwn
<1>6. CASE sky # NoSky /\ ~ ShowsSky(m, d, sky) /\ Generates(Observed(m.gate, sky), cooled)
  <2>1. PICK p \in Tried(n, Try(d, <<Call({})>>)) : IF p.ok THEN o \in Environment(p.m, p.d, sky) ELSE o = p
    BY <1>1, <1>6 DEF PrepareEnvironment, Continue
  <2>2. PICK c \in Try(d, <<Call({})>>) : p = [d |-> c.d, m |-> n, ok |-> c.ok]
    BY <2>1 DEF Tried
  <2>3. Makes(<<Call({})>>, d.held, Busy(d), {})
    <3>1. PICK call : call = Call({})
      OBVIOUS
    <3>2. FitsIn(call, d.held, Busy(d)) /\ call.makes = {}
      BY <3>1, CallFits DEF Call
    <3>3. Makes(<<call>>, d.held, Busy(d), call.makes)
      BY <3>2, MakesOne
    <3> QED BY <3>1, <3>2, <3>3
  <2>4. Adds(d, c, {})
    BY <2>2, <2>3, TryMakes
  <2>5. PICK e : e = p.d
    OBVIOUS
  <2>6. Clean(e) /\ e.held = d.held /\ e.work = d.work /\ p.ok \in BOOLEAN
    BY <2>2, <2>4, <2>5 DEF Adds
  <2>7. Readier(d, e)
    <3>1. \A x \in {} : x[1] \in PrepareKinds
      OBVIOUS
    <3>2. Becomes(d, c.d, PrepareKinds, FrameSlots)
      BY <2>4, <3>1, AddsBecomes
    <3> QED BY <2>2, <2>5, <3>2 DEF Readier
  <2>8. MatOwns(n, e, others)
    BY <1>5, <2>6 DEF MatOwns, OneTimeIs
  <2>9. CASE ~ p.ok
    <3>1. o = p /\ IsOutcome(p)
      BY <2>1, <2>2, <2>9 DEF IsOutcome
    <3>2. o.m = n /\ o.d = e
      BY <2>2, <2>5, <3>1
    <3> QED BY <1>4, <2>6, <2>7, <2>8, <3>1, <3>2 DEF Readies
  <2>10. CASE p.ok
    <3>1. o \in Environment(n, e, sky)
      BY <2>1, <2>2, <2>5, <2>10
    <3>2. n.shows # sky
      <4>1. m.shows = sky => m.brdf /\ EnvironmentAll \subseteq d.held
        BY <1>2, <1>6 DEF EnvironmentHolds
      <4>2. EnvironmentSet \in EnvironmentAll
        BY DEF EnvironmentAll
      <4> QED BY <1>4, <1>6, <4>1, <4>2 DEF ShowsSky
    <3>3. sky \in Skies
      BY <1>6
    <3>4. Readies(e, others, o) /\ o.m.ready
      BY <1>4, <2>6, <2>8, <3>1, <3>2, <3>3, EnvironmentOwns
    <3>5. /\ Readier(e, o.d) /\ o.ok \in BOOLEAN /\ MatOwns(o.m, o.d, others) /\ IsOutcome(o)
          /\ o.m.device /\ o.m.attemptedCore
      BY <3>4 DEF Readies
    <3>6. Readier(d, o.d)
      BY <2>7, <3>5, ReadierThen
    <3> QED BY <3>4, <3>5, <3>6 DEF Readies
  <2> QED BY <2>9, <2>10
<1>7. CASE ~ (sky # NoSky /\ ~ ShowsSky(m, d, sky) /\ Generates(Observed(m.gate, sky), cooled))
  <2>1. PICK v : v = (n.prepared \/ (sky # NoSky /\ ShowsSky(m, d, sky)))
    OBVIOUS
  <2>2. o = [d |-> d, ok |-> TRUE, m |-> [n EXCEPT !.prepared = v]]
    BY <1>1, <1>7, <2>1 DEF PrepareEnvironment
  <2>3. PICK k : k = [n EXCEPT !.prepared = v]
    OBVIOUS
  <2>4. SameImages(n, k)
    BY <1>4, <2>3, GateOnly DEF IsMaterials
  <2>5. MatOwns(k, d, others)
    BY <1>4, <1>5, <2>4, SameImagesOwn
  <2>6. o.d = d /\ o.m = k /\ o.ok = TRUE /\ IsOutcome(o)
    BY <2>2, <2>3 DEF IsOutcome
  <2>7. Readier(d, d)
    BY BecomesItself DEF Readier
  <2> QED BY <1>4, <2>4, <2>5, <2>6, <2>7 DEF Readies, SameImages
<1> QED BY <1>6, <1>7

(* Preparing the sky of a frame keeps the materials owned.                 *)
LEMMA PrepareSkyOwns ==
  ASSUME NEW d, Clean(d), NEW m, NEW others, MatOwns(m, d, others), m.device, m.attemptedCore, m.ready,
         m.pending = {}, others \subseteq Contents, NEW sky \in Skies \cup {NoSky}, NEW cooled, NEW available,
         NEW o \in PrepareSky(m, d, sky, cooled, available)
  PROVE  Readies(d, others, o) /\ o.m.ready
<1>1. CASE available
  <2>1. o \in PrepareEnvironment(m, d, sky, cooled)
    BY <1>1 DEF PrepareSky
  <2> QED BY <2>1, PrepareEnvironmentOwns
<1>2. CASE ~ available
  <2>1. PICK gate : gate = Suspended(m.gate)
    OBVIOUS
  <2>2. PICK k : k = [m EXCEPT !.gate = gate]
    OBVIOUS
  <2>3. o = [d |-> d, m |-> k, ok |-> TRUE]
    BY <1>2, <2>1, <2>2 DEF PrepareSky
  <2>4. IsMaterials(m)
    BY DEF MatOwns, MaterialFlags
  <2>5. DOMAIN gate = DOMAIN FreshGate
    BY <2>1, <2>4, GateKept DEF IsMaterials
  <2>6. SameImages(m, k)
    BY <2>2, <2>4, <2>5 DEF SameImages, IsMaterials, NoMaterials
  <2>7. MatOwns(k, d, others)
    BY <2>6, SameImagesOwn
  <2>8. Readier(d, d)
    BY BecomesItself DEF Readier
  <2> QED BY <2>3, <2>6, <2>7, <2>8 DEF Readies, SameImages, IsOutcome
<1> QED BY <1>1, <1>2

(* The slot's uniforms are written when no work refers to them.            *)
LEMMA FillFrameOwns ==
  ASSUME NEW d, NEW others, NEW p, Readies(d, others, p), p.m.ready,
         NEW slot \in FrameSlots, \A w \in FrameSlots : FrameMemory(slot) \notin d.work[w],
         NEW o, o = FillFrame(p, slot)
  PROVE  Readies(d, others, o) /\ o.m.ready /\ (o.ok => o.m.pending = {})
<1>1. PICK e, n : e = p.d /\ n = p.m
  OBVIOUS
<1>2. /\ Readier(d, e) /\ MatOwns(n, e, others) /\ IsOutcome(p) /\ n.device /\ n.attemptedCore /\ n.ready
  BY <1>1 DEF Readies
<1>3. Clean(e) /\ \A w \in FrameSlots : e.work[w] \subseteq d.work[w]
  BY <1>2 DEF Readier, Becomes
<1>4. CASE n.pending # {}
  <2>1. o = [p EXCEPT !.ok = FALSE]
    BY <1>1, <1>4 DEF FillFrame
  <2>2. o.d = e /\ o.m = n /\ o.ok = FALSE /\ IsOutcome(o)
    BY <1>1, <1>2, <2>1 DEF IsOutcome
  <2> QED BY <1>2, <2>2 DEF Readies
<1>5. CASE n.pending = {}
  <2>1. PICK g : g = Rewrite(e, {FrameMemory(slot)})
    OBVIOUS
  <2>2. o = [p EXCEPT !.d = g, !.ok = TRUE]
    BY <1>1, <1>5, <2>1 DEF FillFrame
  <2>3. o.d = g /\ o.m = n /\ o.ok = TRUE /\ IsOutcome(o)
    BY <1>1, <1>2, <2>2 DEF IsOutcome
  <2>4. e.work[OneTime] = {}
    BY <1>2, <1>5 DEF MatOwns, OneTimeIs
  <2>5. FrameMemory(slot) \notin Busy(e)
    BY <1>3, <2>4, SlotsAreWorks DEF Busy
  <2>6. FrameMemory(slot) \in e.held
    BY <1>2 DEF MatOwns, CoreHolds, MaterialsCore
  <2>7. g = e
    BY <1>3, <2>1, <2>5, <2>6, RewriteIsClean
  <2> QED BY <1>2, <1>5, <2>3, <2>7 DEF Readies
<1> QED BY <1>4, <1>5

(* prepare                                                                 *)
PreparedWith(d, m, others, o) ==
  /\ Readier(d, o.d) /\ o.ok \in BOOLEAN /\ MatOwns(o.m, o.d, others) /\ o.m.device
  /\ m.ready => o.m.ready
  /\ o.ok => o.m.ready /\ o.m.pending = {}

(* prepare keeps the materials owned: the core, or a part of it, or        *)
(* nothing.                                                                *)
LEMMA PrepareMaterialsOwns ==
  ASSUME NEW d, Clean(d), NEW m, NEW others, MatOwns(m, d, others), m.device, others \subseteq Contents,
         ~ m.ready => others = {}, NEW slot \in FrameSlots, \A w \in FrameSlots : FrameMemory(slot) \notin d.work[w],
         NEW wanted, NEW sky \in Skies \cup {NoSky}, NEW cooled, NEW available,
         NEW o \in PrepareMaterials(m, d, slot, wanted, sky, cooled, available)
  PROVE  PreparedWith(d, m, others, o)
<1>1. PICK u : u = Unprepared(m, wanted, sky)
  OBVIOUS
<1>2. PICK r \in RetirePending(u, d) :
        o \in IF ~ r.ok \/ ~ wanted THEN {[r EXCEPT !.m.gate = Suspended(@), !.ok = FALSE]}
         ELSE UNION {IF ~ c.ok THEN {c}
                     ELSE {FillFrame(p, slot) : p \in PrepareSky(c.m, c.d, sky, cooled, available)} :
                     c \in PrepareCore(r.m, r.d)}
  BY <1>1 DEF PrepareMaterials
<1>3. MaterialFlags(m) /\ IsMaterials(m)
  BY DEF MatOwns, MaterialFlags
<1>4. SameImages(m, u)
  <2>1. PICK gate : gate = IF wanted /\ sky # NoSky THEN m.gate ELSE Deactivated(m.gate)
    OBVIOUS
  <2>2. DOMAIN gate = DOMAIN FreshGate
    <3>1. DOMAIN m.gate = DOMAIN FreshGate
      BY <1>3 DEF IsMaterials
    <3>2. DOMAIN Deactivated(m.gate) = DOMAIN FreshGate
      BY <3>1, GateKept
    <3> QED BY <2>1, <3>1, <3>2
  <2>3. u = [m EXCEPT !.prepared = FALSE, !.gate = gate]
    BY <1>1, <2>1 DEF Unprepared
  <2>4. SameImages(m, [m EXCEPT !.prepared = FALSE, !.gate = gate])
    BY <1>3, <2>2, GateOnly
  <2> QED BY <2>3, <2>4
<1>5. MatOwns(u, d, others)
  BY <1>4, SameImagesOwn
<1>6. Retires(u, d, others, r)
  BY <1>2, <1>5, RetirePendingOwns
<1>7. IsMaterials(u) /\ u.device /\ u.ready = m.ready
  BY <1>4 DEF SameImages
<1>8. IsOutcome(r)
  BY <1>2, <1>7, RetirePendingAlike
<1>9. PICK e, n : e = r.d /\ n = r.m
  OBVIOUS
<1>10. /\ MatStep(u, d, r) /\ MatOwns(n, e, others)
       /\ r.ok => n.pending = {}
  BY <1>6, <1>9 DEF Retires
<1>11. Kinder(d, e) /\ r.ok \in BOOLEAN /\ IsMaterials(n) /\ n.device /\ n.ready = m.ready
  BY <1>7, <1>9, <1>10 DEF MatStep, OnlyCounts
<1>12. Readier(d, e) /\ Clean(e)
  BY <1>11, KinderIsReadier DEF Kinder, Becomes
<1>13. CASE ~ r.ok \/ ~ wanted
  <2>1. PICK gate : gate = Suspended(n.gate)
    OBVIOUS
  <2>2. PICK k : k = [n EXCEPT !.gate = gate]
    OBVIOUS
  <2>3. o.d = e /\ o.m = k /\ o.ok = FALSE
    <3>1. o = [r EXCEPT !.m.gate = Suspended(@), !.ok = FALSE]
      BY <1>2, <1>13
    <3>2. r.m = n /\ {"d", "m", "ok"} \subseteq DOMAIN r
      BY <1>8, <1>9 DEF IsOutcome
    <3>3. o = [r EXCEPT !.m = k, !.ok = FALSE]
      BY <2>1, <2>2, <3>1, <3>2
    <3> QED BY <1>9, <3>2, <3>3
  <2>4. DOMAIN gate = DOMAIN FreshGate
    BY <1>11, <2>1, GateKept DEF IsMaterials
  <2>5. SameImages(n, k)
    BY <1>11, <2>2, <2>4 DEF SameImages, IsMaterials, NoMaterials
  <2>6. MatOwns(k, e, others)
    BY <1>10, <1>11, <2>5, SameImagesOwn
  <2> QED BY <1>11, <1>12, <2>3, <2>5, <2>6 DEF PreparedWith, SameImages
<1>14. CASE r.ok /\ wanted
  <2>1. PICK c \in PrepareCore(n, e) :
          o \in IF ~ c.ok THEN {c}
               ELSE {FillFrame(p, slot) : p \in PrepareSky(c.m, c.d, sky, cooled, available)}
    BY <1>2, <1>9, <1>14
  <2>2. ~ n.ready => others = {}
    BY <1>11
  <2>3. /\ Readies(e, others, c) /\ (c.ok => c.m.ready /\ c.m.pending = {})
        /\ (n.ready => c.m.ready)
    BY <1>10, <1>11, <1>12, <1>14, <2>1, <2>2, PrepareCoreOwns
  <2>4. PICK g, k : g = c.d /\ k = c.m
    OBVIOUS
  <2>5. Readier(e, g) /\ c.ok \in BOOLEAN /\ MatOwns(k, g, others) /\ k.device /\ k.attemptedCore
    BY <2>3, <2>4 DEF Readies
  <2>6. Readier(d, g) /\ Clean(g)
    BY <1>12, <2>5, ReadierThen
  <2>7. CASE ~ c.ok
    <3>1. o = c
      BY <2>1, <2>7
    <3> QED BY <1>11, <2>3, <2>4, <2>5, <2>6, <2>7, <3>1 DEF PreparedWith
  <2>8. CASE c.ok
    <3>1. PICK p \in PrepareSky(k, g, sky, cooled, available) : o = FillFrame(p, slot)
      BY <2>1, <2>4, <2>8
    <3>2. k.ready /\ k.pending = {}
      BY <2>3, <2>4, <2>8
    <3>3. Readies(g, others, p) /\ p.m.ready
      BY <2>5, <2>6, <3>1, <3>2, PrepareSkyOwns
    <3>4. \A w \in FrameSlots : FrameMemory(slot) \notin g.work[w]
      BY <2>6 DEF Readier, Becomes
    <3>5. Readies(g, others, o) /\ o.m.ready /\ (o.ok => o.m.pending = {})
      BY <3>1, <3>3, <3>4, FillFrameOwns
    <3>6. Readier(g, o.d) /\ o.ok \in BOOLEAN /\ MatOwns(o.m, o.d, others) /\ o.m.device
      BY <3>5 DEF Readies
    <3>7. Readier(d, o.d)
      BY <2>6, <3>6, ReadierThen
    <3> QED BY <3>5, <3>6, <3>7 DEF PreparedWith
  <2> QED BY <2>5, <2>7, <2>8
<1> QED BY <1>11, <1>13, <1>14

(* The materials of one mesh.                                              *)
LEMMA AssetObjectsAre ==
  ASSUME NEW mesh
  PROVE  /\ \A x \in AssetAll(mesh) : x[1] \in AssetKinds /\ x[2] = mesh
         /\ AssetPool(mesh) \notin {AssetSets(mesh)} \cup AssetObjects(mesh) /\ AssetSets(mesh) \notin AssetObjects(mesh)
         /\ AssetAll(mesh) = {AssetPool(mesh), AssetSets(mesh)} \cup AssetObjects(mesh)
<1>1. ASSUME NEW x \in AssetAll(mesh) PROVE x[1] \in AssetKinds /\ x[2] = mesh
  <2>1. CASE x = AssetPool(mesh)
    BY <2>1 DEF AssetPool, AssetKinds
  <2>2. CASE x = AssetSets(mesh)
    BY <2>2 DEF AssetSets, AssetKinds
  <2>3. CASE x = <<"asset uniforms", mesh>>
    BY <2>3 DEF AssetKinds
  <2>4. CASE x = <<"asset uniform memory", mesh>>
    BY <2>4 DEF AssetKinds
  <2> QED BY <2>1, <2>2, <2>3, <2>4 DEF AssetAll, AssetObjects
<1>2. AssetPool(mesh) \notin {AssetSets(mesh)} \cup AssetObjects(mesh) /\ AssetSets(mesh) \notin AssetObjects(mesh)
  BY DEF AssetPool, AssetSets, AssetObjects
<1> QED BY <1>1, <1>2 DEF AssetAll

(* The material objects of different meshes are disjoint.                  *)
LEMMA AssetsDiffer ==
  ASSUME NEW mesh, NEW other, mesh # other
  PROVE  AssetAll(mesh) \cap AssetAll(other) = {}
BY AssetObjectsAre

(* The first objects of the materials of a mesh.                           *)
LEMMA AssetMakes ==
  ASSUME NEW held, NEW busy, NEW mesh,
         (AssetObjects(mesh) \cup {AssetPool(mesh)}) \cap held = {}
  PROVE  Makes(AssetCalls(mesh), held, busy, {<<"asset uniforms", mesh>>, <<"asset uniform memory", mesh>>, AssetPool(mesh)})
<1>1. PICK a, b, c, e :
        /\ a = Make(<<"asset uniforms", mesh>>, {})
        /\ b = Make(<<"asset uniform memory", mesh>>, {})
        /\ c = Call({})
        /\ e = Make(AssetPool(mesh), {})
  OBVIOUS
<1>2. /\ a.makes = {<<"asset uniforms", mesh>>}
      /\ b.makes = {<<"asset uniform memory", mesh>>}
      /\ c.makes = {}
      /\ e.makes = {AssetPool(mesh)}
  BY <1>1, CallsMake
<1>3. FitsIn(a, held, busy)
  <2>1. <<"asset uniforms", mesh>> \notin held
    BY <1>2 DEF AssetObjects, AssetPool
  <2> QED BY <1>1, <2>1, MakeFits
<1>4. FitsIn(b, held \cup (a.makes), busy)
  <2>1. <<"asset uniform memory", mesh>> \notin held \cup (a.makes)
    BY <1>2 DEF AssetObjects, AssetPool
  <2> QED BY <1>1, <2>1, MakeFits
<1>5. FitsIn(c, held \cup (a.makes \cup b.makes), busy)
  BY <1>1, CallFits
<1>6. FitsIn(e, held \cup (a.makes \cup b.makes \cup c.makes), busy)
  <2>1. AssetPool(mesh) \notin held \cup (a.makes \cup b.makes \cup c.makes)
    BY <1>2 DEF AssetObjects, AssetPool
  <2> QED BY <1>1, <2>1, MakeFits
<1>7. Makes(<<a, b, c, e>>, held, busy, a.makes \cup b.makes \cup c.makes \cup e.makes)
  BY <1>3, <1>4, <1>5, <1>6, MakesFour
<1>8. a.makes \cup b.makes \cup c.makes \cup e.makes = {<<"asset uniforms", mesh>>, <<"asset uniform memory", mesh>>, AssetPool(mesh)}
  BY <1>2
<1>9. <<a, b, c, e>> = AssetCalls(mesh)
  BY <1>1 DEF AssetCalls
<1> QED BY <1>7, <1>8, <1>9

(* The descriptor sets of a mesh.                                          *)
LEMMA SetsMake ==
  ASSUME NEW held, NEW busy, NEW sets, NEW needs,
         sets \notin held,
         needs \subseteq held
  PROVE  Makes(<<Make(sets, needs)>>, held, busy, {sets})
<1>1. PICK a :
        /\ a = Make(sets, needs)
  OBVIOUS
<1>2. /\ a.makes = {sets}
  BY <1>1, CallsMake
<1>3. FitsIn(a, held, busy)
  <2>1. /\ sets \notin held
        /\ needs \subseteq held
    BY <1>2
  <2> QED BY <1>1, <2>1, MakeFits
<1>4. Makes(<<a>>, held, busy, a.makes)
  BY <1>3, MakesOne
<1>5. a.makes = {sets}
  BY <1>2
<1>6. <<a>> = <<Make(sets, needs)>>
  BY <1>1
<1> QED BY <1>4, <1>5, <1>6

(* A pool that goes with what was allocated from it, and nothing else.     *)
LEMMA PoolForgotten ==
  ASSUME NEW d, Clean(d), NEW pool, NEW contents, pool \notin contents,
         contents \cap d.held # {} => pool \in d.held, ({pool} \cup contents) \cap Busy(d) = {}
  PROVE  LET e == Forget(DestroyPool(d, pool, contents), contents)
         IN  /\ Clean(e) /\ e.held = d.held \ ({pool} \cup contents)
             /\ e.work = d.work /\ e.refusals = d.refusals
<1>1. /\ d = Plain(d.held, d.work, d.refusals) /\ d.refusals \in Nat
      /\ d.work = [w \in Works |-> d.work[w]] /\ d.alive = d.held /\ d.misuses = {}
  BY CleanShape
<1>2. PICK h, w, r : h = d.held /\ w = d.work /\ r = d.refusals
  OBVIOUS
<1>3. d = Driver(h, h, w, {}, r)
  BY <1>1, <1>2 DEF Plain
<1>4. PICK a : a = h \ ({pool} \cup contents)
  OBVIOUS
<1>5. DestroyPool(d, pool, contents) = Driver(a, h \ {pool}, w, {}, r)
  <2>1. CASE pool \in d.held
    <3>1. PICK g : g = {pool} \cup (contents \cap d.alive)
      OBVIOUS
    <3>2. Touched(d, g) = {}
      BY <2>1, <1>1, <3>1 DEF Touched, Dead, Misuse
    <3>3. DestroyPool(d, pool, contents) = Gone(d, g, {pool})
      BY <2>1, <3>1 DEF DestroyPool
    <3>4. Gone(Driver(h, h, w, {}, r), g, {pool})
            = Driver(h \ g, h \ {pool}, w, {} \cup Touched(Driver(h, h, w, {}, r), g), r)
      BY GoneShape
    <3>5. h \ g = a /\ {} \cup Touched(d, g) = {}
      BY <1>1, <1>2, <1>4, <3>1, <3>2
    <3> QED BY <1>3, <3>3, <3>4, <3>5
  <2>2. CASE pool \notin d.held
    <3>1. a = h /\ h \ {pool} = h
      BY <2>2, <1>2, <1>4
    <3>2. DestroyPool(d, pool, contents) = d
      BY <2>2 DEF DestroyPool
    <3> QED BY <1>3, <3>1, <3>2
  <2> QED BY <2>1, <2>2
<1>6. PICK p, k : p = DestroyPool(d, pool, contents) /\ k = (h \ {pool}) \ contents
  OBVIOUS
<1>7. p.held = h \ {pool}
  BY <1>5, <1>6, DriverShape
<1>8. Forget(p, contents) = [p EXCEPT !.held = k]
  BY <1>6, <1>7 DEF Forget
<1>9. [Driver(a, h \ {pool}, w, {}, r) EXCEPT !.held = k] = Driver(a, k, w, {}, r)
  BY DriverShape
<1>10. a = k
  BY <1>4, <1>6
<1>11. Forget(p, contents) = Plain(k, w, r)
  BY <1>5, <1>6, <1>8, <1>9, <1>10 DEF Plain
<1>12. \A v \in Works : d.work[v] \subseteq k
  <2> TAKE v \in Works
  <2>1. d.work[v] \subseteq d.held /\ d.work[v] \subseteq Busy(d)
    BY WorkIsHeld
  <2> QED BY <2>1, <1>2, <1>6
<1>13. PICK e : e = Forget(p, contents)
  OBVIOUS
<1>14. Clean(e) /\ e.held = k /\ e.work = w /\ e.refusals = r
  BY <1>1, <1>2, <1>11, <1>12, <1>13, PlainIsClean
<1> QED BY <1>2, <1>6, <1>13, <1>14

(* What materials own does not depend on other objects.                    *)
LEMMA MatSame ==
  ASSUME NEW m, NEW d, NEW others, MatOwns(m, d, others), NEW e, SameOf(PrepareKinds, d.held, e.held),
         e.work[OneTime] \subseteq d.work[OneTime]
  PROVE  MatOwns(m, e, others)
<1>1. SameOf(PixelKinds, d.held, e.held) /\ SameOf(CoreKinds, d.held, e.held) /\ SameOf(EnvironmentKinds, d.held, e.held)
  BY DEF SameOf, PrepareKinds
<1>2. Stock(e.held, Stored(m) \cup m.pending \cup others, m.pending, m.used)
  BY <1>1, StockSame DEF MatOwns
<1>3. OneTimeIs(e, m.pending)
  BY DEF MatOwns, OneTimeIs
<1>4. CoreHolds(m, e.held)
  BY <1>1, CoreOfMaterials DEF MatOwns, CoreHolds, SameOf
<1>5. EnvironmentHolds(m, e.held)
  <2>1. EnvironmentHolds(m, d.held)
    BY DEF MatOwns
  <2>2. \A x \in EnvironmentAll : x \in e.held <=> x \in d.held
    BY <1>1, CoreOfMaterials DEF SameOf
  <2>3. EnvironmentSet \in EnvironmentAll /\ EnvironmentPool \in EnvironmentAll
    BY DEF EnvironmentAll
  <2> QED BY <1>1, <2>1, <2>2, <2>3 DEF EnvironmentHolds, SameOf
<1> QED BY <1>2, <1>3, <1>4, <1>5 DEF MatOwns

(* ... nor on the samplers that are there.                                 *)
LEMMA MatSampled ==
  ASSUME NEW m, NEW d, NEW others, MatOwns(m, d, others), m.attemptedCore, NEW e, NEW sampler \in Samplers,
         d.held \subseteq e.held, e.held \subseteq d.held \cup {sampler}, e.work[OneTime] \subseteq d.work[OneTime]
  PROVE  MatOwns(m, e, others)
<1>1. sampler[1] \in CoreKinds
  BY CoreOfMaterials
<1>2. SameOf(PixelKinds, d.held, e.held) /\ SameOf(EnvironmentKinds, d.held, e.held)
  BY <1>1, MaterialKindsDiffer DEF SameOf
<1>3. Stock(e.held, Stored(m) \cup m.pending \cup others, m.pending, m.used)
  BY <1>2, StockSame DEF MatOwns
<1>4. OneTimeIs(e, m.pending)
  BY DEF MatOwns, OneTimeIs
<1>5. CoreHolds(m, e.held)
  BY DEF MatOwns, CoreHolds
<1>6. EnvironmentHolds(m, e.held)
  <2>1. EnvironmentHolds(m, d.held)
    BY DEF MatOwns
  <2>2. \A x \in EnvironmentAll : x \in e.held <=> x \in d.held
    BY <1>2, CoreOfMaterials DEF SameOf
  <2>3. EnvironmentSet \in EnvironmentAll /\ EnvironmentPool \in EnvironmentAll
    BY DEF EnvironmentAll
  <2> QED BY <1>2, <2>1, <2>2, <2>3 DEF EnvironmentHolds, SameOf
<1> QED BY <1>3, <1>4, <1>5, <1>6 DEF MatOwns

(* ~Asset                                                                  *)
Unloads(d, m, mesh, names, more, g) ==
  /\ Clean(g.d) /\ OnlyCounts(m, g.m) /\ MatOwns(g.m, g.d, more) /\ g.m.pending = m.pending
  /\ g.d.work = d.work /\ g.d.refusals >= d.refusals
  /\ g.d.held = d.held \ (AllOf(names) \cup AssetAll(mesh))

(* destroyAsset removes the mesh's material objects and its images alone.  *)
LEMMA DestroyAssetOwns ==
  ASSUME NEW d, Clean(d), NEW m, m.device, NEW others, MatOwns(m, d, others), NEW names, names \subseteq others,
         NEW more \in {others \ names}, names \cap Stored(m) = {}, NEW mesh,
         AssetSets(mesh) \in d.held => AssetPool(mesh) \in d.held,
         Busy(d) \cap AllOf(names) = {}, Busy(d) \cap AssetAll(mesh) = {},
         NEW g \in {DestroyAsset(m, d, mesh, names)}
  PROVE  Unloads(d, m, mesh, names, more, g)
<1>1. PICK p : p = Forget(DestroyPool(d, AssetPool(mesh), {AssetSets(mesh)}), {AssetSets(mesh)})
  OBVIOUS
<1>2. PICK r : r \in {Released(m, p, names)}
  OBVIOUS
<1>3. g = [r EXCEPT !.d = Destroy(@, AssetObjects(mesh))]
  BY <1>1, <1>2 DEF DestroyAsset
<1>4. DOMAIN r = {"d", "m"}
  BY <1>2 DEF Released
<1>5. PICK e, k : e = r.d /\ k = Destroy(e, AssetObjects(mesh))
  OBVIOUS
<1>6. g.d = k /\ g.m = r.m
  BY <1>3, <1>4, <1>5
<1>7. /\ Clean(p) /\ p.held = d.held \ {AssetPool(mesh), AssetSets(mesh)} /\ p.work = d.work /\ p.refusals = d.refusals
  <2>1. AssetPool(mesh) \notin {AssetSets(mesh)}
    BY AssetObjectsAre
  <2>2. ({AssetPool(mesh)} \cup {AssetSets(mesh)}) \cap Busy(d) = {}
    BY DEF AssetAll
  <2>3. {AssetSets(mesh)} \cap d.held # {} => AssetPool(mesh) \in d.held
    OBVIOUS
  <2>4. /\ Clean(p) /\ p.held = d.held \ ({AssetPool(mesh)} \cup {AssetSets(mesh)})
        /\ p.work = d.work /\ p.refusals = d.refusals
    BY <1>1, <2>1, <2>2, <2>3, PoolForgotten
  <2> QED BY <2>4
<1>8. \A x \in AssetAll(mesh) : x[1] \notin PrepareKinds
  BY AssetObjectsAre, MaterialKindsDiffer DEF PrepareKinds
<1>9. MatOwns(m, p, others)
  <2>1. SameOf(PrepareKinds, d.held, p.held)
    BY <1>7, <1>8 DEF SameOf, AssetAll
  <2> QED BY <1>7, <2>1, MatSame
<1>10. Busy(p) = Busy(d)
  BY <1>7, WorkIsBusy
<1>11. Releases(p, m, names, more, r)
  BY <1>2, <1>7, <1>9, <1>10, ReleasedOwns
<1>12. /\ Kinder(p, e) /\ OnlyCounts(m, r.m) /\ MatOwns(r.m, e, more) /\ e.work = p.work
       /\ e.held = p.held \ AllOf(names) /\ r.m.pending = m.pending
  BY <1>5, <1>11 DEF Releases
<1>13. Clean(e) /\ e.refusals >= p.refusals
  BY <1>12 DEF Kinder, Becomes
<1>14. Busy(e) = Busy(d)
  BY <1>7, <1>12, WorkIsBusy
<1>15. AssetObjects(mesh) \cap Busy(e) = {}
  BY <1>14 DEF AssetAll
<1>16. Clean(k) /\ k.held = e.held \ AssetObjects(mesh) /\ k.work = e.work /\ k.refusals = e.refusals
  BY <1>5, <1>13, <1>15, DestroyIsClean
<1>17. k.held = d.held \ (AllOf(names) \cup AssetAll(mesh))
  BY <1>7, <1>12, <1>16 DEF AssetAll
<1>18. MatOwns(r.m, k, more)
  <2>1. SameOf(PrepareKinds, e.held, k.held)
    BY <1>8, <1>16 DEF SameOf, AssetAll
  <2> QED BY <1>12, <1>16, <2>1, MatSame
<1> QED BY <1>6, <1>7, <1>12, <1>13, <1>16, <1>17, <1>18 DEF Unloads

(* Images of a content are nothing the materials themselves refer to.      *)
LEMMA StoredAreNoContents ==
  ASSUME NEW m, NEW d, NEW others, MatOwns(m, d, others)
  PROVE  Stored(m) \cap Contents = {}
<1>1. m.defaults \subseteq Defaults /\ m.shows \in Skies \cup {NoSky}
  BY DEF MatOwns, MaterialFlags, EnvironmentHolds
<1>2. \A n \in Stored(m) : n \in Defaults \/ n = BrdfTable \/ n \in Skies
  BY <1>1 DEF Stored
<1> QED BY <1>2, MaterialAssumption

(* What uploading the materials of a mesh may create.                      *)
LoadKinds == PixelKinds \cup CoreKinds \cup AssetKinds

(* Images that were not there when the upload began are in no submitted    *)
(* work, and neither is what the mesh gets for its materials.              *)
LEMMA FreshIsIdle ==
  ASSUME NEW d, Clean(d), NEW m, NEW others, MatOwns(m, d, others), m.pending = {}, NEW mesh,
         AssetAll(mesh) \cap d.held = {}, NEW e, Becomes(d, e, LoadKinds, FrameSlots),
         NEW n, NEW more, MatOwns(n, e, more), NEW names, names \subseteq more \cap Contents, names \cap others = {}
  PROVE  Busy(e) \cap AllOf(names) = {} /\ Busy(e) \cap AssetAll(mesh) = {}
<1>1. SUFFICES ASSUME NEW x \in Busy(e)
               PROVE  x \notin AllOf(names) /\ x \notin AssetAll(mesh)
  OBVIOUS
<1>2. PICK w \in Works : x \in e.work[w]
  BY DEF Busy
<1>3. CASE w \in FrameSlots
  <2>1. x \in d.work[w]
    BY <1>2, <1>3 DEF Becomes
  <2>2. x \in d.held
    BY <1>2, <2>1, WorkIsHeld
  <2>3. x \notin AssetAll(mesh)
    BY <2>2
  <2>4. ASSUME NEW k \in names, x \in ImageObjects(k) PROVE FALSE
    <3>1. x[1] \in ImageKinds
      BY <2>4, ImageObjectsAre
    <3>2. PICK j \in Stored(m) \cup m.pending \cup others : x \in ImageObjects(j)
      BY <2>2, <3>1 DEF MatOwns, Stock
    <3>3. j = k
      BY <2>4, <3>2, ImagesDiffer
    <3>4. k \in Contents /\ k \notin others
      BY <2>4
    <3> QED BY <3>2, <3>3, <3>4, StoredAreNoContents
  <2> QED BY <2>3, <2>4 DEF AllOf
<1>4. CASE w = OneTime
  <2>1. PICK k \in n.pending : x \in UploadWork(k)
    BY <1>2, <1>4 DEF MatOwns, OneTimeIs
  <2>2. x \in StagingObjects \cup ImageObjects(k) /\ x[1] \in PixelKinds
    BY <2>1, PixelObjectsAre
  <2>3. x \notin AssetAll(mesh)
    BY <2>2, AssetObjectsAre, MaterialKindsDiffer
  <2>4. ASSUME NEW j \in names, x \in ImageObjects(j) PROVE FALSE
    <3>1. x \in ImageObjects(k)
      BY <2>2, <2>4, PixelKindsAre
    <3>2. j = k
      BY <2>4, <3>1, ImagesDiffer
    <3>3. j \in more /\ n.pending \cap more = {}
      BY <2>4 DEF MatOwns
    <3> QED BY <2>1, <3>2, <3>3
  <2> QED BY <2>3, <2>4 DEF AllOf
<1> QED BY <1>2, <1>3, <1>4, SlotsAreWorks

(* image: an image that is there, or one that is uploaded.                 *)
Cached(d, m, now, content, fresh, i) ==
  /\ Kinder(d, i.d) /\ i.ok \in BOOLEAN /\ OnlyCounts(m, i.m)
  /\ MatOwns(i.m, i.d, IF i.ok THEN now \cup {content} ELSE now)
  /\ i.ok => i.m.pending = {}
  /\ fresh \subseteq {content} /\ fresh \cap now = {} /\ content \in now \cup fresh

(* A map of a material comes from the cache or is uploaded.                *)
LEMMA CachedImageOwns ==
  ASSUME NEW d, Clean(d), NEW m, NEW now, MatOwns(m, d, now), m.device, m.attemptedCore, m.pending = {},
         NEW content \in Contents, NEW fresh, fresh = Fresh(d, content), NEW i \in CachedImage(m, d, content)
  PROVE  Cached(d, m, now, content, fresh, i)
<1>1. d.alive = d.held
  BY CleanShape
<1>2. IsMaterials(m)
  BY DEF MatOwns, MaterialFlags
<1>3. OnlyCounts(m, m)
  BY <1>2, CountsOnly
<1>4. content \notin Stored(m)
  BY StoredAreNoContents
<1>5. CASE Image(content) \in d.alive
  <2>1. i = [d |-> d, m |-> m, ok |-> TRUE]
    BY <1>5 DEF CachedImage
  <2>2. content \in now
    <3>1. Image(content) \in ImageObjects(content) /\ Image(content)[1] \in ImageKinds
      BY ImagesDiffer, ImageObjectsAre
    <3>2. PICK j \in Stored(m) \cup m.pending \cup now : Image(content) \in ImageObjects(j)
      BY <1>1, <1>5, <3>1 DEF MatOwns, Stock
    <3>3. j = content
      BY <3>1, <3>2, ImagesDiffer
    <3> QED BY <1>4, <3>2, <3>3
  <2>3. fresh = {}
    BY <1>5 DEF Fresh
  <2>4. now \cup {content} = now
    BY <2>2
  <2>5. Kinder(d, d)
    BY BecomesItself DEF Kinder
  <2> QED BY <1>3, <2>1, <2>2, <2>3, <2>4, <2>5 DEF Cached
<1>6. CASE Image(content) \notin d.alive
  <2>1. content \notin now
    <3>1. content \in now => Image(content) \in d.held
      BY DEF MatOwns, Stock
    <3> QED BY <1>1, <1>6, <3>1
  <2>2. fresh = {content}
    BY <1>6 DEF Fresh
  <2>3. PICK p \in Tried(m, Try(d, <<Call({})>>)) : IF p.ok THEN i \in UploadPixels(p.m, p.d, content) ELSE i = p
    BY <1>6 DEF CachedImage, Continue
  <2>4. PICK c \in Try(d, <<Call({})>>) : p = [d |-> c.d, m |-> m, ok |-> c.ok]
    BY <2>3 DEF Tried
  <2>5. Makes(<<Call({})>>, d.held, Busy(d), {})
    <3>1. PICK call : call = Call({})
      OBVIOUS
    <3>2. FitsIn(call, d.held, Busy(d)) /\ call.makes = {}
      BY <3>1, CallFits DEF Call
    <3>3. Makes(<<call>>, d.held, Busy(d), call.makes)
      BY <3>2, MakesOne
    <3> QED BY <3>1, <3>2, <3>3
  <2>6. Adds(d, c, {})
    BY <2>4, <2>5, TryMakes
  <2>7. PICK e : e = c.d
    OBVIOUS
  <2>8. Clean(e) /\ e.held = d.held /\ e.work = d.work /\ c.ok \in BOOLEAN
    BY <2>6, <2>7 DEF Adds
  <2>9. Kinder(d, e)
    <3>1. \A x \in {} : x[1] \in PixelKinds
      OBVIOUS
    <3>2. Becomes(d, c.d, PixelKinds, FrameSlots)
      BY <2>6, <3>1, AddsBecomes
    <3> QED BY <2>7, <3>2 DEF Kinder
  <2>10. MatOwns(m, e, now)
    BY <2>8 DEF MatOwns, OneTimeIs
  <2>11. CASE ~ p.ok
    <3>1. i.d = e /\ i.m = m /\ i.ok = FALSE
      BY <2>3, <2>4, <2>7, <2>8, <2>11
    <3> QED BY <1>3, <2>1, <2>2, <2>9, <2>10, <3>1 DEF Cached
  <2>12. CASE p.ok
    <3>1. i \in UploadPixels(m, e, content)
      BY <2>3, <2>4, <2>7, <2>12
    <3>2. content \in Names \ (Stored(m) \cup now)
      BY <1>4, <2>1 DEF Names
    <3>3. Uploads(m, e, content, now, i)
      BY <2>8, <2>10, <3>1, <3>2, UploadPixelsOwns
    <3>4. /\ Kinder(e, i.d) /\ i.ok \in BOOLEAN /\ OnlyCounts(m, i.m)
          /\ MatOwns(i.m, i.d, IF i.ok THEN now \cup {content} ELSE now)
          /\ i.ok => i.m.pending = {}
      BY <3>3 DEF Uploads, MatStep
    <3>5. Kinder(d, i.d)
      BY <2>9, <3>4, BecomesThen DEF Kinder
    <3> QED BY <2>1, <2>2, <3>4, <3>5 DEF Cached
  <2> QED BY <2>11, <2>12
<1> QED BY <1>5, <1>6
=============================================================================
