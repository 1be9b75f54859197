-------------------------- MODULE MaterialTextures --------------------------
(***************************************************************************)
(* render/VulkanMaterialTextures.cpp: the images of glTF materials, their  *)
(* memory budget, the one upload whose completion could not be confirmed,  *)
(* and the reflections of the sky with the gate that decides when they are *)
(* generated (render/SkyEnvironment.cpp).                                  *)
(*                                                                         *)
(* Images are shared_ptrs: an image is destroyed when its last reference   *)
(* goes.  Every image counts 1 against the budget.  Images have the name   *)
(* of what they show: a content, one of the defaults, the lobe table, or   *)
(* the sky they were generated from.                                       *)
(***************************************************************************)
EXTENDS VulkanDriver, FiniteSets

CONSTANTS
  Contents,         (* the contents of encoded images                      *)
  Skies,            (* the skies reflections can be generated from         *)
  NoSky,            (* a frame without sky, or without reflections         *)
  BrdfTable,        (* the name of the lobe table                          *)
  Defaults,         (* the names of the default images                     *)
  ImageBudget       (* MaterialImageBudget::limit                          *)

ASSUME MaterialAssumption ==
  /\ NoSky \notin Skies /\ ImageBudget \in Nat /\ IsFiniteSet(Defaults)
  /\ BrdfTable \notin Contents \cup Skies \cup Defaults
  /\ Contents \cap Skies = {} /\ Contents \cap Defaults = {} /\ Skies \cap Defaults = {}

Names == Contents \cup Skies \cup Defaults \cup {BrdfTable}
Image(name) == <<"material image", name>>
ImageMemory(name) == <<"material image memory", name>>
ImageView(name) == <<"material view", name>>
ImageObjects(name) == {Image(name), ImageMemory(name), ImageView(name)}
StagingObjects ==
  {<<"material staging", 0>>, <<"material staging memory", 0>>, <<"material command", 0>>}

EmptyLayout == <<"material empty layout", 0>>
MaterialLayout == <<"material layout", 0>>
FrameBuffer(slot) == <<"material frame", slot>>
FrameMemory(slot) == <<"material frame memory", slot>>
Sampler(key) == <<"material sampler", key>>
Samplers == {Sampler(key) : key \in {0, 1}}
EnvironmentLayout == <<"environment layout", 0>>
EnvironmentPool == <<"environment pool", 0>>
EnvironmentSet == <<"environment set", 0>>
EnvironmentSamplers == {<<"environment sampler", 0>>, <<"environment sampler", 1>>}
MaterialsCore ==
  {EmptyLayout, MaterialLayout} \cup {FrameBuffer(s) : s \in FrameSlots}
    \cup {FrameMemory(s) : s \in FrameSlots}

FreshGate ==
  [observed |-> NoSky, attempted |-> NoSky, completed |-> NoSky, stable |-> 0, attempts |-> 0]

(* Impl as constructed.  `shows` is the sky of environmentImage, `written` *)
(* the sky the environment set was last written for.                       *)
NoMaterials ==
  [device |-> FALSE, attemptedCore |-> FALSE, ready |-> FALSE, defaults |-> {}, brdf |-> FALSE,
   shows |-> NoSky, written |-> NoSky, prepared |-> FALSE, pending |-> {}, used |-> 0,
   gate |-> FreshGate]

(* create *)
MaterialsCreated == [NoMaterials EXCEPT !.device = TRUE]

(* The images Impl itself refers to.                                       *)
Kept(m) ==
  m.defaults \cup m.pending \cup (IF m.brdf THEN {BrdfTable} ELSE {})
    \cup (IF m.shows = NoSky THEN {} ELSE {m.shows})

(* Variant for Released: the bytes stay reserved.                          *)
ReleasedKeepingBytes(m, d, names) ==
  [d |-> Destroy(d, UNION {ImageObjects(n) : n \in names}), m |-> m]

(* ~TextureImage, for the images that have lost their last reference.      *)
Released(m, d, names) ==
  [d |-> Destroy(d, UNION {ImageObjects(n) : n \in names}),
   m |-> [m EXCEPT !.used = @ - Cardinality(names)]]

(* What a step leaves behind, with the boolean the code returns then.      *)
Answers(left, ok) == [d |-> left.d, m |-> left.m, ok |-> ok]

-----------------------------------------------------------------------------
(* Uploads.                                                                *)

(* retirePendingUpload *)
RetirePending(m, d) ==
  IF m.pending = {} THEN {[d |-> d, m |-> m, ok |-> TRUE]}
  ELSE {IF w.ok
        THEN Answers(Released([m EXCEPT !.pending = {}], Destroy(w.d, StagingObjects), m.pending), TRUE)
        ELSE [d |-> w.d, m |-> m, ok |-> FALSE] : w \in WaitIdle(d)}

(* MaterialImageBudget::reserve *)
Reserve(m) == m.used < ImageBudget

(* uploadPixels up to vkQueueSubmit, after the image is created.           *)
StagedCalls(name) ==
  <<Make(ImageMemory(name), {}), Call({Image(name)}), Make(<<"material staging", 0>>, {}),
    Make(<<"material staging memory", 0>>, {}), Call({}), Make(<<"material command", 0>>, {}), Call({})>>

UploadWork(name) == StagingObjects \cup {Image(name), ImageMemory(name)}

(* Variant for Confirmed: what a failed wait was for is dropped at once.   *)
ConfirmedOrDropped(m, d, name) ==
  UNION {IF ~ w.ok
         THEN {[d |-> Destroy(w.d, StagingObjects \cup ImageObjects(name)), m |-> m, ok |-> FALSE]}
         ELSE {[d |-> IF v.ok THEN v.d ELSE Destroy(v.d, ImageObjects(name)), ok |-> v.ok,
                m |-> IF v.ok THEN [m EXCEPT !.used = @ + 1] ELSE m] :
                 v \in Try(Destroy(w.d, StagingObjects), <<Make(ImageView(name), {Image(name)})>>)} :
         w \in WaitIdle(d)}

(* The copy was submitted.  While its completion is not confirmed, command *)
(* buffer, staging buffer and image are kept; after that the view is made. *)
Confirmed(m, d, name) ==
  UNION {IF ~ w.ok
         THEN {[d |-> w.d, m |-> [m EXCEPT !.used = @ + 1, !.pending = {name}], ok |-> FALSE]}
         ELSE {[d |-> IF v.ok THEN v.d ELSE Destroy(v.d, ImageObjects(name)), ok |-> v.ok,
                m |-> IF v.ok THEN [m EXCEPT !.used = @ + 1] ELSE m] :
                 v \in Try(Destroy(w.d, StagingObjects), <<Make(ImageView(name), {Image(name)})>>)} :
         w \in WaitIdle(d)}

(* uploadPixels; a failure drops what was made and the reserved bytes.     *)
UploadPixels(m, d, name) ==
  IF m.pending # {} THEN {[d |-> d, m |-> m, ok |-> FALSE]}
  ELSE UNION {IF s.ok THEN Confirmed(m, Submit(s.d, OneTime, UploadWork(name)), name)
              ELSE {[d |-> Destroy(s.d, StagingObjects \cup ImageObjects(name)), m |-> m, ok |-> FALSE]} :
              s \in AndThen(Try(d, <<Call({}), Make(Image(name), {})>>),
                            LAMBDA e : IF Reserve(m) THEN Try(e, StagedCalls(name)) ELSE Returns(e, FALSE))}

(* Steps on an outcome [d, m, ok], as long as they succeed.                *)
Continue(outcomes, Step(_, _)) ==
  UNION {IF o.ok THEN Step(o.m, o.d) ELSE {o} : o \in outcomes}
Tried(m, outcomes) == {[d |-> o.d, m |-> m, ok |-> o.ok] : o \in outcomes}

(* createCore: layouts, the uniforms of each frame slot, default images.   *)
FrameBufferMade(d, slot) ==
  OnFailure(Try(d, <<Make(FrameBuffer(slot), {}), Make(FrameMemory(slot), {}), Call({FrameMemory(slot)})>>),
            {FrameBuffer(slot), FrameMemory(slot)})

FrameBuffersMade(d) ==
  InTurn(Try(d, <<Make(EmptyLayout, {}), Make(MaterialLayout, {})>>), [n \in 1 .. FramesInFlight |-> n],
         LAMBDA o, n : IF o.ok THEN FrameBufferMade(o.d, n - 1) ELSE {o})

DefaultMade(o, name) ==
  IF ~ o.ok THEN {o}
  ELSE {IF i.ok THEN [i EXCEPT !.m.defaults = @ \cup {name}] ELSE i : i \in UploadPixels(o.m, o.d, name)}

CreateCore(m, d) == InTurn(Tried(m, FrameBuffersMade(d)), SetToSeq(Defaults), DefaultMade)

-----------------------------------------------------------------------------
(* SkyEnvironmentGenerationGate.                                           *)

Suspended(gate) == [gate EXCEPT !.observed = NoSky, !.stable = 0]
Deactivated(gate) == [Suspended(gate) EXCEPT !.attempts = 0]

Observed(gate, sky) ==
  IF sky = NoSky THEN Suspended(gate)
  ELSE IF sky = gate.observed THEN [gate EXCEPT !.stable = IF @ < 2 THEN @ + 1 ELSE 2]
  ELSE [gate EXCEPT !.observed = sky, !.stable = 1,
                    !.attempts = IF sky = gate.attempted THEN @ ELSE 0]

(* observe answers TRUE after two equal observations, three times at most  *)
(* for a sky, and never within two seconds of the last attempt (`cooled`:  *)
(* they have passed).                                                      *)
Generates(gate, cooled) ==
  /\ gate.observed # NoSky /\ gate.stable = 2
  /\ gate.observed # gate.completed
  /\ gate.attempts < 3 /\ cooled

Attempting(gate) == [gate EXCEPT !.attempted = gate.observed, !.attempts = @ + 1]
Completed(gate) == [gate EXCEPT !.completed = gate.attempted]

(* createEnvironmentDescriptors makes what is still missing.               *)
Ensured(d, object, needs) ==
  IF object \in d.held THEN Returns(d, TRUE) ELSE Try(d, <<Make(object, needs)>>)

EnvironmentMade(d) ==
  AndThen(AndThen(AndThen(AndThen(Ensured(d, EnvironmentLayout, {}),
                                  LAMBDA e : Ensured(e, <<"environment sampler", 0>>, {})),
                          LAMBDA e : Ensured(e, <<"environment sampler", 1>>, {})),
                  LAMBDA e : Ensured(e, EnvironmentPool, {})),
          LAMBDA e : Ensured(e, EnvironmentSet, {EnvironmentPool, EnvironmentLayout}))

(* The rest of prepareEnvironment once both images are there: the set is   *)
(* written for the new image and the old one is released.                  *)
Replace(m, d, sky) ==
  Released([m EXCEPT !.shows = sky, !.written = sky, !.prepared = TRUE, !.gate = Completed(@)],
           Rewrite(d, {EnvironmentSet, ImageView(sky), ImageView(BrdfTable)}), {m.shows} \ {NoSky, sky})

TableMade(m, d) ==
  IF m.brdf THEN {[d |-> d, m |-> m, ok |-> TRUE]}
  ELSE {IF o.ok THEN [o EXCEPT !.m.brdf = TRUE] ELSE o : o \in UploadPixels(m, d, BrdfTable)}

BindEnvironment(m, d, sky) ==
  {Answers(IF b.ok THEN Replace(m, b.d, sky) ELSE Released(m, b.d, {sky}), b.ok) :
     b \in EnvironmentMade(d)}

Environment(m, d, sky) ==
  Continue(Continue(TableMade(m, d), LAMBDA n, e : UploadPixels(n, e, sky)),
           LAMBDA n, e : BindEnvironment(n, e, sky))

(* Variant for ShowsSky: the reflections of another sky will do.           *)
ShowsSomeSky(m, d, sky) == m.brdf /\ m.shows # NoSky /\ EnvironmentSet \in d.held

(* The reflections at hand are those of this sky.                          *)
ShowsSky(m, d, sky) == m.brdf /\ m.shows = sky /\ EnvironmentSet \in d.held

(* prepareEnvironment *)
Asked(m, sky, cooled) ==
  [m EXCEPT !.gate = IF sky # NoSky /\ Generates(Observed(@, sky), cooled)
                     THEN Attempting(Observed(@, sky)) ELSE Observed(@, sky)]

PrepareEnvironment(m, d, sky, cooled) ==
  IF sky # NoSky /\ ~ ShowsSky(m, d, sky) /\ Generates(Observed(m.gate, sky), cooled)
  THEN Continue(Tried(Asked(m, sky, cooled), Try(d, <<Call({})>>)), LAMBDA n, e : Environment(n, e, sky))
  ELSE {[d |-> d, ok |-> TRUE,
         m |-> [Asked(m, sky, cooled) EXCEPT !.prepared = @ \/ (sky # NoSky /\ ShowsSky(m, d, sky))]]}

-----------------------------------------------------------------------------
(* The steps of prepare after the frame was found to want materials.       *)
PrepareCore(m, d) ==
  IF m.attemptedCore THEN {[d |-> d, m |-> m, ok |-> m.ready]}
  ELSE {[o EXCEPT !.m.ready = o.ok] : o \in CreateCore([m EXCEPT !.attemptedCore = TRUE], d)}

PrepareSky(m, d, sky, cooled, skyAvailable) ==
  IF skyAvailable THEN PrepareEnvironment(m, d, sky, cooled)
  ELSE {[d |-> d, m |-> [m EXCEPT !.gate = Suspended(@)], ok |-> TRUE]}

(* The last steps: nothing is drawn with materials while an upload is      *)
(* pending; otherwise the slot's uniforms are written.                     *)
FillFrame(o, slot) ==
  IF o.m.pending # {} THEN [o EXCEPT !.ok = FALSE]
  ELSE [o EXCEPT !.d = Rewrite(@, {FrameMemory(slot)}), !.ok = TRUE]

(* prepare, for a frame that wants materials or not, and reflections of    *)
(* this sky.  `cooled` and `skyAvailable` as above.                        *)
Unprepared(m, wanted, sky) ==
  [m EXCEPT !.prepared = FALSE, !.gate = IF wanted /\ sky # NoSky THEN @ ELSE Deactivated(@)]

PrepareMaterials(m, d, slot, wanted, sky, cooled, skyAvailable) ==
  UNION {IF ~ r.ok \/ ~ wanted THEN {[r EXCEPT !.m.gate = Suspended(@), !.ok = FALSE]}
         ELSE UNION {IF ~ c.ok THEN {c}
                     ELSE {FillFrame(o, slot) : o \in PrepareSky(c.m, c.d, sky, cooled, skyAvailable)} :
                     c \in PrepareCore(r.m, r.d)} :
         r \in RetirePending(Unprepared(m, wanted, sky), d)}

-----------------------------------------------------------------------------
(* The materials of one mesh: uniforms, a pool with the sets of every slot *)
(* and the images; without a usable image a default stands in.             *)

AssetPool(mesh) == <<"asset pool", mesh>>
AssetSets(mesh) == <<"asset sets", mesh>>
AssetObjects(mesh) == {<<"asset uniforms", mesh>>, <<"asset uniform memory", mesh>>}

(* ~Asset; `names` are the images that nothing else refers to.             *)
DestroyAsset(m, d, mesh, names) ==
  [Released(m, Forget(DestroyPool(d, AssetPool(mesh), {AssetSets(mesh)}), {AssetSets(mesh)}), names)
     EXCEPT !.d = Destroy(@, AssetObjects(mesh))]

SamplerMade(d, key) == Ensured(d, Sampler(key), {})

(* image: the live image of this content, or one decoded and uploaded.     *)
CachedImage(m, d, content) ==
  IF Image(content) \in d.alive THEN {[d |-> d, m |-> m, ok |-> TRUE]}
  ELSE Continue(Tried(m, Try(d, <<Call({})>>)), LAMBDA n, e : UploadPixels(n, e, content))

(* One map of the material.  `fresh`: the images only this upload refers   *)
(* to.  An upload whose completion is not confirmed ends everything.       *)
Fresh(d, content) == {content} \ {c \in Contents : Image(c) \in d.alive}

SamplerForTexture(o, i, content, fresh) ==
  {IF s.ok
   THEN [o EXCEPT !.d = s.d, !.m = i.m, !.images = @ \cup {content}, !.fresh = @ \cup fresh]
   ELSE [o EXCEPT !.d = Released(i.m, s.d, fresh).d, !.m = Released(i.m, s.d, fresh).m] :
     s \in SamplerMade(i.d, 1)}

WithTexture(o, content) ==
  IF ~ o.ok THEN {o}
  ELSE UNION {IF i.ok THEN SamplerForTexture(o, i, content, Fresh(o.d, content))
              ELSE {[o EXCEPT !.d = i.d, !.m = i.m, !.ok = i.m.pending = {}]} :
              i \in CachedImage(o.m, o.d, content)}

(* upload: [d, m, ok, images], rolled back when it fails.                  *)
AssetCalls(mesh) ==
  <<Make(<<"asset uniforms", mesh>>, {}), Make(<<"asset uniform memory", mesh>>, {}),
    Call({}), Make(AssetPool(mesh), {})>>

AssetStarted(m, d, mesh) ==
  {[d |-> o.d, m |-> m, ok |-> o.ok, images |-> {}, fresh |-> {}] :
     o \in AndThen(Try(d, AssetCalls(mesh)), LAMBDA e : SamplerMade(e, 0))}

SetsMade(o, mesh) ==
  IF ~ o.ok THEN {o}
  ELSE {[o EXCEPT !.d = b.d, !.ok = b.ok] :
          b \in Try(o.d, <<Make(AssetSets(mesh), {AssetPool(mesh), MaterialLayout, Sampler(0)}
                     \cup {ImageView(n) : n \in o.images \cup Defaults}
                     \cup {FrameBuffer(s) : s \in FrameSlots})>>)}

Uploaded(o, mesh) ==
  IF o.ok THEN [d |-> o.d, m |-> o.m, ok |-> TRUE, images |-> o.images]
  ELSE LET gone == DestroyAsset(o.m, o.d, mesh, o.fresh)
       IN  [d |-> gone.d, m |-> gone.m, ok |-> FALSE, images |-> {}]

UploadAsset(m, d, mesh, maps) ==
  IF ~ m.ready \/ m.pending # {} THEN {[d |-> d, m |-> m, ok |-> FALSE, images |-> {}]}
  ELSE UNION {{Uploaded(u, mesh) : u \in SetsMade(o, mesh)} :
              o \in InTurn(AssetStarted(m, d, mesh), maps, WithTexture)}

(* bind, bindEnvironment: what a draw with these materials refers to.      *)
AssetWork(mesh, images, slot) ==
  {AssetPool(mesh), AssetSets(mesh), FrameBuffer(slot), FrameMemory(slot)} \cup AssetObjects(mesh)
    \cup UNION {ImageObjects(n) : n \in images \cup Defaults}
EnvironmentWork(m) ==
  {EnvironmentSet, EnvironmentPool} \cup EnvironmentSamplers
    \cup ImageObjects(m.written) \cup ImageObjects(BrdfTable)

-----------------------------------------------------------------------------
(* finishPendingUpload: three waits; the program is terminated after that. *)
Again(outcomes) == UNION {IF o.ok THEN {o} ELSE RetirePending(o.m, o.d) : o \in outcomes}
FinishPending(m, d) == Again(Again(RetirePending(m, d)))

(* shutdown, once nothing is pending.                                      *)
DestroyMaterials(m, d) ==
  IF m.device
  THEN Forget(Destroy(DestroyPool(d, EnvironmentPool, {EnvironmentSet}),
                      EnvironmentSamplers \cup {EnvironmentLayout} \cup MaterialsCore \cup Samplers
                        \cup UNION {ImageObjects(n) : n \in Kept(m)}),
              {EnvironmentSet})
  ELSE d
=============================================================================
