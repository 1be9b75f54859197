----------------------- MODULE VulkanResources_proofs -----------------------
(***************************************************************************)
(* Proofs about VulkanResources, the second part: the whole backend.       *)
(*                                                                         *)
(* The invariant is KInv: the driver is clean, every part owns what its    *)
(* state says (Owned), the backend is dressed with a swapchain or          *)
(* undressed (Dressed, Undressed), what the submitted work of a slot uses  *)
(* stays until that slot comes round again (WorksStay), and the frame      *)
(* being drawn has recorded nothing else (FrameInv). Misuse, loss and a    *)
(* wrong budget are then impossible in the state itself. It goes call by   *)
(* call: mesh uploads and their removal, the stages of beginFrame,         *)
(* recording, the swapchain, creation from any point where it stopped,     *)
(* shutdown.                                                               *)
(***************************************************************************)
EXTENDS VulkanParts_proofs

(* The upload of a mesh's materials under way.                             *)
SameAssets(d, e, mesh) ==
  \A x : x[1] \in AssetKinds /\ x \notin AssetAll(mesh) => (x \in e.held <=> x \in d.held)
LoadsImages(others, o) ==
  /\ o.images \subseteq Contents /\ o.images \subseteq others \cup o.fresh
  /\ o.fresh \subseteq o.images /\ o.fresh \cap others = {}
Loads(d, m, mesh, others, o) ==
  /\ IsLoading(o) /\ o.ok \in BOOLEAN
  /\ Becomes(d, o.d, LoadKinds, FrameSlots) /\ SameAssets(d, o.d, mesh)
  /\ OnlyCounts(m, o.m) /\ MatOwns(o.m, o.d, others \cup o.images)
  /\ LoadsImages(others, o)
  /\ o.ok => o.m.pending = {}
(* Before its sets are allocated.                                          *)
AssetBegun(mesh, o) ==
  /\ AssetSets(mesh) \notin o.d.held
  /\ o.ok => AssetPool(mesh) \in o.d.held /\ AssetObjects(mesh) \subseteq o.d.held /\ Sampler(0) \in o.d.held

(* A change of images is one of the kinds a material upload touches.       *)
LEMMA KinderLoads ==
  ASSUME NEW d, NEW e, Kinder(d, e), NEW mesh
  PROVE  /\ Becomes(d, e, LoadKinds, FrameSlots) /\ SameAssets(d, e, mesh)
         /\ \A x : x[1] \in CoreKinds \cup AssetKinds => (x \in e.held <=> x \in d.held)
<1>1. PixelKinds \subseteq LoadKinds
  BY DEF LoadKinds
<1>2. Becomes(d, e, LoadKinds, FrameSlots)
  BY <1>1, BecomesWider DEF Kinder
<1>3. \A x : x[1] \in CoreKinds \cup AssetKinds => (x \in e.held <=> x \in d.held)
  BY MaterialKindsDiffer DEF Kinder, Becomes
<1> QED BY <1>2, <1>3 DEF SameAssets

(* The sampler of a map is ensured within the upload's kinds.              *)
LEMMA SamplerLoads ==
  ASSUME NEW d, Clean(d), NEW key \in {0, 1}, NEW s \in SamplerMade(d, key), NEW mesh
  PROVE  /\ EnsuredBy(d, {Sampler(key)}, s) /\ Sampler(key) \in Samplers
         /\ Becomes(d, s.d, LoadKinds, FrameSlots) /\ SameAssets(d, s.d, mesh)
         /\ \A x : x[1] \in AssetKinds => (x \in s.d.held <=> x \in d.held)
<1>1. s \in Ensured(d, Sampler(key), {})
  BY DEF SamplerMade
<1>2. EnsuredBy(d, {Sampler(key)}, s)
  BY <1>1, EnsuredMakes
<1>3. Sampler(key) \in Samplers
  BY DEF Samplers
<1>4. /\ Clean(s.d) /\ s.d.work = d.work /\ s.d.refusals >= d.refusals
      /\ d.held \subseteq s.d.held /\ s.d.held \subseteq d.held \cup {Sampler(key)}
  BY <1>2 DEF EnsuredBy
<1>5. Sampler(key)[1] \in CoreKinds
  BY <1>3, CoreOfMaterials
<1>6. Becomes(d, s.d, LoadKinds, FrameSlots)
  BY <1>4, <1>5 DEF Becomes, LoadKinds
<1>7. \A x : x[1] \in AssetKinds => (x \in s.d.held <=> x \in d.held)
  BY <1>4, <1>5, MaterialKindsDiffer
<1> QED BY <1>2, <1>3, <1>6, <1>7 DEF SameAssets

(* Changes that leave other meshes' materials alone compose.               *)
LEMMA SameAssetsThen ==
  ASSUME NEW d, NEW e, NEW g, NEW mesh, SameAssets(d, e, mesh), SameAssets(e, g, mesh)
  PROVE  SameAssets(d, g, mesh)
BY DEF SameAssets

(* The sampler of a map; without one, an image nobody else needs goes.     *)
LEMMA SamplerForTextureLoads ==
  ASSUME NEW d, Clean(d), NEW m, m.attemptedCore, m.device, m.pending = {}, NEW others, MatOwns(m, d, others), NEW mesh,
         AssetAll(mesh) \cap d.held = {}, NEW o, Loads(d, m, mesh, others, o), AssetBegun(mesh, o), o.ok,
         NEW content \in Contents, NEW i, NEW fresh, i.ok, Cached(o.d, o.m, others \cup o.images, content, fresh, i),
         NEW q \in SamplerForTexture(o, i, content, fresh)
  PROVE  Loads(d, m, mesh, others, q) /\ AssetBegun(mesh, q)
<1>1. PICK s \in SamplerMade(i.d, 1) :
        q = IF s.ok
            THEN [o EXCEPT !.d = s.d, !.m = i.m, !.images = @ \cup {content}, !.fresh = @ \cup fresh]
            ELSE [o EXCEPT !.d = Released(i.m, s.d, fresh).d, !.m = Released(i.m, s.d, fresh).m]
  BY DEF SamplerForTexture
<1>2. PICK now, b, n : now = others \cup o.images /\ b = i.d /\ n = i.m
  OBVIOUS
<1>3. /\ Kinder(o.d, b) /\ OnlyCounts(o.m, n) /\ MatOwns(n, b, now \cup {content}) /\ n.pending = {}
      /\ fresh \subseteq {content} /\ fresh \cap now = {} /\ content \in now \cup fresh
  BY <1>2 DEF Cached
<1>4. /\ IsLoading(o) /\ Becomes(d, o.d, LoadKinds, FrameSlots) /\ SameAssets(d, o.d, mesh)
      /\ OnlyCounts(m, o.m) /\ LoadsImages(others, o)
  BY DEF Loads
<1>5. /\ Becomes(o.d, b, LoadKinds, FrameSlots) /\ SameAssets(o.d, b, mesh)
      /\ \A x : x[1] \in CoreKinds \cup AssetKinds => (x \in b.held <=> x \in o.d.held)
  BY <1>3, KinderLoads
<1>6. Becomes(d, b, LoadKinds, FrameSlots) /\ SameAssets(d, b, mesh) /\ Clean(b)
  <2>1. Becomes(d, b, LoadKinds, FrameSlots) /\ SameAssets(d, b, mesh)
    BY <1>4, <1>5, BecomesThen, SameAssetsThen
  <2> QED BY <1>5, <2>1 DEF Becomes
<1>7. OnlyCounts(m, n) /\ n.attemptedCore /\ n.device
  BY <1>3, <1>4, CountsThen DEF OnlyCounts
<1>8. PICK e : e = s.d
  OBVIOUS
<1>9. s \in SamplerMade(b, 1) /\ 1 \in {0, 1}
  BY <1>1, <1>2
<1>10. /\ EnsuredBy(b, {Sampler(1)}, s) /\ Sampler(1) \in Samplers
       /\ Becomes(b, e, LoadKinds, FrameSlots) /\ SameAssets(b, e, mesh)
       /\ \A x : x[1] \in AssetKinds => (x \in e.held <=> x \in b.held)
  BY <1>6, <1>8, <1>9, SamplerLoads
<1>11. /\ Clean(e) /\ e.work = b.work /\ b.held \subseteq e.held /\ e.held \subseteq b.held \cup {Sampler(1)}
  BY <1>8, <1>10 DEF EnsuredBy
<1>12. PICK both : both = now \cup {content}
  OBVIOUS
<1>13. MatOwns(n, b, both)
  BY <1>3, <1>12
<1>14. MatOwns(n, e, both)
  BY <1>7, <1>10, <1>11, <1>13, MatSampled
<1>15. Becomes(d, e, LoadKinds, FrameSlots) /\ SameAssets(d, e, mesh)
  BY <1>6, <1>10, BecomesThen, SameAssetsThen
<1>16. \A x : x[1] \in AssetKinds => (x \in e.held <=> x \in o.d.held)
  BY <1>5, <1>10
<1>17. Sampler(0) \in o.d.held => Sampler(0) \in e.held
  <2>1. Sampler(0)[1] \in CoreKinds
    BY CoreOfMaterials DEF Samplers
  <2> QED BY <1>5, <1>11, <2>1
<1>18. /\ AssetPool(mesh)[1] \in AssetKinds /\ AssetSets(mesh)[1] \in AssetKinds
       /\ \A x \in AssetObjects(mesh) : x[1] \in AssetKinds
  BY AssetObjectsAre
<1>19. CASE s.ok
  <2>1. /\ q.d = e /\ q.m = n /\ q.ok = o.ok /\ q.images = o.images \cup {content} /\ q.fresh = o.fresh \cup fresh
        /\ IsLoading(q)
    BY <1>1, <1>2, <1>4, <1>8, <1>19 DEF IsLoading
  <2>2. others \cup q.images = both
    BY <1>2, <1>12, <2>1
  <2>3. LoadsImages(others, q)
    BY <1>2, <1>3, <1>4, <2>1 DEF LoadsImages
  <2>4. AssetBegun(mesh, q)
    BY <1>16, <1>17, <1>18, <2>1 DEF AssetBegun
  <2> QED BY <1>3, <1>7, <1>14, <1>15, <2>1, <2>2, <2>3, <2>4 DEF Loads
<1>20. CASE ~ s.ok
  <2>1. PICK r : r \in {Released(n, e, fresh)}
    OBVIOUS
  <2>2. q.d = r.d /\ q.m = r.m /\ q.ok = o.ok /\ q.images = o.images /\ q.fresh = o.fresh /\ IsLoading(q)
    BY <1>1, <1>2, <1>4, <1>8, <1>20, <2>1 DEF IsLoading
  <2>3. now \in {both \ fresh} /\ fresh \subseteq both
    BY <1>3, <1>12
  <2>4. fresh \cap Stored(n) = {}
    BY <1>3, <1>14, StoredAreNoContents
  <2>5. fresh \subseteq both \cap Contents /\ fresh \cap others = {}
    BY <1>2, <1>3, <1>12
  <2>6. Busy(e) \cap AllOf(fresh) = {}
    BY <1>14, <1>15, <2>5, FreshIsIdle
  <2>7. Releases(e, n, fresh, now, r)
    BY <1>7, <1>11, <1>14, <2>1, <2>3, <2>4, <2>6, ReleasedOwns
  <2>8. /\ Kinder(e, r.d) /\ OnlyCounts(n, r.m) /\ MatOwns(r.m, r.d, now) /\ r.m.pending = n.pending
    BY <2>7 DEF Releases
  <2>9. /\ Becomes(e, r.d, LoadKinds, FrameSlots) /\ SameAssets(e, r.d, mesh)
        /\ \A x : x[1] \in CoreKinds \cup AssetKinds => (x \in r.d.held <=> x \in e.held)
    BY <2>8, KinderLoads
  <2>10. Becomes(d, r.d, LoadKinds, FrameSlots) /\ SameAssets(d, r.d, mesh)
    BY <1>15, <2>9, BecomesThen, SameAssetsThen
  <2>11. OnlyCounts(m, r.m)
    BY <1>7, <2>8, CountsThen
  <2>12. AssetBegun(mesh, q)
    <3>1. Sampler(0)[1] \in CoreKinds
      BY CoreOfMaterials DEF Samplers
    <3> QED BY <1>16, <1>17, <1>18, <2>2, <2>9, <3>1 DEF AssetBegun
  <2>13. LoadsImages(others, q)
    BY <1>4, <2>2 DEF LoadsImages
  <2> QED BY <1>2, <1>3, <2>2, <2>8, <2>10, <2>11, <2>12, <2>13 DEF Loads
<1>21. s.ok \in BOOLEAN
  BY <1>10 DEF EnsuredBy
<1> QED BY <1>19, <1>20, <1>21

(* One more map of a material.                                             *)
LEMMA WithTextureLoads ==
  ASSUME NEW d, Clean(d), NEW m, m.attemptedCore, m.device, m.pending = {}, NEW others, MatOwns(m, d, others), NEW mesh,
         AssetAll(mesh) \cap d.held = {}, NEW o, Loads(d, m, mesh, others, o), AssetBegun(mesh, o),
         NEW content \in Contents, NEW q \in WithTexture(o, content)
  PROVE  Loads(d, m, mesh, others, q) /\ AssetBegun(mesh, q)
<1>1. CASE ~ o.ok
  <2>1. q = o
    BY <1>1 DEF WithTexture
  <2> QED BY <2>1
<1>2. CASE o.ok
  <2>1. PICK i \in CachedImage(o.m, o.d, content) :
          q \in IF i.ok THEN SamplerForTexture(o, i, content, Fresh(o.d, content))
                ELSE {[o EXCEPT !.d = i.d, !.m = i.m, !.ok = i.m.pending = {}]}
    BY <1>2 DEF WithTexture
  <2>2. PICK fresh, now : fresh = Fresh(o.d, content) /\ now = others \cup o.images
    OBVIOUS
  <2>3. /\ IsLoading(o) /\ Becomes(d, o.d, LoadKinds, FrameSlots) /\ SameAssets(d, o.d, mesh)
        /\ OnlyCounts(m, o.m) /\ LoadsImages(others, o) /\ MatOwns(o.m, o.d, now) /\ o.m.pending = {}
    BY <1>2, <2>2 DEF Loads
  <2>4. o.m.device /\ o.m.attemptedCore /\ Clean(o.d)
    BY <2>3 DEF OnlyCounts, Becomes
  <2>5. Cached(o.d, o.m, now, content, fresh, i)
    BY <2>1, <2>2, <2>3, <2>4, CachedImageOwns
  <2>6. CASE i.ok
    <3>1. q \in SamplerForTexture(o, i, content, fresh)
      BY <2>1, <2>2, <2>6
    <3>2. Cached(o.d, o.m, others \cup o.images, content, fresh, i)
      BY <2>2, <2>5
    <3> QED BY <1>2, <2>6, <3>1, <3>2, SamplerForTextureLoads
  <2>7. CASE ~ i.ok
    <3>1. PICK b, n, ok : b = i.d /\ n = i.m /\ ok \in BOOLEAN /\ (ok <=> n.pending = {})
      OBVIOUS
    <3>2. q.d = b /\ q.m = n /\ (q.ok <=> n.pending = {}) /\ q.ok \in BOOLEAN /\ q.images = o.images /\ q.fresh = o.fresh
          /\ IsLoading(q)
      BY <2>1, <2>3, <2>7, <3>1 DEF IsLoading
    <3>3. Kinder(o.d, b) /\ OnlyCounts(o.m, n) /\ MatOwns(n, b, now)
      BY <2>5, <2>7, <3>1 DEF Cached
    <3>4. /\ Becomes(o.d, b, LoadKinds, FrameSlots) /\ SameAssets(o.d, b, mesh)
          /\ \A x : x[1] \in CoreKinds \cup AssetKinds => (x \in b.held <=> x \in o.d.held)
      BY <3>3, KinderLoads
    <3>5. Becomes(d, b, LoadKinds, FrameSlots) /\ SameAssets(d, b, mesh)
      BY <2>3, <3>4, BecomesThen, SameAssetsThen
    <3>6. OnlyCounts(m, n)
      BY <2>3, <3>3, CountsThen
    <3>7. AssetBegun(mesh, q)
      <4>1. Sampler(0)[1] \in CoreKinds
        BY CoreOfMaterials DEF Samplers
      <4>2. /\ AssetPool(mesh)[1] \in AssetKinds /\ AssetSets(mesh)[1] \in AssetKinds
            /\ \A x \in AssetObjects(mesh) : x[1] \in AssetKinds
        BY AssetObjectsAre
      <4> QED BY <1>2, <3>2, <3>4, <4>1, <4>2 DEF AssetBegun
    <3>8. LoadsImages(others, q)
      BY <2>3, <3>2 DEF LoadsImages
    <3> QED BY <2>2, <3>2, <3>3, <3>5, <3>6, <3>7, <3>8 DEF Loads
  <2> QED BY <2>6, <2>7
<1>3. o.ok \in BOOLEAN
  BY DEF Loads
<1> QED BY <1>1, <1>2, <1>3

(* The beginning of a material upload: its uniforms.                       *)
LEMMA AssetStartedLoads ==
  ASSUME NEW d, Clean(d), NEW m, m.attemptedCore, m.device, m.pending = {}, NEW others, MatOwns(m, d, others),
         others \subseteq Contents, NEW mesh, AssetAll(mesh) \cap d.held = {}, NEW x \in AssetStarted(m, d, mesh)
  PROVE  Loads(d, m, mesh, others, x) /\ AssetBegun(mesh, x)
<1>1. PICK o \in AndThen(Try(d, AssetCalls(mesh)), LAMBDA e : SamplerMade(e, 0)) :
        x = [d |-> o.d, m |-> m, ok |-> o.ok, images |-> {}, fresh |-> {}]
  BY DEF AssetStarted
<1>2. PICK a \in Try(d, AssetCalls(mesh)) : o \in IF a.ok THEN SamplerMade(a.d, 0) ELSE {a}
  BY <1>1 DEF AndThen
<1>3. PICK made : made = {<<"asset uniforms", mesh>>, <<"asset uniform memory", mesh>>, AssetPool(mesh)}
  OBVIOUS
<1>4. made = AssetObjects(mesh) \cup {AssetPool(mesh)} /\ made \subseteq AssetAll(mesh) /\ AssetSets(mesh) \notin made
  <2>1. made = AssetObjects(mesh) \cup {AssetPool(mesh)}
    BY <1>3 DEF AssetObjects
  <2> QED BY <2>1, AssetObjectsAre
<1>5. Adds(d, a, made)
  <2>1. (AssetObjects(mesh) \cup {AssetPool(mesh)}) \cap d.held = {}
    BY <1>4
  <2>2. Makes(AssetCalls(mesh), d.held, Busy(d), made)
    BY <1>3, <2>1, AssetMakes
  <2> QED BY <1>2, <2>2, TryMakes
<1>6. PICK e : e = a.d
  OBVIOUS
<1>7. Becomes(d, e, AssetKinds, FrameSlots)
  <2>1. \A y \in made : y[1] \in AssetKinds
    BY <1>4, AssetObjectsAre
  <2>2. Becomes(d, a.d, AssetKinds, FrameSlots)
    BY <1>5, <2>1, AddsBecomes
  <2> QED BY <1>6, <2>2
<1>8. /\ Clean(e) /\ e.work = d.work /\ d.held \subseteq e.held /\ e.held \subseteq d.held \cup made
      /\ a.ok \in BOOLEAN /\ (a.ok => made \subseteq e.held)
  BY <1>5, <1>6 DEF Adds
<1>9. Becomes(d, e, LoadKinds, FrameSlots)
  BY <1>7, BecomesWider DEF LoadKinds
<1>10. SameAssets(d, e, mesh)
  BY <1>4, <1>8 DEF SameAssets
<1>11. MatOwns(m, e, others)
  <2>1. \A y : y[1] \in PrepareKinds => y[1] \notin AssetKinds
    BY MaterialKindsDiffer DEF PrepareKinds
  <2>2. SameOf(PrepareKinds, d.held, e.held)
    BY <1>7, <2>1 DEF Becomes, SameOf
  <2> QED BY <1>8, <2>2, MatSame
<1>12. AssetSets(mesh) \notin e.held
  BY <1>4, <1>8 DEF AssetAll
<1>13. IsLoading(x) /\ x.d = o.d /\ x.m = m /\ x.ok = o.ok /\ x.images = {} /\ x.fresh = {}
  BY <1>1 DEF IsLoading
<1>14. OnlyCounts(m, m) /\ IsMaterials(m)
  <2>1. IsMaterials(m)
    BY DEF MatOwns, MaterialFlags
  <2> QED BY <2>1, CountsOnly
<1>15. LoadsImages(others, x)
  BY <1>13 DEF LoadsImages
<1>16. others \cup x.images = others
  BY <1>13
<1>17. CASE ~ a.ok
  <2>1. x.d = e /\ x.ok = FALSE
    BY <1>2, <1>6, <1>8, <1>13, <1>17
  <2> QED BY <1>9, <1>10, <1>11, <1>12, <1>13, <1>14, <1>15, <1>16, <2>1 DEF Loads, AssetBegun
<1>18. CASE a.ok
  <2>1. PICK g : g = o.d
    OBVIOUS
  <2>2. o \in SamplerMade(e, 0) /\ 0 \in {0, 1}
    BY <1>2, <1>6, <1>18
  <2>3. /\ EnsuredBy(e, {Sampler(0)}, o) /\ Sampler(0) \in Samplers
        /\ Becomes(e, g, LoadKinds, FrameSlots) /\ SameAssets(e, g, mesh)
        /\ \A y : y[1] \in AssetKinds => (y \in g.held <=> y \in e.held)
    BY <1>8, <2>1, <2>2, SamplerLoads
  <2>4. /\ Clean(g) /\ g.work = e.work /\ e.held \subseteq g.held /\ g.held \subseteq e.held \cup {Sampler(0)}
        /\ o.ok \in BOOLEAN /\ (o.ok => Sampler(0) \in g.held)
    BY <2>1, <2>3 DEF EnsuredBy
  <2>5. MatOwns(m, g, others)
    BY <1>11, <2>3, <2>4, MatSampled
  <2>6. Becomes(d, g, LoadKinds, FrameSlots) /\ SameAssets(d, g, mesh)
    BY <1>9, <1>10, <2>3, BecomesThen, SameAssetsThen
  <2>7. AssetSets(mesh) \notin g.held
    BY <1>12, <2>3, AssetObjectsAre
  <2>8. made \subseteq g.held
    BY <1>8, <1>18, <2>4
  <2>9. x.d = g /\ x.ok \in BOOLEAN
    BY <1>13, <2>1, <2>4
  <2>10. Loads(d, m, mesh, others, x)
    BY <1>13, <1>14, <1>15, <1>16, <2>5, <2>6, <2>9 DEF Loads
  <2>11. AssetBegun(mesh, x)
    BY <1>4, <1>13, <2>4, <2>7, <2>8, <2>9 DEF AssetBegun
  <2> QED BY <2>10, <2>11
<1> QED BY <1>8, <1>17, <1>18

(* The loop over a material's maps.                                        *)
LEMMA AssetMapsLoad ==
  ASSUME NEW d, Clean(d), NEW m, m.attemptedCore, m.device, m.pending = {}, NEW others, MatOwns(m, d, others),
         others \subseteq Contents, NEW mesh, AssetAll(mesh) \cap d.held = {}, NEW maps \in Seq(Contents),
         NEW p \in InTurn(AssetStarted(m, d, mesh), maps, WithTexture)
  PROVE  Loads(d, m, mesh, others, p) /\ AssetBegun(mesh, p)
<1>1. Len(maps) \in Nat
  OBVIOUS
<1>2. PICK outcomes, last : outcomes = AssetStarted(m, d, mesh) /\ last = Len(maps)
  OBVIOUS
<1>3. PICK f : IsRun(f, "map", 0, outcomes, maps, last) /\ p \in f[last]
  BY <1>1, <1>2, TextureRun
<1> DEFINE G == {x \in Reached(f, last) : Loads(d, m, mesh, others, x) /\ AssetBegun(mesh, x)}
<1>4. \A x \in outcomes \cap Reached(f, last) : x \in G
  BY <1>2, AssetStartedLoads
<1>5. ASSUME NEW n \in 1 .. last, NEW x \in f[n - 1] \cap G, NEW q \in Stage("map", 0, x, maps[n]) \cap Reached(f, last)
      PROVE  q \in G
  <2>1. q \in WithTexture(x, maps[n])
    BY <1>5 DEF Stage
  <2>2. maps[n] \in Contents
    BY <1>2
  <2>3. Loads(d, m, mesh, others, x) /\ AssetBegun(mesh, x)
    OBVIOUS
  <2>4. Loads(d, m, mesh, others, q) /\ AssetBegun(mesh, q)
    BY <2>1, <2>2, <2>3, WithTextureLoads
  <2> QED BY <2>4
<1>6. last \in Nat
  BY <1>1, <1>2
<1> HIDE DEF G
<1>7. f[last] \subseteq G
  BY <1>3, <1>4, <1>5, <1>6, RunKeeps
<1> QED BY <1>3, <1>7 DEF G

(* Its sets are allocated.                                                 *)
AssetComplete(mesh, u) ==
  /\ AssetSets(mesh) \in u.d.held => AssetPool(mesh) \in u.d.held
  /\ u.ok => AssetAll(mesh) \subseteq u.d.held

(* Pool and sets complete a material.                                      *)
LEMMA SetsMadeLoad ==
  ASSUME NEW d, Clean(d), NEW m, m.attemptedCore, m.device, m.ready, NEW others, NEW mesh,
         NEW o, Loads(d, m, mesh, others, o), AssetBegun(mesh, o), NEW u \in SetsMade(o, mesh)
  PROVE  Loads(d, m, mesh, others, u) /\ AssetComplete(mesh, u)
<1>1. CASE ~ o.ok
  <2>1. u = o
    BY <1>1 DEF SetsMade
  <2> QED BY <1>1, <2>1 DEF AssetComplete, AssetBegun
<1>2. CASE o.ok
  <2>1. PICK needs : needs = {AssetPool(mesh), MaterialLayout, Sampler(0)}
                     \cup {ImageView(n) : n \in o.images \cup Defaults}
                     \cup {FrameBuffer(s) : s \in FrameSlots}
    OBVIOUS
  <2>2. PICK b \in Try(o.d, <<Make(AssetSets(mesh), needs)>>) : u = [o EXCEPT !.d = b.d, !.ok = b.ok]
    BY <1>2, <2>1 DEF SetsMade
  <2>3. PICK e, k : e = o.d /\ k = o.m
    OBVIOUS
  <2>4. /\ IsLoading(o) /\ Becomes(d, e, LoadKinds, FrameSlots) /\ SameAssets(d, e, mesh)
        /\ OnlyCounts(m, k) /\ MatOwns(k, e, others \cup o.images) /\ LoadsImages(others, o) /\ k.pending = {}
    BY <1>2, <2>3 DEF Loads
  <2>5. /\ AssetSets(mesh) \notin e.held /\ AssetPool(mesh) \in e.held /\ AssetObjects(mesh) \subseteq e.held
        /\ Sampler(0) \in e.held
    BY <1>2, <2>3 DEF AssetBegun
  <2>6. k.ready /\ k.defaults = Defaults /\ MaterialsCore \subseteq e.held
    BY <2>4 DEF OnlyCounts, MatOwns, CoreHolds
  <2>7. needs \subseteq e.held
    <3>1. ASSUME NEW n \in o.images \cup Defaults PROVE ImageView(n) \in e.held
      <4>1. n \in Stored(k) \cup k.pending \cup (others \cup o.images) /\ n \notin k.pending
        BY <2>4, <2>6 DEF Stored
      <4>2. Stock(e.held, Stored(k) \cup k.pending \cup (others \cup o.images), k.pending, k.used)
        BY <2>4 DEF MatOwns
      <4> QED BY <4>1, <4>2 DEF Stock
    <3>2. MaterialLayout \in e.held /\ \A s \in FrameSlots : FrameBuffer(s) \in e.held
      BY <2>6 DEF MaterialsCore
    <3> QED BY <2>1, <2>5, <3>1, <3>2
  <2>8. Clean(e)
    BY <2>4 DEF Becomes
  <2>9. Adds(e, b, {AssetSets(mesh)})
    <3>1. Makes(<<Make(AssetSets(mesh), needs)>>, e.held, Busy(e), {AssetSets(mesh)})
      BY <2>5, <2>7, SetsMake
    <3>2. b \in Try(e, <<Make(AssetSets(mesh), needs)>>)
      BY <2>2, <2>3
    <3> QED BY <2>8, <3>1, <3>2, TryMakes
  <2>10. PICK g : g = b.d
    OBVIOUS
  <2>11. /\ Clean(g) /\ g.work = e.work /\ e.held \subseteq g.held /\ g.held \subseteq e.held \cup {AssetSets(mesh)}
         /\ b.ok \in BOOLEAN /\ (b.ok => AssetSets(mesh) \in g.held)
    BY <2>9, <2>10 DEF Adds
  <2>12. AssetSets(mesh) \in AssetAll(mesh) /\ AssetSets(mesh)[1] \in AssetKinds
    BY AssetObjectsAre DEF AssetAll
  <2>13. Becomes(e, g, AssetKinds, FrameSlots)
    <3>1. \A y \in {AssetSets(mesh)} : y[1] \in AssetKinds
      BY <2>12
    <3>2. Becomes(e, b.d, AssetKinds, FrameSlots)
      BY <2>8, <2>9, <3>1, AddsBecomes
    <3> QED BY <2>10, <3>2
  <2>14. Becomes(e, g, LoadKinds, FrameSlots) /\ SameAssets(e, g, mesh)
    <3>1. Becomes(e, g, LoadKinds, FrameSlots)
      BY <2>13, BecomesWider DEF LoadKinds
    <3> QED BY <2>11, <2>12, <3>1 DEF SameAssets
  <2>15. Becomes(d, g, LoadKinds, FrameSlots) /\ SameAssets(d, g, mesh)
    BY <2>4, <2>14, BecomesThen, SameAssetsThen
  <2>16. MatOwns(k, g, others \cup o.images)
    <3>1. \A y : y[1] \in PrepareKinds => y[1] \notin AssetKinds
      BY MaterialKindsDiffer DEF PrepareKinds
    <3>2. SameOf(PrepareKinds, e.held, g.held)
      BY <2>13, <3>1 DEF Becomes, SameOf
    <3> QED BY <2>4, <2>11, <3>2, MatSame
  <2>17. /\ u.d = g /\ u.ok = b.ok /\ u.m = k /\ u.images = o.images /\ u.fresh = o.fresh /\ IsLoading(u)
    BY <2>2, <2>3, <2>4, <2>10 DEF IsLoading
  <2>18. LoadsImages(others, u)
    BY <2>4, <2>17 DEF LoadsImages
  <2>19. Loads(d, m, mesh, others, u)
    BY <2>4, <2>11, <2>15, <2>16, <2>17, <2>18 DEF Loads
  <2>20. AssetComplete(mesh, u)
    BY <2>5, <2>11, <2>17 DEF AssetComplete, AssetAll
  <2> QED BY <2>19, <2>20
<1>3. o.ok \in BOOLEAN
  BY DEF Loads
<1> QED BY <1>1, <1>2, <1>3

(* What uploading the materials of a mesh leaves behind.                   *)
AssetUploaded(d, m, mesh, others, o) ==
  /\ Becomes(d, o.d, LoadKinds, FrameSlots) /\ SameAssets(d, o.d, mesh) /\ OnlyCounts(m, o.m)
  /\ o.ok \in BOOLEAN /\ o.images \subseteq Contents /\ MatOwns(o.m, o.d, others \cup o.images)
  /\ IF o.ok THEN AssetAll(mesh) \subseteq o.d.held /\ m.ready
     ELSE AssetAll(mesh) \cap o.d.held = {} /\ o.images = {}

(* A material upload is committed whole or taken back whole.               *)
LEMMA UploadedOwns ==
  ASSUME NEW d, Clean(d), NEW m, m.attemptedCore, m.device, m.ready, m.pending = {}, NEW others, MatOwns(m, d, others),
         NEW mesh, AssetAll(mesh) \cap d.held = {},
         NEW u, Loads(d, m, mesh, others, u), AssetComplete(mesh, u), NEW o \in {Uploaded(u, mesh)}
  PROVE  AssetUploaded(d, m, mesh, others, o)
<1>1. PICK e, k, both, fresh : e = u.d /\ k = u.m /\ both = others \cup u.images /\ fresh = u.fresh
  OBVIOUS
<1>2. /\ Becomes(d, e, LoadKinds, FrameSlots) /\ SameAssets(d, e, mesh) /\ u.ok \in BOOLEAN
      /\ OnlyCounts(m, k) /\ MatOwns(k, e, both) /\ LoadsImages(others, u)
  BY <1>1 DEF Loads
<1>3. CASE u.ok
  <2>1. o = [d |-> e, m |-> k, ok |-> TRUE, images |-> u.images]
    BY <1>1, <1>3 DEF Uploaded
  <2>2. AssetAll(mesh) \subseteq e.held
    BY <1>1, <1>3 DEF AssetComplete
  <2> QED BY <1>1, <1>2, <2>1, <2>2 DEF AssetUploaded, LoadsImages
<1>4. CASE ~ u.ok
  <2>1. PICK g : g \in {DestroyAsset(k, e, mesh, fresh)}
    OBVIOUS
  <2>2. o = [d |-> g.d, m |-> g.m, ok |-> FALSE, images |-> {}]
    BY <1>1, <1>4, <2>1 DEF Uploaded
  <2>3. fresh \subseteq both \cap Contents /\ fresh \cap others = {} /\ fresh \subseteq both /\ others \in {both \ fresh}
    BY <1>1, <1>2 DEF LoadsImages
  <2>4. Busy(e) \cap AllOf(fresh) = {} /\ Busy(e) \cap AssetAll(mesh) = {}
    BY <1>2, <2>3, FreshIsIdle
  <2>5. fresh \cap Stored(k) = {}
    BY <1>2, <2>3, StoredAreNoContents
  <2>6. AssetSets(mesh) \in e.held => AssetPool(mesh) \in e.held
    BY <1>1 DEF AssetComplete
  <2>7. Clean(e) /\ k.device
    BY <1>2 DEF Becomes, OnlyCounts
  <2>8. Unloads(e, k, mesh, fresh, others, g)
    BY <1>2, <2>1, <2>3, <2>4, <2>5, <2>6, <2>7, DestroyAssetOwns
  <2>9. /\ Clean(g.d) /\ OnlyCounts(k, g.m) /\ MatOwns(g.m, g.d, others)
        /\ g.d.work = e.work /\ g.d.refusals >= e.refusals
        /\ g.d.held = e.held \ (AllOf(fresh) \cup AssetAll(mesh))
    BY <2>8 DEF Unloads
  <2>10. \A x \in AllOf(fresh) : x[1] \in PixelKinds
    <3> TAKE x \in AllOf(fresh)
    <3>1. PICK n \in fresh : x \in ImageObjects(n)
      BY DEF AllOf
    <3> QED BY <3>1, PixelObjectsAre
  <2>11. Becomes(e, g.d, LoadKinds, FrameSlots)
    <3>1. \A x \in AllOf(fresh) \cup AssetAll(mesh) : x[1] \in LoadKinds
      BY <2>10, AssetObjectsAre DEF LoadKinds
    <3> QED BY <2>9, <3>1 DEF Becomes
  <2>12. SameAssets(e, g.d, mesh)
    <3>1. \A x \in AllOf(fresh) : x[1] \notin AssetKinds
      BY <2>10, MaterialKindsDiffer
    <3> QED BY <2>9, <3>1 DEF SameAssets
  <2>13. PICK h : h = g.d
    OBVIOUS
  <2>14. Becomes(d, h, LoadKinds, FrameSlots) /\ SameAssets(d, h, mesh)
    BY <1>2, <2>11, <2>12, <2>13, BecomesThen, SameAssetsThen
  <2>15. OnlyCounts(m, g.m)
    BY <1>2, <2>9, CountsThen
  <2>16. AssetAll(mesh) \cap h.held = {}
    BY <2>9, <2>13
  <2>17. /\ o.d = h /\ o.m = g.m /\ o.ok = FALSE /\ o.images = {}
         /\ others \cup o.images = others
    BY <2>2, <2>13
  <2>18. MatOwns(o.m, o.d, others \cup o.images)
    BY <2>9, <2>13, <2>17
  <2> QED BY <2>14, <2>15, <2>16, <2>17, <2>18 DEF AssetUploaded
<1> QED BY <1>2, <1>3, <1>4

(* uploadAsset leaves a complete material with its images, or nothing of   *)
(* it.                                                                     *)
LEMMA UploadAssetOwns ==
  ASSUME NEW d, Clean(d), NEW m, m.device, NEW others, MatOwns(m, d, others), others \subseteq Contents,
         NEW mesh, AssetAll(mesh) \cap d.held = {}, NEW maps \in Seq(Contents),
         NEW o \in UploadAsset(m, d, mesh, maps)
  PROVE  AssetUploaded(d, m, mesh, others, o)
<1>1. CASE ~ m.ready \/ m.pending # {}
  <2>1. o = [d |-> d, m |-> m, ok |-> FALSE, images |-> {}]
    BY <1>1 DEF UploadAsset
  <2>2. Becomes(d, d, LoadKinds, FrameSlots) /\ SameAssets(d, d, mesh)
    BY BecomesItself DEF SameAssets
  <2>3. IsMaterials(m)
    BY DEF MatOwns, MaterialFlags
  <2>4. OnlyCounts(m, m) /\ others \cup {} = others
    BY <2>3, CountsOnly
  <2> QED BY <2>1, <2>2, <2>4 DEF AssetUploaded
<1>2. CASE m.ready /\ m.pending = {}
  <2>1. m.attemptedCore
    BY <1>2 DEF MatOwns, CoreHolds
  <2>2. PICK p \in InTurn(AssetStarted(m, d, mesh), maps, WithTexture) : o \in {Uploaded(u, mesh) : u \in SetsMade(p, mesh)}
    BY <1>2 DEF UploadAsset
  <2>3. PICK u \in SetsMade(p, mesh) : o = Uploaded(u, mesh)
    BY <2>2
  <2>4. Loads(d, m, mesh, others, p) /\ AssetBegun(mesh, p)
    BY <1>2, <2>1, <2>2, AssetMapsLoad
  <2>5. Loads(d, m, mesh, others, u) /\ AssetComplete(mesh, u)
    BY <1>2, <2>1, <2>3, <2>4, SetsMadeLoad
  <2>6. o \in {Uploaded(u, mesh)}
    BY <2>3
  <2> QED BY <1>2, <2>1, <2>5, <2>6, UploadedOwns
<1>3. m.ready \in BOOLEAN
  BY DEF MatOwns, MaterialFlags
<1> QED BY <1>1, <1>2, <1>3

(* What materials own goes.                                                *)
MaterialsGone(d, e) ==
  /\ Clean(e) /\ e.work = d.work /\ e.refusals = d.refusals
  /\ \A x \in e.held : x[1] \notin PrepareKinds
  /\ \A x : x[1] \notin PrepareKinds => (x \in e.held <=> x \in d.held)

(* destroy of the materials leaves no material object behind.              *)
LEMMA DestroyMaterialsOwns ==
  ASSUME NEW d, Clean(d), Busy(d) = {}, NEW m, MatOwns(m, d, {}), m.pending = {}
  PROVE  MaterialsGone(d, DestroyMaterials(m, d))
<1>1. /\ Stock(d.held, Stored(m) \cup m.pending \cup {}, m.pending, m.used)
      /\ CoreHolds(m, d.held) /\ EnvironmentHolds(m, d.held) /\ MaterialFlags(m)
  BY DEF MatOwns
<1>2. \A x \in d.held : x[1] \in ImageKinds => \E n \in Stored(m) : x \in ImageObjects(n)
  BY <1>1 DEF Stock
<1>3. \A x \in d.held : x[1] \notin StagingKinds
  BY <1>1 DEF Stock
<1>4. \A x \in d.held : x[1] \in CoreKinds => x \in MaterialsCore \cup Samplers
  BY <1>1 DEF CoreHolds
<1>5. \A x \in d.held : x[1] \in EnvironmentKinds => x \in EnvironmentAll
  BY <1>1 DEF EnvironmentHolds
<1>6. CASE ~ m.device
  <2>1. m = NoMaterials
    BY <1>1, <1>6 DEF MaterialFlags
  <2>2. Stored(m) = {} /\ ~ m.attemptedCore /\ ~ m.ready
    BY <2>1 DEF Stored, NoMaterials
  <2>3. \A x \in d.held : x[1] \notin PrepareKinds
    <3>1. \A x \in d.held : x[1] \notin CoreKinds
      BY <1>1, <2>2 DEF CoreHolds
    <3>2. \A x \in d.held : x[1] \notin EnvironmentKinds
      BY <1>1, <2>2 DEF EnvironmentHolds
    <3> QED BY <1>2, <1>3, <2>2, <3>1, <3>2 DEF PrepareKinds, PixelKinds
  <2>4. DestroyMaterials(m, d) = d
    BY <1>6 DEF DestroyMaterials
  <2> QED BY <2>3, <2>4 DEF MaterialsGone
<1>7. CASE m.device
  <2>1. PICK more : more = EnvironmentSamplers \cup {EnvironmentLayout} \cup MaterialsCore \cup Samplers
                        \cup UNION {ImageObjects(n) : n \in Kept(m)}
    OBVIOUS
  <2>2. PICK e : e = Forget(Destroy(DestroyPool(d, EnvironmentPool, {EnvironmentSet}), more), {EnvironmentSet})
    OBVIOUS
  <2>3. DestroyMaterials(m, d) = e
    BY <1>7, <2>1, <2>2 DEF DestroyMaterials
  <2>4. Kept(m) = Stored(m)
    BY KeptIs
  <2>5. EnvironmentSet \notin more
    <3>1. EnvironmentSet \notin EnvironmentSamplers \cup {EnvironmentLayout} /\ EnvironmentSet[1] \in EnvironmentKinds
      BY DEF EnvironmentSet, EnvironmentSamplers, EnvironmentLayout, EnvironmentKinds
    <3>2. EnvironmentSet \notin MaterialsCore \cup Samplers
      BY <3>1, CoreOfMaterials, MaterialKindsDiffer
    <3>3. ASSUME EnvironmentSet \in UNION {ImageObjects(n) : n \in Kept(m)} PROVE FALSE
      <4>1. PICK n \in Kept(m) : EnvironmentSet \in ImageObjects(n)
        BY <3>3
      <4> QED BY <3>1, <4>1, PixelObjectsAre, MaterialKindsDiffer
    <3> QED BY <2>1, <3>1, <3>2, <3>3
  <2>6. EnvironmentPool # EnvironmentSet
    BY DEF EnvironmentPool, EnvironmentSet
  <2>7. EnvironmentSet \in d.held => EnvironmentPool \in d.held
    BY <1>1 DEF EnvironmentHolds
  <2>8. /\ Clean(e) /\ e.held = d.held \ ({EnvironmentPool} \cup {EnvironmentSet} \cup more)
        /\ e.work = d.work /\ e.refusals = d.refusals
    BY <2>2, <2>5, <2>6, <2>7, PoolIsClean
  <2>9. ASSUME NEW x \in e.held, x[1] \in PrepareKinds PROVE FALSE
    <3>1. x \in d.held /\ x \notin more /\ x \notin {EnvironmentPool, EnvironmentSet}
      BY <2>8
    <3>2. CASE x[1] \in ImageKinds
      <4>1. PICK n \in Kept(m) : x \in ImageObjects(n)
        BY <1>2, <2>4, <3>1, <3>2
      <4> QED BY <2>1, <3>1, <4>1
    <3>3. CASE x[1] \in StagingKinds
      BY <1>3, <3>1, <3>3
    <3>4. CASE x[1] \in CoreKinds
      BY <1>4, <2>1, <3>1, <3>4
    <3>5. CASE x[1] \in EnvironmentKinds
      BY <1>5, <2>1, <3>1, <3>5 DEF EnvironmentAll
    <3> QED BY <2>9, <3>2, <3>3, <3>4, <3>5 DEF PrepareKinds, PixelKinds
  <2>10. ASSUME NEW x \in {EnvironmentPool} \cup {EnvironmentSet} \cup more PROVE x[1] \in PrepareKinds
    <3>1. CASE x \in {EnvironmentPool, EnvironmentSet} \cup EnvironmentSamplers \cup {EnvironmentLayout}
      BY <3>1, CoreOfMaterials DEF EnvironmentAll, PrepareKinds
    <3>2. CASE x \in MaterialsCore \cup Samplers
      BY <3>2, CoreOfMaterials DEF PrepareKinds
    <3>3. CASE x \in UNION {ImageObjects(n) : n \in Kept(m)}
      <4>1. PICK n \in Kept(m) : x \in ImageObjects(n)
        BY <3>3
      <4> QED BY <4>1, PixelObjectsAre DEF PrepareKinds
    <3> QED BY <2>1, <2>10, <3>1, <3>2, <3>3
  <2>11. \A x : x[1] \notin PrepareKinds => (x \in e.held <=> x \in d.held)
    BY <2>8, <2>10
  <2> QED BY <2>3, <2>8, <2>9, <2>11 DEF MaterialsGone
<1>8. m.device \in BOOLEAN
  BY <1>1 DEF MaterialFlags
<1> QED BY <1>6, <1>7, <1>8

-----------------------------------------------------------------------------
(* The backend as a whole.                                                 *)

KnownKinds ==
  ShadowKinds \cup UiKinds \cup PrepareKinds \cup AssetKinds \cup MeshKinds \cup PipelineKinds \cup ChainKinds \cup DeviceKinds

(* The parts of the renderer own disjoint kinds of objects.                *)
LEMMA KindsOfPartsDiffer ==
  /\ ShadowKinds \cap UiKinds = {} /\ ShadowKinds \cap PrepareKinds = {} /\ ShadowKinds \cap AssetKinds = {}
  /\ ShadowKinds \cap MeshKinds = {} /\ ShadowKinds \cap PipelineKinds = {} /\ ShadowKinds \cap ChainKinds = {}
  /\ ShadowKinds \cap DeviceKinds = {}
  /\ UiKinds \cap PrepareKinds = {} /\ UiKinds \cap AssetKinds = {} /\ UiKinds \cap MeshKinds = {}
  /\ UiKinds \cap PipelineKinds = {} /\ UiKinds \cap ChainKinds = {} /\ UiKinds \cap DeviceKinds = {}
  /\ PrepareKinds \cap AssetKinds = {} /\ PrepareKinds \cap MeshKinds = {} /\ PrepareKinds \cap PipelineKinds = {}
  /\ PrepareKinds \cap ChainKinds = {} /\ PrepareKinds \cap DeviceKinds = {}
  /\ AssetKinds \cap MeshKinds = {} /\ AssetKinds \cap PipelineKinds = {} /\ AssetKinds \cap ChainKinds = {}
  /\ AssetKinds \cap DeviceKinds = {}
  /\ MeshKinds \cap PipelineKinds = {} /\ MeshKinds \cap ChainKinds = {} /\ MeshKinds \cap DeviceKinds = {}
  /\ PipelineKinds \cap ChainKinds = {} /\ PipelineKinds \cap DeviceKinds = {} /\ ChainKinds \cap DeviceKinds = {}
<1>1. /\ ShadowKinds \cap UiKinds = {} /\ ShadowKinds \cap AssetKinds = {}
      /\ ShadowKinds \cap MeshKinds = {} /\ ShadowKinds \cap ChainKinds = {} /\ ShadowKinds \cap DeviceKinds = {}
  BY DEF ShadowKinds, UiKinds, AssetKinds, MeshKinds, ChainKinds, DeviceKinds
<1>2. /\ UiKinds \cap AssetKinds = {} /\ UiKinds \cap MeshKinds = {}
      /\ UiKinds \cap ChainKinds = {} /\ UiKinds \cap DeviceKinds = {}
  BY DEF UiKinds, AssetKinds, MeshKinds, ChainKinds, DeviceKinds
<1>3. /\ AssetKinds \cap MeshKinds = {} /\ AssetKinds \cap ChainKinds = {} /\ AssetKinds \cap DeviceKinds = {}
      /\ MeshKinds \cap ChainKinds = {} /\ MeshKinds \cap DeviceKinds = {} /\ ChainKinds \cap DeviceKinds = {}
  BY DEF AssetKinds, MeshKinds, ChainKinds, DeviceKinds
<1>4. PrepareKinds =
        {"material image", "material image memory", "material view", "material staging", "material staging memory",
         "material command", "material empty layout", "material layout", "material frame", "material frame memory",
         "material sampler", "environment layout", "environment pool", "environment set", "environment sampler"}
  BY DEF PrepareKinds, PixelKinds, ImageKinds, StagingKinds, CoreKinds, EnvironmentKinds
<1>5. PipelineKinds =
        {"sky", "box", "contact", "line", "mesh", "ui rect", "ui line", "box shadowed", "mesh shadowed",
         "mesh textured", "mesh textured shadowed", "mesh environment", "mesh environment shadowed",
         "vertex shader", "fragment shader"}
  BY DEF PipelineKinds, AllPipelines, PlainPipelines, ReceiverPipelines, MeshPipelines
<1>6. PrepareKinds \cap AssetKinds = {} /\ PrepareKinds \cap MeshKinds = {} /\ PrepareKinds \cap ChainKinds = {}
      /\ PrepareKinds \cap DeviceKinds = {} /\ PrepareKinds \cap PipelineKinds = {}
  BY <1>4, <1>5 DEF AssetKinds, MeshKinds, ChainKinds, DeviceKinds
<1>7. ShadowKinds \cap PrepareKinds = {} /\ UiKinds \cap PrepareKinds = {}
  BY <1>4 DEF ShadowKinds, UiKinds
<1>8. ShadowKinds \cap PipelineKinds = {} /\ UiKinds \cap PipelineKinds = {}
  BY <1>5 DEF ShadowKinds, UiKinds
<1>9. AssetKinds \cap PipelineKinds = {} /\ MeshKinds \cap PipelineKinds = {} /\ PipelineKinds \cap ChainKinds = {}
      /\ PipelineKinds \cap DeviceKinds = {}
  BY <1>5 DEF AssetKinds, MeshKinds, ChainKinds, DeviceKinds
<1> QED BY <1>1, <1>2, <1>3, <1>6, <1>7, <1>8, <1>9

(* The meshes, and what is held for them.                                  *)
MeshTable(m) ==
  /\ m \in [Meshes -> MeshStates]
  /\ \A mesh \in Meshes :
       /\ m[mesh].textured => m[mesh].tried /\ Loaded(m[mesh])
       /\ ~ m[mesh].textured => m[mesh].images = {}
MeshesHold(m, held) ==
  /\ \A x \in held : x[1] \in MeshKinds => \E mesh \in Meshes : Loaded(m[mesh]) /\ x \in MeshObjects(mesh)
  /\ \A mesh \in Meshes : Loaded(m[mesh]) => MeshObjects(mesh) \subseteq held
AssetsHold(m, held) ==
  /\ \A x \in held : x[1] \in AssetKinds => \E mesh \in Meshes : m[mesh].textured /\ x \in AssetAll(mesh)
  /\ \A mesh \in Meshes : m[mesh].textured => AssetAll(mesh) \subseteq held

(* The pipelines.  `attempted`: those that may be there.                   *)
Absent(name, held) == Pipeline(name) \notin held /\ Layout(name) \notin held
PipelinesHold(attempted, held) ==
  /\ \A x \in held : x[1] \in PipelineKinds => \E name \in AllPipelines : x = Pipeline(name) \/ x = Layout(name)
  /\ \A name \in AllPipelines : Pipeline(name) \in held => Layout(name) \in held
  /\ \A name \in MeshPipelines \ {"mesh shadowed"} : name \notin attempted => Absent(name, held)
  /\ "receivers" \notin attempted => \A name \in ReceiverPipelines : Absent(name, held)
ChainHolds(held) ==
  /\ ChainObjects \subseteq held
  /\ \A x \in held : x[1] \in ChainKinds => x \in ChainObjects
DeviceHolds(held) ==
  /\ DeviceObjects \subseteq held
  /\ \A x \in held : x[1] \in DeviceKinds => x \in DeviceObjects

(* The parts that a swapchain is no condition of.                          *)
Owned(d, r, m) ==
  /\ ShadowsOwn(r.shadows, Of(ShadowKinds, d.held))
  /\ UiHolds(r.ui, d.held)
  /\ MatOwns(r.materials, d, Others(m))
  /\ MeshTable(m) /\ MeshesHold(m, d.held) /\ AssetsHold(m, d.held)
  /\ \A mesh \in Meshes : m[mesh].textured => r.materials.ready
  /\ \A x \in d.held : x[1] \in KnownKinds

-----------------------------------------------------------------------------
(* Owning shadows depends on shadow objects alone.                         *)
LEMMA ShadowsSame ==
  ASSUME NEW s, NEW held, ShadowsOwn(s, Of(ShadowKinds, held)), NEW other, SameOf(ShadowKinds, held, other)
  PROVE  ShadowsOwn(s, Of(ShadowKinds, other))
<1>1. Of(ShadowKinds, other) = Of(ShadowKinds, held)
  BY DEF Of, SameOf
<1> QED BY <1>1

(* Owning the interface depends on its objects alone.                      *)
LEMMA UiSame ==
  ASSUME NEW u, NEW held, UiHolds(u, held), NEW other, SameOf(UiKinds, held, other)
  PROVE  UiHolds(u, other)
<1>1. Of(UiKinds, other) = Of(UiKinds, held)
  BY DEF Of, SameOf
<1>2. UiOwns(u, Of(UiKinds, other))
  BY <1>1, UiOwnsHeld
<1> QED BY <1>2, UiOwnsHeld

(* The buffers of a mesh by kind, mesh and slot.                           *)
LEMMA MeshObjectsAre ==
  ASSUME NEW mesh, NEW x \in MeshObjects(mesh)
  PROVE  /\ x[1] \in {"mesh buffer", "mesh memory"} /\ x[1] \in MeshKinds /\ x[2][1] = mesh
         /\ x[2] = Indices(mesh) \/ \E slot \in VertexSlots(mesh) : x[2] = Vertices(mesh, slot)
<1>1. \E p : (x = MeshBuffer(p) \/ x = MeshMemory(p)) /\ (p = Indices(mesh) \/ \E slot \in VertexSlots(mesh) : p = Vertices(mesh, slot))
  BY DEF MeshObjects, VertexObjects, BuffersOf
<1>2. PICK p : (x = MeshBuffer(p) \/ x = MeshMemory(p)) /\ (p = Indices(mesh) \/ \E slot \in VertexSlots(mesh) : p = Vertices(mesh, slot))
  BY <1>1
<1>3. x[2] = p /\ x[1] \in {"mesh buffer", "mesh memory"}
  <2>1. CASE x = MeshBuffer(p)
    BY <2>1 DEF MeshBuffer
  <2>2. CASE x = MeshMemory(p)
    BY <2>2 DEF MeshMemory
  <2> QED BY <1>2, <2>1, <2>2
<1>4. p[1] = mesh
  BY <1>2 DEF Indices, Vertices
<1>5. x[1] \in MeshKinds
  BY <1>3 DEF MeshKinds
<1> QED BY <1>2, <1>3, <1>4, <1>5

(* Owning meshes depends on mesh objects alone.                            *)
LEMMA MeshesSame ==
  ASSUME NEW m, NEW held, MeshesHold(m, held), NEW other, SameOf(MeshKinds, held, other)
  PROVE  MeshesHold(m, other)
<1>1. \A mesh \in Meshes : \A x \in MeshObjects(mesh) : x[1] \in MeshKinds
  BY MeshObjectsAre
<1> QED BY <1>1 DEF MeshesHold, SameOf

(* Owning the meshes' materials depends on their objects alone.            *)
LEMMA AssetsSame ==
  ASSUME NEW m, NEW held, AssetsHold(m, held), NEW other, SameOf(AssetKinds, held, other)
  PROVE  AssetsHold(m, other)
<1>1. \A mesh \in Meshes : \A x \in AssetAll(mesh) : x[1] \in AssetKinds
  BY AssetObjectsAre
<1> QED BY <1>1 DEF AssetsHold, SameOf

(* Pipelines and layouts differ from each other and between names.         *)
LEMMA PipelineObjectsAre1 ==
  ASSUME NEW name
  PROVE  /\ Pipeline(name)[1] = name /\ Layout(name)[1] = name
         /\ \A other : Pipeline(name) # Layout(other) /\ (name # other => Pipeline(name) # Pipeline(other) /\ Layout(name) # Layout(other))
         /\ name \in AllPipelines => Pipeline(name)[1] \in PipelineKinds /\ Layout(name)[1] \in PipelineKinds
BY DEF Pipeline, Layout, PipelineKinds

(* Owning pipelines depends on pipeline objects alone.                     *)
LEMMA PipelinesSame ==
  ASSUME NEW attempted, NEW held, PipelinesHold(attempted, held), NEW other, SameOf(PipelineKinds, held, other)
  PROVE  PipelinesHold(attempted, other)
<1>1. \A name \in AllPipelines : Pipeline(name)[1] \in PipelineKinds /\ Layout(name)[1] \in PipelineKinds
  BY PipelineObjectsAre1
<1>2. MeshPipelines \subseteq AllPipelines /\ ReceiverPipelines \subseteq AllPipelines
  BY DEF AllPipelines
<1>3. \A name \in AllPipelines : /\ Pipeline(name) \in other <=> Pipeline(name) \in held
                                 /\ Layout(name) \in other <=> Layout(name) \in held
  BY <1>1 DEF SameOf
<1>4. \A x : x[1] \in PipelineKinds => (x \in other <=> x \in held)
  BY DEF SameOf
<1>5. \A name \in AllPipelines : Absent(name, other) <=> Absent(name, held)
  BY <1>3 DEF Absent
<1> QED BY <1>2, <1>3, <1>4, <1>5 DEF PipelinesHold

(* The synchronisation objects of a slot by kind.                          *)
LEMMA SyncsAre ==
  ASSUME NEW slot, NEW x \in SyncOf(slot)
  PROVE  x[1] \in DeviceKinds /\ x[1] \in {"image available", "render finished", "in flight"} /\ x[2] = slot
<1>1. CASE x = <<"image available", slot>>
  BY <1>1 DEF DeviceKinds
<1>2. CASE x = <<"render finished", slot>>
  BY <1>2 DEF DeviceKinds
<1>3. CASE x = <<"in flight", slot>>
  BY <1>3 DEF DeviceKinds
<1> QED BY <1>1, <1>2, <1>3 DEF SyncOf

(* Swapchain and device objects by kind.                                   *)
LEMMA ChainObjectsAre ==
  /\ \A x \in ChainObjects : x[1] \in ChainKinds
  /\ \A x \in DeviceObjects : x[1] \in DeviceKinds
<1>1. ASSUME NEW x \in ChainObjects PROVE x[1] \in ChainKinds
  <2>1. CASE x = Swapchain
    BY <2>1 DEF Swapchain, ChainKinds
  <2>2. CASE x = RenderPass
    BY <2>2 DEF RenderPass, ChainKinds
  <2>3. CASE x = <<"depth image", 0>>
    BY <2>3 DEF ChainKinds
  <2>4. CASE x = <<"depth memory", 0>>
    BY <2>4 DEF ChainKinds
  <2>5. CASE x = <<"depth view", 0>>
    BY <2>5 DEF ChainKinds
  <2>6. CASE \E i \in Images : x = SwapView(i)
    <3>1. PICK i \in Images : x = SwapView(i)
      BY <2>6
    <3> QED BY <3>1 DEF SwapView, ChainKinds
  <2>7. CASE \E i \in Images : x = SwapTarget(i)
    <3>1. PICK i \in Images : x = SwapTarget(i)
      BY <2>7
    <3> QED BY <3>1 DEF SwapTarget, ChainKinds
  <2> QED BY <2>1, <2>2, <2>3, <2>4, <2>5, <2>6, <2>7 DEF ChainObjects, DepthObjects
<1>2. ASSUME NEW x \in DeviceObjects PROVE x[1] \in DeviceKinds
  <2>1. CASE x = Instance
    BY <2>1 DEF Instance, DeviceKinds
  <2>2. CASE x = Surface
    BY <2>2 DEF Surface, DeviceKinds
  <2>3. CASE x = Device
    BY <2>3 DEF Device, DeviceKinds
  <2>4. CASE x = CommandPool
    BY <2>4 DEF CommandPool, DeviceKinds
  <2>5. CASE x \in CommandBuffers
    <3>1. PICK slot \in FrameSlots : x = CommandBuffer(slot)
      BY <2>5 DEF CommandBuffers
    <3> QED BY <3>1 DEF CommandBuffer, DeviceKinds
  <2>6. CASE x \in UNION {SyncOf(slot) : slot \in FrameSlots}
    <3>1. PICK slot \in FrameSlots : x \in SyncOf(slot)
      BY <2>6
    <3> QED BY <3>1, SyncsAre
  <2> QED BY <2>1, <2>2, <2>3, <2>4, <2>5, <2>6 DEF DeviceObjects
<1> QED BY <1>1, <1>2

(* Holding the swapchain or the device depends on their objects alone.     *)
LEMMA ChainSame ==
  ASSUME NEW held, NEW other
  PROVE  /\ ChainHolds(held) /\ SameOf(ChainKinds, held, other) => ChainHolds(other)
         /\ DeviceHolds(held) /\ SameOf(DeviceKinds, held, other) => DeviceHolds(other)
BY ChainObjectsAre DEF ChainHolds, DeviceHolds, SameOf

(* Whatever becomes of objects of other kinds.                             *)
LEMMA BecomesSame ==
  ASSUME NEW d, NEW e, NEW kinds, NEW works, Becomes(d, e, kinds, works), NEW others, others \cap kinds = {}
  PROVE  SameOf(others, d.held, e.held)
BY DEF Becomes, SameOf

(* A change confined to known kinds adds no object of another kind.        *)
LEMMA KnownStays ==
  ASSUME NEW d, NEW e, NEW kinds, NEW works, Becomes(d, e, kinds, works), kinds \subseteq KnownKinds,
         \A x \in d.held : x[1] \in KnownKinds
  PROVE  \A x \in e.held : x[1] \in KnownKinds
BY DEF Becomes

-----------------------------------------------------------------------------
(* Pipelines.                                                              *)
AssembledCalls(name, layouts) ==
  <<Make(VertexShader, {}), Make(FragmentShader, {}), Make(Layout(name), layouts),
    Make(Pipeline(name), {VertexShader, FragmentShader, Layout(name), RenderPass})>>

(* The calls that make a pipeline; the pipeline is the last.               *)
LEMMA AssembledMakes ==
  ASSUME NEW held, NEW busy, NEW name, NEW layouts,
         {VertexShader, FragmentShader, Layout(name), Pipeline(name)} \cap held = {},
         layouts \cup {RenderPass} \subseteq held,
         VertexShader # FragmentShader,
         Layout(name) \notin {VertexShader, FragmentShader},
         Pipeline(name) \notin {VertexShader, FragmentShader, Layout(name)}
  PROVE  /\ Len(AssembledCalls(name, layouts)) = 4
         /\ MadeBy(AssembledCalls(name, layouts), 3) = {VertexShader, FragmentShader, Layout(name)}
         /\ Makes(AssembledCalls(name, layouts), held, busy, {VertexShader, FragmentShader, Layout(name), Pipeline(name)})
<1>1. PICK a, b, c, e :
        /\ a = Make(VertexShader, {})
        /\ b = Make(FragmentShader, {})
        /\ c = Make(Layout(name), layouts)
        /\ e = Make(Pipeline(name), {VertexShader, FragmentShader, Layout(name), RenderPass})
  OBVIOUS
<1>2. /\ a.makes = {VertexShader}
      /\ b.makes = {FragmentShader}
      /\ c.makes = {Layout(name)}
      /\ e.makes = {Pipeline(name)}
  BY <1>1, CallsMake
<1>3. FitsIn(a, held, busy)
  <2>1. VertexShader \notin held
    BY <1>2
  <2> QED BY <1>1, <2>1, MakeFits
<1>4. FitsIn(b, held \cup (a.makes), busy)
  <2>1. FragmentShader \notin held \cup (a.makes)
    BY <1>2
  <2> QED BY <1>1, <2>1, MakeFits
<1>5. FitsIn(c, held \cup (a.makes \cup b.makes), busy)
  <2>1. /\ Layout(name) \notin held \cup (a.makes \cup b.makes)
        /\ layouts \subseteq held \cup (a.makes \cup b.makes)
    BY <1>2
  <2> QED BY <1>1, <2>1, MakeFits
<1>6. FitsIn(e, held \cup (a.makes \cup b.makes \cup c.makes), busy)
  <2>1. /\ Pipeline(name) \notin held \cup (a.makes \cup b.makes \cup c.makes)
        /\ {VertexShader, FragmentShader, Layout(name), RenderPass} \subseteq held \cup (a.makes \cup b.makes \cup c.makes)
    BY <1>2
  <2> QED BY <1>1, <2>1, MakeFits
<1>7. /\ Makes(<<a, b, c, e>>, held, busy, a.makes \cup b.makes \cup c.makes \cup e.makes)
      /\ MadeBy(<<a, b, c, e>>, 3) = a.makes \cup b.makes \cup c.makes /\ Len(<<a, b, c, e>>) = 4
  BY <1>3, <1>4, <1>5, <1>6, MakesFour
<1>8. a.makes \cup b.makes \cup c.makes \cup e.makes = {VertexShader, FragmentShader, Layout(name), Pipeline(name)}
  BY <1>2
<1>9. <<a, b, c, e>> = AssembledCalls(name, layouts)
  BY <1>1 DEF AssembledCalls
<1>10. MadeBy(<<a, b, c, e>>, 3) = a.makes \cup b.makes \cup c.makes /\ Len(<<a, b, c, e>>) = 4
  BY <1>7
<1>11. a.makes \cup b.makes \cup c.makes = {VertexShader, FragmentShader, Layout(name)}
  BY <1>2
<1> QED BY <1>7, <1>8, <1>9, <1>10, <1>11

(* Fewer calls make fewer objects.                                         *)
LEMMA MadeByLess ==
  ASSUME NEW calls, NEW n \in Nat, NEW k \in 0 .. n
  PROVE  MadeBy(calls, k) \subseteq MadeBy(calls, n)
BY MadeByGrows

(* Shader modules, layouts and pipelines differ.                           *)
LEMMA ShadersDiffer ==
  ASSUME NEW name \in AllPipelines
  PROVE  /\ VertexShader # FragmentShader
         /\ Layout(name) \notin {VertexShader, FragmentShader}
         /\ Pipeline(name) \notin {VertexShader, FragmentShader, Layout(name)}
         /\ VertexShader[1] \in PipelineKinds /\ FragmentShader[1] \in PipelineKinds
<1>1. VertexShader[1] = "vertex shader" /\ FragmentShader[1] = "fragment shader"
  BY DEF VertexShader, FragmentShader
<1>2. Layout(name)[1] = name /\ Pipeline(name)[1] = name /\ Pipeline(name) # Layout(name)
  BY PipelineObjectsAre1
<1>3. name \notin {"vertex shader", "fragment shader"}
  BY DEF AllPipelines, PlainPipelines, ReceiverPipelines, MeshPipelines
<1> QED BY <1>1, <1>2, <1>3 DEF PipelineKinds

CanAssemble(d, name) ==
  /\ name \in AllPipelines /\ Absent(name, d.held)
  /\ VertexShader \notin d.held /\ FragmentShader \notin d.held
  /\ SetLayouts(name) \subseteq d.held /\ RenderPass \in d.held
(* A pipeline with its layout, or at most the layout.                      *)
Assembles(d, name, o) ==
  /\ Adds(d, o, {Pipeline(name), Layout(name)})
  /\ ~ o.ok => Pipeline(name) \notin o.d.held

(* A pipeline is assembled whole, or its layout goes or stays as the code  *)
(* does it.                                                                *)
LEMMA AssembledAdds ==
  ASSUME NEW d, Clean(d), NEW name, CanAssemble(d, name), NEW drops, NEW o \in Assembled(d, name, drops)
  PROVE  Assembles(d, name, o)
<1>1. PICK calls, layouts : calls = AssembledCalls(name, layouts) /\ layouts = SetLayouts(name)
  OBVIOUS
<1>2. PICK gone, shaders : gone = (IF drops THEN {Layout(name)} ELSE {}) /\ shaders = {VertexShader, FragmentShader}
  OBVIOUS
<1>3. PICK tried, cut : tried = Try(d, calls) /\ cut = OnFailure(tried, gone)
  OBVIOUS
<1>4. o \in Finally(cut, shaders)
  BY <1>1, <1>2, <1>3 DEF Assembled, AssembledCalls
<1>5. /\ VertexShader # FragmentShader /\ Layout(name) \notin {VertexShader, FragmentShader}
      /\ Pipeline(name) \notin {VertexShader, FragmentShader, Layout(name)}
  BY ShadersDiffer DEF CanAssemble
<1>6. PICK all : all = {VertexShader, FragmentShader, Layout(name), Pipeline(name)}
  OBVIOUS
<1>7. Len(calls) = 4 /\ MadeBy(calls, 3) = {VertexShader, FragmentShader, Layout(name)} /\ Makes(calls, d.held, Busy(d), all)
  <2>1. {VertexShader, FragmentShader, Layout(name), Pipeline(name)} \cap d.held = {} /\ layouts \cup {RenderPass} \subseteq d.held
    BY <1>1 DEF CanAssemble, Absent
  <2> QED BY <1>1, <1>5, <1>6, <2>1, AssembledMakes
<1>8. all \cap d.held = {} /\ gone \cap d.held = {} /\ shaders \cap d.held = {} /\ gone \subseteq all
  BY <1>2, <1>6 DEF CanAssemble, Absent
<1>9. ASSUME NEW p \in tried PROVE Adds(d, p, all) /\ (~ p.ok => Pipeline(name) \notin p.d.held)
  <2>1. Adds(d, p, all)
    BY <1>3, <1>7, TryMakes
  <2>2. p \in Try(d, calls) /\ Fits(calls, d.held, Busy(d))
    BY <1>3, <1>7 DEF Makes
  <2>3. ~ p.ok => \E n \in 0 .. Len(calls) - 1 : p.d.held = d.held \cup MadeBy(calls, n)
    BY <2>2, TryAdds
  <2>4. ASSUME ~ p.ok PROVE Pipeline(name) \notin p.d.held
    <3>1. PICK n \in 0 .. 3 : p.d.held = d.held \cup MadeBy(calls, n)
      BY <1>7, <2>3, <2>4
    <3>2. MadeBy(calls, n) \subseteq MadeBy(calls, 3)
      BY MadeByLess
    <3>3. Pipeline(name) \notin d.held
      BY <1>6, <1>8
    <3> QED BY <1>5, <1>7, <3>1, <3>2, <3>3
  <2> QED BY <2>1, <2>4
<1>10. ASSUME NEW q \in cut PROVE Adds(d, q, all) /\ (~ q.ok => Pipeline(name) \notin q.d.held)
  <2>1. \A p \in tried : Adds(d, p, all)
    BY <1>9
  <2>2. q \in OnFailure(tried, gone)
    BY <1>3
  <2>3. Adds(d, q, all) /\ \E p \in tried : q.ok = p.ok /\ q.d.held \subseteq p.d.held
    BY <1>8, <2>1, <2>2, OnFailureAdds
  <2> QED BY <1>9, <2>3
<1>11. Adds(d, o, all \ shaders)
  <2>1. \A q \in cut : Adds(d, q, all)
    BY <1>10
  <2> QED BY <1>4, <1>8, <2>1, FinallyAdds
<1>12. all \ shaders = {Pipeline(name), Layout(name)}
  BY <1>2, <1>5, <1>6
<1>13. ASSUME ~ o.ok PROVE Pipeline(name) \notin o.d.held
  <2>1. PICK q \in cut : o = [q EXCEPT !.d = Destroy(q.d, shaders)]
    BY <1>4 DEF Finally
  <2>2. Adds(d, q, all) /\ (~ q.ok => Pipeline(name) \notin q.d.held)
    BY <1>10
  <2>3. q = [d |-> q.d, ok |-> q.ok] /\ Clean(q.d)
    BY <2>2 DEF Adds
  <2>4. o.ok = q.ok /\ o.d = Destroy(q.d, shaders)
    BY <2>1, <2>3
  <2>5. shaders \cap Busy(q.d) = {}
    <3>1. Busy(q.d) = Busy(d)
      BY <2>2, WorkIsBusy DEF Adds
    <3>2. Busy(d) \subseteq d.held
      BY CleanShape
    <3> QED BY <1>8, <3>1, <3>2
  <2>6. o.d.held = q.d.held \ shaders
    BY <2>3, <2>4, <2>5, DestroyIsClean
  <2> QED BY <1>13, <2>2, <2>4, <2>6
<1> QED BY <1>11, <1>12, <1>13 DEF Assembles

(* What a pipeline that was attempted changes.                             *)
LEMMA AssemblesBecomes ==
  ASSUME NEW d, Clean(d), NEW name \in AllPipelines, NEW o, Assembles(d, name, o)
  PROVE  /\ Becomes(d, o.d, PipelineKinds, Works) /\ o.ok \in BOOLEAN
         /\ \A x : x \notin {Pipeline(name), Layout(name)} => (x \in o.d.held <=> x \in d.held)
         /\ d.held \subseteq o.d.held
         /\ Pipeline(name) \in o.d.held => Layout(name) \in o.d.held \/ Pipeline(name) \in d.held
         /\ Busy(o.d) = Busy(d)
<1>1. Adds(d, o, {Pipeline(name), Layout(name)})
  BY DEF Assembles
<1>2. \A x \in {Pipeline(name), Layout(name)} : x[1] \in PipelineKinds
  BY PipelineObjectsAre1
<1>3. Becomes(d, o.d, PipelineKinds, Works) /\ Busy(o.d) = Busy(d)
  BY <1>1, <1>2, AddsBecomes
<1>4. /\ o.ok \in BOOLEAN /\ d.held \subseteq o.d.held /\ o.d.held \subseteq d.held \cup {Pipeline(name), Layout(name)}
      /\ o.ok => o.d.held = d.held \cup {Pipeline(name), Layout(name)}
  BY <1>1 DEF Adds
<1> QED BY <1>3, <1>4 DEF Assembles

(* No shader module is held between two creations.                         *)
LEMMA NoShaders ==
  ASSUME NEW attempted, NEW held, PipelinesHold(attempted, held)
  PROVE  VertexShader \notin held /\ FragmentShader \notin held
<1>1. "sky" \in AllPipelines
  BY DEF AllPipelines, PlainPipelines
<1>2. VertexShader[1] \in PipelineKinds /\ FragmentShader[1] \in PipelineKinds
  BY <1>1, ShadersDiffer
<1>3. ASSUME NEW name \in AllPipelines
      PROVE  VertexShader \notin {Pipeline(name), Layout(name)} /\ FragmentShader \notin {Pipeline(name), Layout(name)}
  BY ShadersDiffer
<1> QED BY <1>2, <1>3 DEF PipelinesHold

(* One more pipeline that may be there.                                    *)
LEMMA PipelineAdded ==
  ASSUME NEW d, Clean(d), NEW attempted, PipelinesHold(attempted, d.held), NEW name \in AllPipelines,
         NEW o, Assembles(d, name, o), NEW more, attempted \subseteq more,
         name \in ReceiverPipelines => "receivers" \in more,
         name \in MeshPipelines \ {"mesh shadowed"} => name \in more
  PROVE  PipelinesHold(more, o.d.held)
<1>1. /\ \A x : x \notin {Pipeline(name), Layout(name)} => (x \in o.d.held <=> x \in d.held)
      /\ d.held \subseteq o.d.held
      /\ Pipeline(name) \in o.d.held => Layout(name) \in o.d.held \/ Pipeline(name) \in d.held
  BY AssemblesBecomes
<1>2. \A x \in d.held : x[1] \in PipelineKinds => \E n \in AllPipelines : x = Pipeline(n) \/ x = Layout(n)
  BY DEF PipelinesHold
<1>3. \A x \in o.d.held : x[1] \in PipelineKinds => \E n \in AllPipelines : x = Pipeline(n) \/ x = Layout(n)
  BY <1>1, <1>2
<1>4. ASSUME NEW n \in AllPipelines, Pipeline(n) \in o.d.held PROVE Layout(n) \in o.d.held
  <2>1. CASE n = name
    BY <1>1, <1>4, <2>1 DEF PipelinesHold
  <2>2. CASE n # name
    <3>1. Pipeline(n) \notin {Pipeline(name), Layout(name)}
      BY <2>2, PipelineObjectsAre1
    <3> QED BY <1>1, <1>4, <3>1 DEF PipelinesHold
  <2> QED BY <2>1, <2>2
<1>5. ASSUME NEW n, n # name PROVE Absent(n, d.held) => Absent(n, o.d.held)
  <2>1. Pipeline(n) \notin {Pipeline(name), Layout(name)} /\ Layout(n) \notin {Pipeline(name), Layout(name)}
    BY <1>5, PipelineObjectsAre1
  <2> QED BY <1>1, <2>1 DEF Absent
<1>6. ASSUME NEW n \in MeshPipelines \ {"mesh shadowed"}, n \notin more PROVE Absent(n, o.d.held)
  <2>1. n # name /\ n \notin attempted
    BY <1>6
  <2>2. Absent(n, d.held)
    BY <2>1 DEF PipelinesHold
  <2> QED BY <1>5, <2>1, <2>2
<1>7. ASSUME "receivers" \notin more, NEW n \in ReceiverPipelines PROVE Absent(n, o.d.held)
  <2>1. n # name /\ "receivers" \notin attempted
    BY <1>7
  <2>2. Absent(n, d.held)
    BY <2>1 DEF PipelinesHold
  <2> QED BY <1>5, <2>1, <2>2
<1> QED BY <1>3, <1>4, <1>6, <1>7 DEF PipelinesHold

-----------------------------------------------------------------------------
(* The pipelines every swapchain starts with.                              *)

(* The plain pipelines are created in a fixed order, each once.            *)
LEMMA PlainOrder ==
  /\ Len(PlainPipelineOrder) = 7
  /\ \A i \in 1 .. 7 : PlainPipelineOrder[i] \in PlainPipelines
  /\ \A i, j \in 1 .. 7 : PlainPipelineOrder[i] = PlainPipelineOrder[j] => i = j
<1>1. Len(PlainPipelineOrder) = 7
  BY DEF PlainPipelineOrder
<1>2. \A i \in 1 .. 7 : i = 1 \/ i = 2 \/ i = 3 \/ i = 4 \/ i = 5 \/ i = 6 \/ i = 7
  OBVIOUS
<1>3. /\ PlainPipelineOrder[1] = "sky" /\ PlainPipelineOrder[2] = "box" /\ PlainPipelineOrder[3] = "contact"
      /\ PlainPipelineOrder[4] = "line" /\ PlainPipelineOrder[5] = "mesh" /\ PlainPipelineOrder[6] = "ui rect"
      /\ PlainPipelineOrder[7] = "ui line"
  BY DEF PlainPipelineOrder
<1>4. \A i \in 1 .. 7 : PlainPipelineOrder[i] \in PlainPipelines
  BY <1>2, <1>3 DEF PlainPipelines
<1>5. \A i, j \in 1 .. 7 : PlainPipelineOrder[i] = PlainPipelineOrder[j] => i = j
  BY <1>2, <1>3
<1> QED BY <1>1, <1>4, <1>5

(* One plain pipeline.                                                     *)
LEMMA PlainPipelineAssembles ==
  ASSUME NEW d, Clean(d), NEW name \in PlainPipelines, Absent(name, d.held), VertexShader \notin d.held,
         FragmentShader \notin d.held, RenderPass \in d.held, NEW o \in PlainPipelineMade(d, name)
  PROVE  Assembles(d, name, o)
<1>1. name \in {"sky", "box", "contact", "line", "mesh", "ui rect", "ui line"}
  BY DEF PlainPipelines
<1>2. SetLayouts(name) = {}
  BY <1>1 DEF SetLayouts, MeshPipelines
<1>3. CanAssemble(d, name)
  BY <1>2 DEF CanAssemble, AllPipelines
<1>4. \E drops : o \in Assembled(d, name, drops)
  <2>1. CASE name = "sky"
    <3>1. o \in Assembled(d, name, FALSE)
      BY <2>1 DEF PlainPipelineMade, CreateSkyPipeline
    <3> QED BY <3>1
  <2>2. CASE name = "box"
    <3>1. o \in Assembled(d, name, TRUE)
      BY <2>2 DEF PlainPipelineMade, CreateWorldBoxPipeline
    <3> QED BY <3>1
  <2>3. CASE name = "contact"
    <3>1. o \in Assembled(d, name, FALSE)
      BY <2>3 DEF PlainPipelineMade, CreateContactShadowPipeline
    <3> QED BY <3>1
  <2>4. CASE name = "line"
    <3>1. o \in Assembled(d, name, FALSE)
      BY <2>4 DEF PlainPipelineMade, CreateWorldLinePipeline
    <3> QED BY <3>1
  <2>5. CASE name = "mesh"
    <3>1. o \in Assembled(d, name, TRUE)
      BY <2>5 DEF PlainPipelineMade, CreateWorldMeshPipeline, MeshPipeline
    <3> QED BY <3>1
  <2>6. CASE name \in {"ui rect", "ui line"}
    <3>1. o \in Assembled(d, name, FALSE)
      BY <2>6 DEF PlainPipelineMade, CreateUiPipeline
    <3> QED BY <3>1
  <2> QED BY <1>1, <2>1, <2>2, <2>3, <2>4, <2>5, <2>6
<1> QED BY <1>3, <1>4, AssembledAdds

(* The first n of them were attempted.                                     *)
PlainMade(d, n, o) ==
  /\ Becomes(d, o.d, PipelineKinds, Works)
  /\ PipelinesHold({}, o.d.held)
  /\ \A i \in 1 .. 7 : i > n => Absent(PlainPipelineOrder[i], o.d.held)

(* createGraphicsPipelines leaves a part of the plain pipelines.           *)
LEMMA PlainPipelinesOwn ==
  ASSUME NEW d, Clean(d), \A x \in d.held : x[1] \notin PipelineKinds, RenderPass \in d.held,
         NEW o \in PlainPipelinesMade(d)
  PROVE  Becomes(d, o.d, PipelineKinds, Works) /\ PipelinesHold({}, o.d.held)
<1>1. PICK outcomes, last : outcomes = Returns(d, TRUE) /\ last = 7
  OBVIOUS
<1>2. PICK f : IsRun(f, "pipeline", 0, outcomes, PlainPipelineOrder, last) /\ o \in f[last]
  <2>1. Len(PlainPipelineOrder) = 7 /\ Len(PlainPipelineOrder) \in Nat
    BY PlainOrder
  <2> QED BY <1>1, <2>1, PipelineRun
<1>3. last \in Nat
  BY <1>1
<1> DEFINE G == [n \in 0 .. last |-> {x \in Reached(f, last) : PlainMade(d, n, x)}]
<1>4. ASSUME NEW x \in outcomes \cap Reached(f, last) PROVE x \in G[0]
  <2>1. x.d = d
    BY <1>1 DEF Returns
  <2>2. \A name \in AllPipelines : Absent(name, d.held)
    BY PipelineObjectsAre1 DEF Absent
  <2>3. MeshPipelines \subseteq AllPipelines /\ ReceiverPipelines \subseteq AllPipelines /\ PlainPipelines \subseteq AllPipelines
    BY DEF AllPipelines
  <2>4. PipelinesHold({}, d.held)
    BY <2>2, <2>3 DEF PipelinesHold, Absent
  <2>5. Becomes(d, d, PipelineKinds, Works)
    BY BecomesItself
  <2>6. \A i \in 1 .. 7 : PlainPipelineOrder[i] \in AllPipelines
    BY <2>3, PlainOrder
  <2>7. PlainMade(d, 0, x)
    BY <2>1, <2>2, <2>4, <2>5, <2>6 DEF PlainMade
  <2>8. 0 \in 0 .. last
    BY <1>3
  <2> QED BY <2>7, <2>8
<1>5. ASSUME NEW n \in 1 .. last, NEW x \in f[n - 1] \cap G[n - 1],
             NEW q \in Stage("pipeline", 0, x, PlainPipelineOrder[n]) \cap Reached(f, last)
      PROVE  q \in G[n]
  <2>1. PICK name : name = PlainPipelineOrder[n]
    OBVIOUS
  <2>2. n - 1 \in 0 .. last /\ n \in 0 .. last /\ n \in 1 .. 7
    BY <1>1
  <2>3. PlainMade(d, n - 1, x)
    BY <2>2
  <2>4. q \in PlainPipelineMade(x.d, name)
    BY <1>5, <2>1 DEF Stage
  <2>5. name \in PlainPipelines
    BY <2>1, <2>2, PlainOrder
  <2>6. PICK e : e = x.d
    OBVIOUS
  <2>7. Becomes(d, e, PipelineKinds, Works) /\ PipelinesHold({}, e.held) /\ Absent(name, e.held)
    BY <2>1, <2>2, <2>3, <2>6 DEF PlainMade
  <2>8. Clean(e) /\ RenderPass \in e.held
    <3>1. RenderPass[1] \in ChainKinds
      BY DEF RenderPass, ChainKinds
    <3> QED BY <2>7, <3>1, KindsOfPartsDiffer DEF Becomes
  <2>9. Assembles(e, name, q)
    <3>1. VertexShader \notin e.held /\ FragmentShader \notin e.held
      BY <2>7, NoShaders
    <3>2. q \in PlainPipelineMade(e, name)
      BY <2>4, <2>6
    <3> QED BY <2>5, <2>7, <2>8, <3>1, <3>2, PlainPipelineAssembles
  <2>10. name \in AllPipelines /\ name \notin ReceiverPipelines /\ name \notin MeshPipelines
    BY <2>5 DEF AllPipelines, PlainPipelines, ReceiverPipelines, MeshPipelines
  <2>11. PipelinesHold({}, q.d.held)
    <3>1. PICK none : none = {}
      OBVIOUS
    <3>2. PipelinesHold(none, e.held) /\ none \subseteq none
      BY <2>7, <3>1
    <3>3. name \in ReceiverPipelines => "receivers" \in none
      BY <2>10
    <3>4. name \in MeshPipelines \ {"mesh shadowed"} => name \in none
      BY <2>10
    <3>5. PipelinesHold(none, q.d.held)
      BY <2>8, <2>9, <2>10, <3>2, <3>3, <3>4, PipelineAdded
    <3> QED BY <3>1, <3>5
  <2>12. /\ Becomes(e, q.d, PipelineKinds, Works)
         /\ \A y : y \notin {Pipeline(name), Layout(name)} => (y \in q.d.held <=> y \in e.held)
    BY <2>8, <2>9, <2>10, AssemblesBecomes
  <2>13. Becomes(d, q.d, PipelineKinds, Works)
    <3>1. PICK g : g = q.d
      OBVIOUS
    <3>2. Becomes(d, g, PipelineKinds, Works)
      BY <2>7, <2>12, <3>1, BecomesThen
    <3> QED BY <3>1, <3>2
  <2>14. ASSUME NEW i \in 1 .. 7, i > n PROVE Absent(PlainPipelineOrder[i], q.d.held)
    <3>1. PICK other : other = PlainPipelineOrder[i]
      OBVIOUS
    <3>2. other # name
      BY <2>1, <2>2, <2>14, <3>1, PlainOrder
    <3>3. i > n - 1
      BY <2>2, <2>14
    <3>4. Absent(other, e.held)
      BY <2>3, <2>6, <3>1, <3>3 DEF PlainMade
    <3>5. Pipeline(other) \notin {Pipeline(name), Layout(name)} /\ Layout(other) \notin {Pipeline(name), Layout(name)}
      BY <3>2, PipelineObjectsAre1
    <3>6. Absent(other, q.d.held)
      BY <2>12, <3>4, <3>5 DEF Absent
    <3> QED BY <3>1, <3>6
  <2>15. PlainMade(d, n, q)
    BY <2>11, <2>13, <2>14 DEF PlainMade
  <2> QED BY <2>2, <2>15
<1>6. ASSUME NEW x \in G[last] PROVE PlainMade(d, last, x)
  BY <1>3
<1> HIDE DEF G
<1>7. Climbs("pipeline", 0, outcomes, PlainPipelineOrder, last, f, G)
  BY <1>4, <1>5 DEF Climbs
<1>8. f[last] \subseteq G[last]
  BY <1>2, <1>3, <1>7, RunClimbs
<1>9. PlainMade(d, last, o)
  BY <1>2, <1>6, <1>8
<1> QED BY <1>9 DEF PlainMade

(* What attempting a pipeline while a frame is prepared leaves behind.     *)
Gains(d, e, attempted) ==
  /\ Becomes(d, e, PipelineKinds, Works) /\ d.held \subseteq e.held
  /\ PipelinesHold(attempted, e.held)

CanAttempt(d, attempted, name, more) ==
  /\ Clean(d) /\ PipelinesHold(attempted, d.held)
  /\ name \in MeshPipelines \ {"mesh shadowed"} /\ name \notin attempted
  /\ SetLayouts(name) \subseteq d.held /\ RenderPass \in d.held
  /\ more = attempted \cup {name}

(* A pipeline for materials is attempted once.                             *)
LEMMA MeshPipelineMade ==
  ASSUME NEW d, NEW attempted, NEW name, NEW more, CanAttempt(d, attempted, name, more),
         NEW o \in Assembled(d, name, TRUE)
  PROVE  Gains(d, o.d, more)
<1>1. /\ Clean(d) /\ PipelinesHold(attempted, d.held)
      /\ name \in MeshPipelines \ {"mesh shadowed"} /\ name \notin attempted
      /\ SetLayouts(name) \subseteq d.held /\ RenderPass \in d.held
      /\ more = attempted \cup {name}
  BY DEF CanAttempt
<1>2. name \in AllPipelines
  BY <1>1 DEF AllPipelines
<1>3. Absent(name, d.held)
  BY <1>1 DEF PipelinesHold
<1>4. VertexShader \notin d.held /\ FragmentShader \notin d.held
  BY <1>1, NoShaders
<1>5. CanAssemble(d, name)
  BY <1>1, <1>2, <1>3, <1>4 DEF CanAssemble
<1>6. Assembles(d, name, o)
  BY <1>1, <1>5, AssembledAdds
<1>7. name \notin ReceiverPipelines
  BY <1>1 DEF MeshPipelines, ReceiverPipelines
<1>8. attempted \subseteq more /\ name \in more
  BY <1>1
<1>9. PipelinesHold(more, o.d.held)
  BY <1>1, <1>2, <1>6, <1>7, <1>8, PipelineAdded
<1>10. Becomes(d, o.d, PipelineKinds, Works) /\ d.held \subseteq o.d.held
  BY <1>1, <1>2, <1>6, AssemblesBecomes
<1> QED BY <1>9, <1>10 DEF Gains

(* The pipelines for shadow receivers are attempted once.                  *)
LEMMA ReceiversMade ==
  ASSUME NEW d, Clean(d), NEW attempted, PipelinesHold(attempted, d.held), "receivers" \notin attempted,
         ReceiverLayout \in d.held, RenderPass \in d.held,
         NEW more \in {attempted \cup {"receivers"}}, NEW o \in CreateReceivers(d)
  PROVE  Gains(d, o.d, more)
<1>1. PICK p \in CreateWorldBoxPipeline(d, TRUE) : o \in CreateWorldMeshPipeline(p.d, TRUE, FALSE, FALSE)
  BY DEF CreateReceivers, Ignoring
<1>2. p \in Assembled(d, "box shadowed", TRUE) /\ o \in Assembled(p.d, "mesh shadowed", TRUE)
  BY <1>1 DEF CreateWorldBoxPipeline, CreateWorldMeshPipeline, MeshPipeline
<1>3. /\ "box shadowed" \in AllPipelines /\ "box shadowed" \in ReceiverPipelines /\ "box shadowed" \notin MeshPipelines
      /\ "mesh shadowed" \in AllPipelines /\ "mesh shadowed" \in ReceiverPipelines
  BY DEF AllPipelines, ReceiverPipelines, MeshPipelines
<1>4. VertexShader \notin d.held /\ FragmentShader \notin d.held
  BY NoShaders
<1>5. Absent("box shadowed", d.held) /\ Absent("mesh shadowed", d.held)
  BY <1>3 DEF PipelinesHold
<1>6. SetLayouts("box shadowed") = {ReceiverLayout} /\ SetLayouts("mesh shadowed") = {ReceiverLayout}
  BY DEF SetLayouts, MeshPipelines
<1>7. attempted \subseteq more /\ "receivers" \in more /\ more \subseteq more
  OBVIOUS
<1>8. CanAssemble(d, "box shadowed")
  BY <1>3, <1>4, <1>5, <1>6 DEF CanAssemble
<1>9. Assembles(d, "box shadowed", p)
  BY <1>2, <1>8, AssembledAdds
<1>10. PipelinesHold(more, p.d.held)
  <2>1. "box shadowed" \in ReceiverPipelines => "receivers" \in more
    BY <1>7
  <2>2. "box shadowed" \in MeshPipelines \ {"mesh shadowed"} => "box shadowed" \in more
    BY <1>3
  <2> QED BY <1>3, <1>7, <1>9, <2>1, <2>2, PipelineAdded
<1>11. /\ Becomes(d, p.d, PipelineKinds, Works) /\ d.held \subseteq p.d.held
       /\ \A x : x \notin {Pipeline("box shadowed"), Layout("box shadowed")} => (x \in p.d.held <=> x \in d.held)
  BY <1>3, <1>9, AssemblesBecomes
<1>12. PICK e : e = p.d
  OBVIOUS
<1>13. Clean(e) /\ PipelinesHold(more, e.held) /\ d.held \subseteq e.held
  BY <1>10, <1>11, <1>12 DEF Becomes
<1>14. Absent("mesh shadowed", e.held)
  <2>1. /\ Pipeline("mesh shadowed") \notin {Pipeline("box shadowed"), Layout("box shadowed")}
        /\ Layout("mesh shadowed") \notin {Pipeline("box shadowed"), Layout("box shadowed")}
    BY PipelineObjectsAre1
  <2> QED BY <1>5, <1>11, <1>12, <2>1 DEF Absent
<1>15. VertexShader \notin e.held /\ FragmentShader \notin e.held
  BY <1>13, NoShaders
<1>16. CanAssemble(e, "mesh shadowed")
  BY <1>3, <1>6, <1>13, <1>14, <1>15 DEF CanAssemble
<1>17. Assembles(e, "mesh shadowed", o)
  BY <1>2, <1>12, <1>13, <1>16, AssembledAdds
<1>18. PipelinesHold(more, o.d.held)
  <2>1. "mesh shadowed" \in ReceiverPipelines => "receivers" \in more
    BY <1>7
  <2>2. "mesh shadowed" \in MeshPipelines \ {"mesh shadowed"} => "mesh shadowed" \in more
    OBVIOUS
  <2> QED BY <1>3, <1>7, <1>13, <1>17, <2>1, <2>2, PipelineAdded
<1>19. Becomes(e, o.d, PipelineKinds, Works) /\ e.held \subseteq o.d.held
  BY <1>3, <1>13, <1>17, AssemblesBecomes
<1>20. Becomes(d, e, PipelineKinds, Works)
  BY <1>11, <1>12
<1>21. PICK g : g = o.d
  OBVIOUS
<1>22. Becomes(d, g, PipelineKinds, Works)
  BY <1>19, <1>20, <1>21, BecomesThen
<1> QED BY <1>13, <1>18, <1>19, <1>21, <1>22 DEF Gains

-----------------------------------------------------------------------------
(* The steps of a frame.                                                   *)

SameParts(s, t) ==
  t.m = s.m /\ t.r.shadows = s.r.shadows /\ t.r.ui = s.r.ui /\ t.r.materials = s.r.materials

(* Objects that a swapchain and the device are.                            *)
FrameHolds(s) ==
  /\ IsSystem(s) /\ Clean(s.d) /\ ChainHolds(s.d.held) /\ DeviceHolds(s.d.held)
  /\ PipelinesHold(s.r.attempted, s.d.held)

AttemptedAs(s, d, a, t) == t = [s EXCEPT !.d = d, !.r.attempted = a]

(* Recording an attempt changes the record and the driver alone.           *)
LEMMA AttemptedIs ==
  ASSUME NEW s, IsSystem(s), NEW d, NEW a, NEW t, AttemptedAs(s, d, a, t)
  PROVE  /\ IsSystem(t) /\ t.d = d /\ SameParts(s, t) /\ t.r.attempted = a /\ t.r.prepared = s.r.prepared
<1>1. {"d", "r", "m"} \subseteq DOMAIN t /\ t.r = [s.r EXCEPT !.attempted = a] /\ t.d = d /\ t.m = s.m
  BY DEF IsSystem, AttemptedAs
<1>2. /\ IsRenderer(t.r) /\ t.r.materials = s.r.materials /\ t.r.prepared = s.r.prepared
      /\ t.r.shadows = s.r.shadows /\ t.r.ui = s.r.ui /\ t.r.attempted = a
  BY <1>1 DEF IsSystem, IsRenderer, NoRenderer
<1> QED BY <1>1, <1>2 DEF IsSystem, SameParts

(* A pipeline was attempted.                                               *)
AttemptLeaves(s, t) ==
  /\ IsSystem(t) /\ Gains(s.d, t.d, t.r.attempted)
  /\ SameParts(s, t) /\ t.r.prepared = s.r.prepared

(* No attempt changes nothing.                                             *)
LEMMA NothingAttempted ==
  ASSUME NEW s, FrameHolds(s)
  PROVE  AttemptLeaves(s, s)
<1>1. Becomes(s.d, s.d, PipelineKinds, Works)
  BY BecomesItself DEF FrameHolds
<1> QED BY <1>1 DEF FrameHolds, AttemptLeaves, Gains, SameParts

(* An attempt for a material pipeline keeps the frame's parts.             *)
LEMMA MeshPipelineAttempts ==
  ASSUME NEW s, FrameHolds(s), NEW shadowed \in BOOLEAN, NEW environment \in BOOLEAN,
         NEW name, name = MeshPipeline(shadowed, TRUE, environment), SetLayouts(name) \subseteq s.d.held,
         NEW t \in MeshPipelineAttempted(s, shadowed, environment)
  PROVE  AttemptLeaves(s, t)
<1>1. name \in MeshPipelines \ {"mesh shadowed"}
  BY DEF MeshPipeline, MeshPipelines
<1>2. CASE name \in s.r.attempted
  <2>1. t = s
    BY <1>2 DEF MeshPipelineAttempted, Attempt
  <2> QED BY <2>1, NothingAttempted
<1>3. CASE name \notin s.r.attempted
  <2>1. PICK o \in CreateWorldMeshPipeline(s.d, shadowed, TRUE, environment) :
          t = [s EXCEPT !.d = o.d, !.r.attempted = @ \cup {name}]
    BY <1>3 DEF MeshPipelineAttempted, Attempt
  <2>2. o \in Assembled(s.d, name, TRUE)
    BY <2>1 DEF CreateWorldMeshPipeline
  <2>3. PICK more : more = s.r.attempted \cup {name}
    OBVIOUS
  <2>4. t = [s EXCEPT !.d = o.d, !.r.attempted = more]
    BY <2>1, <2>3, Zenon
  <2>5. IsSystem(t) /\ t.d = o.d /\ SameParts(s, t) /\ t.r.attempted = more /\ t.r.prepared = s.r.prepared
    <3>1. PICK left : left = o.d
      OBVIOUS
    <3>2. AttemptedAs(s, left, more, t) /\ IsSystem(s)
      BY <2>4, <3>1 DEF FrameHolds, AttemptedAs
    <3> QED BY <3>1, <3>2, AttemptedIs
  <2>6. RenderPass \in s.d.held
    BY DEF FrameHolds, ChainHolds, ChainObjects
  <2>7. PICK e, attempted : e = s.d /\ attempted = s.r.attempted
    OBVIOUS
  <2>8. Clean(e) /\ PipelinesHold(attempted, e.held) /\ o \in Assembled(e, name, TRUE)
        /\ RenderPass \in e.held /\ SetLayouts(name) \subseteq e.held /\ more \in {attempted \cup {name}} /\ name \notin attempted
    BY <1>3, <2>2, <2>3, <2>6, <2>7 DEF FrameHolds
  <2>9. PICK n : n = name
    OBVIOUS
  <2>10. Gains(e, o.d, more)
    <3>1. CanAttempt(e, attempted, n, more) /\ o \in Assembled(e, n, TRUE)
      BY <1>1, <2>8, <2>9 DEF CanAttempt
    <3> QED BY <3>1, MeshPipelineMade
  <2> QED BY <2>5, <2>7, <2>10 DEF AttemptLeaves
<1> QED BY <1>2, <1>3

(* An attempt for the receivers keeps the frame's parts.                   *)
LEMMA ReceiversAttempt ==
  ASSUME NEW s, FrameHolds(s), ReceiverLayout \in s.d.held, NEW t \in Attempt(s, "receivers", CreateReceivers)
  PROVE  AttemptLeaves(s, t)
<1>2. CASE "receivers" \in s.r.attempted
  <2>1. t = s
    BY <1>2 DEF Attempt
  <2> QED BY <2>1, NothingAttempted
<1>3. CASE "receivers" \notin s.r.attempted
  <2>1. PICK o \in CreateReceivers(s.d) : t = [s EXCEPT !.d = o.d, !.r.attempted = @ \cup {"receivers"}]
    BY <1>3 DEF Attempt
  <2>3. PICK more : more = s.r.attempted \cup {"receivers"}
    OBVIOUS
  <2>4. t = [s EXCEPT !.d = o.d, !.r.attempted = more]
    BY <2>1, <2>3, Zenon
  <2>5. IsSystem(t) /\ t.d = o.d /\ SameParts(s, t) /\ t.r.attempted = more /\ t.r.prepared = s.r.prepared
    <3>1. PICK left : left = o.d
      OBVIOUS
    <3>2. AttemptedAs(s, left, more, t) /\ IsSystem(s)
      BY <2>4, <3>1 DEF FrameHolds, AttemptedAs
    <3> QED BY <3>1, <3>2, AttemptedIs
  <2>6. RenderPass \in s.d.held
    BY DEF FrameHolds, ChainHolds, ChainObjects
  <2>7. PICK e, attempted : e = s.d /\ attempted = s.r.attempted
    OBVIOUS
  <2>8. Clean(e) /\ PipelinesHold(attempted, e.held) /\ o \in CreateReceivers(e)
        /\ RenderPass \in e.held /\ ReceiverLayout \in e.held /\ more \in {attempted \cup {"receivers"}}
        /\ "receivers" \notin attempted
    BY <1>3, <2>1, <2>3, <2>6, <2>7 DEF FrameHolds
  <2>9. Gains(e, o.d, more)
    BY <2>8, ReceiversMade
  <2> QED BY <2>5, <2>7, <2>9 DEF AttemptLeaves
<1> QED BY <1>2, <1>3

(* Calls that make one object after the other.                             *)
IsRow(calls, made, needs, last, held) ==
  /\ Len(calls) = last /\ DOMAIN calls = 1 .. last
  /\ \A i \in 1 .. last : calls[i] = Make(made[i], needs[i]) /\ made[i] \notin held /\ needs[i] \subseteq held
  /\ \A i, j \in 1 .. last : made[i] = made[j] => i = j

(* Predecessors of different integers differ.                              *)
LEMMA SameLess == \A i, j \in Int : i - 1 = j - 1 => i = j
OBVIOUS

(* A list given by a function of its places.                               *)
LEMMA RowIs ==
  ASSUME NEW last \in Nat, NEW calls, calls = [n \in 1 .. last |-> calls[n]]
  PROVE  Len(calls) = last /\ DOMAIN calls = 1 .. last
OBVIOUS

(* A row of creations makes one object each.                               *)
LEMMA RowMakes ==
  ASSUME NEW held, NEW busy, NEW last \in Nat, NEW made, NEW needs, NEW calls, IsRow(calls, made, needs, last, held),
         NEW objects, objects = {made[i] : i \in 1 .. last}
  PROVE  Makes(calls, held, busy, objects)
<1>1. \A i \in 1 .. last : calls[i].makes = {made[i]} /\ calls[i].needs = needs[i] /\ calls[i].writes = {}
  BY DEF IsRow, Make
<1>2. \A n \in 0 .. last : MadeBy(calls, n) = {made[i] : i \in 1 .. n}
  <2> SUFFICES ASSUME NEW n \in 0 .. last PROVE MadeBy(calls, n) = {made[i] : i \in 1 .. n}
    OBVIOUS
  <2>1. \A i \in 1 .. n : calls[i].makes = {made[i]}
    BY <1>1
  <2>2. ASSUME NEW x \in MadeBy(calls, n) PROVE x \in {made[i] : i \in 1 .. n}
    <3>1. PICK i \in 1 .. n : x \in calls[i].makes
      BY <2>2 DEF MadeBy
    <3> QED BY <2>1, <3>1
  <2>3. ASSUME NEW i \in 1 .. n PROVE made[i] \in MadeBy(calls, n)
    BY <2>1 DEF MadeBy
  <2> QED BY <2>2, <2>3
<1>3. ASSUME NEW i \in 1 .. last PROVE FitsIn(calls[i], held \cup MadeBy(calls, i - 1), busy)
  <2>1. MadeBy(calls, i - 1) = {made[j] : j \in 1 .. i - 1}
    <3>1. i - 1 \in 0 .. last
      OBVIOUS
    <3> QED BY <1>2, <3>1
  <2>2. made[i] \notin MadeBy(calls, i - 1)
    <3>1. \A j \in 1 .. i - 1 : j \in 1 .. last /\ j # i
      OBVIOUS
    <3> QED BY <2>1, <3>1 DEF IsRow
  <2>3. calls[i] = Make(made[i], needs[i]) /\ made[i] \notin held \cup MadeBy(calls, i - 1)
        /\ needs[i] \subseteq held \cup MadeBy(calls, i - 1)
    BY <2>2 DEF IsRow
  <2> QED BY <2>3, MakeFits
<1>4. Fits(calls, held, busy)
  BY <1>3 DEF Fits, IsRow
<1>5. MadeBy(calls, Len(calls)) = objects
  <2>1. last \in 0 .. last
    OBVIOUS
  <2> QED BY <1>2, <2>1 DEF IsRow
<1> QED BY <1>4, <1>5 DEF Makes

-----------------------------------------------------------------------------
(* The swapchain.                                                          *)

SwapViews == {SwapView(i) : i \in Images}
SwapTargets == {SwapTarget(i) : i \in Images}

(* The images of the swapchain are numbered from 0.                        *)
LEMMA ImagesAre ==
  /\ SwapImages \in Nat /\ Images = {n - 1 : n \in 1 .. SwapImages}
  /\ \A n \in 1 .. SwapImages : n - 1 \in Images
<1>1. SwapImages \in Nat
  BY ResourcesAssumption
<1>2. \A n \in 1 .. SwapImages : n - 1 \in Images
  BY <1>1 DEF Images
<1>3. \A i \in Images : i + 1 \in 1 .. SwapImages /\ i = (i + 1) - 1
  BY <1>1 DEF Images
<1> QED BY <1>1, <1>2, <1>3

(* The loop over swapchain images makes their views.                       *)
LEMMA ViewsMake ==
  ASSUME NEW held, NEW busy, SwapViews \cap held = {}, Swapchain \in held
  PROVE  Makes(ViewCalls, held, busy, SwapViews)
<1> DEFINE made == [n \in 1 .. SwapImages |-> SwapView(n - 1)]
<1> DEFINE needs == [n \in 1 .. SwapImages |-> {Swapchain}]
<1>1. SwapImages \in Nat
  BY ImagesAre
<1>2. Len(ViewCalls) = SwapImages /\ DOMAIN ViewCalls = 1 .. SwapImages
  BY <1>1 DEF ViewCalls
<1>3. \A i \in 1 .. SwapImages : made[i] \in SwapViews /\ made[i] = SwapView(i - 1)
  BY ImagesAre DEF SwapViews
<1>4. \A i \in 1 .. SwapImages : ViewCalls[i] = Make(made[i], needs[i]) /\ made[i] \notin held /\ needs[i] \subseteq held
  BY <1>3 DEF ViewCalls
<1>5. ASSUME NEW i \in 1 .. SwapImages, NEW j \in 1 .. SwapImages, made[i] = made[j] PROVE i = j
  <2>1. SwapView(i - 1) = SwapView(j - 1)
    BY <1>3, <1>5
  <2>2. i - 1 = j - 1
    BY <2>1 DEF SwapView
  <2>3. i \in Int /\ j \in Int
    BY <1>1
  <2> QED BY <2>2, <2>3, SameLess
<1>6. SwapViews = {made[i] : i \in 1 .. SwapImages}
  BY <1>3, ImagesAre DEF SwapViews
<1> HIDE DEF made, needs
<1>7. IsRow(ViewCalls, made, needs, SwapImages, held)
  BY <1>2, <1>4, <1>5 DEF IsRow
<1> QED BY <1>1, <1>6, <1>7, RowMakes

(* The loop over swapchain views makes their framebuffers.                 *)
LEMMA TargetsMake ==
  ASSUME NEW held, NEW busy, SwapTargets \cap held = {}, SwapViews \subseteq held,
         RenderPass \in held, DepthObjects \subseteq held
  PROVE  Makes(TargetCalls, held, busy, SwapTargets)
<1> DEFINE made == [n \in 1 .. SwapImages |-> SwapTarget(n - 1)]
<1> DEFINE needs == [n \in 1 .. SwapImages |-> {SwapView(n - 1), RenderPass, <<"depth view", 0>>}]
<1>1. SwapImages \in Nat
  BY ImagesAre
<1>2. Len(TargetCalls) = SwapImages /\ DOMAIN TargetCalls = 1 .. SwapImages
  <2>1. TargetCalls = [n \in 1 .. SwapImages |-> TargetCalls[n]]
    BY DEF TargetCalls
  <2>2. PICK row : row = TargetCalls
    OBVIOUS
  <2>3. Len(row) = SwapImages /\ DOMAIN row = 1 .. SwapImages
    BY <1>1, <2>1, <2>2, RowIs
  <2> QED BY <2>2, <2>3
<1>3. \A i \in 1 .. SwapImages : made[i] \in SwapTargets /\ made[i] = SwapTarget(i - 1) /\ SwapView(i - 1) \in SwapViews
  BY ImagesAre DEF SwapTargets, SwapViews
<1>4. \A i \in 1 .. SwapImages : TargetCalls[i] = Make(made[i], needs[i]) /\ made[i] \notin held /\ needs[i] \subseteq held
  BY <1>3 DEF TargetCalls, DepthObjects
<1>6. SwapTargets = {made[i] : i \in 1 .. SwapImages}
  BY <1>3, ImagesAre DEF SwapTargets
<1> HIDE DEF made, needs
<1>5. ASSUME NEW i \in 1 .. SwapImages, NEW j \in 1 .. SwapImages, made[i] = made[j] PROVE i = j
  <2>1. SwapTarget(i - 1) = SwapTarget(j - 1)
    BY <1>3, <1>5
  <2>2. i - 1 = j - 1
    BY <2>1 DEF SwapTarget
  <2>3. i \in Int /\ j \in Int
    BY <1>1
  <2> QED BY <2>2, <2>3, SameLess
<1>7. IsRow(TargetCalls, made, needs, SwapImages, held)
  BY <1>2, <1>4, <1>5 DEF IsRow
<1> QED BY <1>1, <1>6, <1>7, RowMakes

(* The swapchain itself.                                                   *)
LEMMA ChainMakes ==
  ASSUME NEW held, NEW busy,
         Swapchain \notin held,
         {Device, Surface} \subseteq held
  PROVE  Makes(ChainCalls, held, busy, {Swapchain})
<1>1. PICK a, b :
        /\ a = Call({})
        /\ b = Make(Swapchain, {Device, Surface})
  OBVIOUS
<1>2. /\ a.makes = {}
      /\ b.makes = {Swapchain}
  BY <1>1, CallsMake
<1>3. FitsIn(a, held, busy)
  BY <1>1, CallFits
<1>4. FitsIn(b, held \cup (a.makes), busy)
  <2>1. /\ Swapchain \notin held \cup (a.makes)
        /\ {Device, Surface} \subseteq held \cup (a.makes)
    BY <1>2
  <2> QED BY <1>1, <2>1, MakeFits
<1>5. Makes(<<a, b>>, held, busy, a.makes \cup b.makes)
  BY <1>3, <1>4, MakesTwo
<1>6. a.makes \cup b.makes = {Swapchain}
  BY <1>2
<1>7. <<a, b>> = ChainCalls
  BY <1>1 DEF ChainCalls
<1> QED BY <1>5, <1>6, <1>7

(* The render pass of a swapchain.                                         *)
LEMMA PassOfChainMakes ==
  ASSUME NEW held, NEW busy,
         RenderPass \notin held
  PROVE  Makes(PassCalls, held, busy, {RenderPass})
<1>1. PICK a :
        /\ a = Make(RenderPass, {})
  OBVIOUS
<1>2. /\ a.makes = {RenderPass}
  BY <1>1, CallsMake
<1>3. FitsIn(a, held, busy)
  <2>1. RenderPass \notin held
    BY <1>2
  <2> QED BY <1>1, <2>1, MakeFits
<1>4. Makes(<<a>>, held, busy, a.makes)
  BY <1>3, MakesOne
<1>5. a.makes = {RenderPass}
  BY <1>2
<1>6. <<a>> = PassCalls
  BY <1>1 DEF PassCalls
<1> QED BY <1>4, <1>5, <1>6

(* The depth image of a swapchain.                                         *)
LEMMA DepthMakes ==
  ASSUME NEW held, NEW busy,
         DepthObjects \cap held = {}
  PROVE  Makes(DepthCalls, held, busy, DepthObjects)
<1>1. PICK a, b, c, e :
        /\ a = Make(<<"depth image", 0>>, {})
        /\ b = Make(<<"depth memory", 0>>, {})
        /\ c = Call({})
        /\ e = Make(<<"depth view", 0>>, {<<"depth image", 0>>})
  OBVIOUS
<1>2. /\ a.makes = {<<"depth image", 0>>}
      /\ b.makes = {<<"depth memory", 0>>}
      /\ c.makes = {}
      /\ e.makes = {<<"depth view", 0>>}
  BY <1>1, CallsMake
<1>3. FitsIn(a, held, busy)
  <2>1. <<"depth image", 0>> \notin held
    BY <1>2 DEF DepthObjects
  <2> QED BY <1>1, <2>1, MakeFits
<1>4. FitsIn(b, held \cup (a.makes), busy)
  <2>1. <<"depth memory", 0>> \notin held \cup (a.makes)
    BY <1>2 DEF DepthObjects
  <2> QED BY <1>1, <2>1, MakeFits
<1>5. FitsIn(c, held \cup (a.makes \cup b.makes), busy)
  BY <1>1, CallFits
<1>6. FitsIn(e, held \cup (a.makes \cup b.makes \cup c.makes), busy)
  <2>1. /\ <<"depth view", 0>> \notin held \cup (a.makes \cup b.makes \cup c.makes)
        /\ {<<"depth image", 0>>} \subseteq held \cup (a.makes \cup b.makes \cup c.makes)
    BY <1>2 DEF DepthObjects
  <2> QED BY <1>1, <2>1, MakeFits
<1>7. Makes(<<a, b, c, e>>, held, busy, a.makes \cup b.makes \cup c.makes \cup e.makes)
  BY <1>3, <1>4, <1>5, <1>6, MakesFour
<1>8. a.makes \cup b.makes \cup c.makes \cup e.makes = DepthObjects
  BY <1>2 DEF DepthObjects
<1>9. <<a, b, c, e>> = DepthCalls
  BY <1>1 DEF DepthCalls
<1> QED BY <1>7, <1>8, <1>9

(* The objects of the swapchain differ by kind.                            *)
LEMMA ChainSorts ==
  /\ Swapchain \notin SwapViews /\ Swapchain \notin SwapTargets /\ Swapchain \notin DepthObjects /\ Swapchain # RenderPass
  /\ RenderPass \notin SwapViews /\ RenderPass \notin SwapTargets /\ RenderPass \notin DepthObjects
  /\ SwapViews \cap SwapTargets = {} /\ SwapViews \cap DepthObjects = {} /\ SwapTargets \cap DepthObjects = {}
<1>1. Swapchain[1] = "swapchain" /\ RenderPass[1] = "render pass"
  BY DEF Swapchain, RenderPass
<1>2. \A x \in DepthObjects : x[1] \in {"depth image", "depth memory", "depth view"}
  <2>1. SUFFICES ASSUME NEW x \in DepthObjects PROVE x[1] \in {"depth image", "depth memory", "depth view"}
    OBVIOUS
  <2>2. x = <<"depth image", 0>> \/ x = <<"depth memory", 0>> \/ x = <<"depth view", 0>>
    BY DEF DepthObjects
  <2>3. CASE x = <<"depth image", 0>>
    BY <2>3
  <2>4. CASE x = <<"depth memory", 0>>
    BY <2>4
  <2>5. CASE x = <<"depth view", 0>>
    BY <2>5
  <2> QED BY <2>2, <2>3, <2>4, <2>5
<1>3. \A x \in SwapViews : x[1] = "swapchain view"
  <2>1. \A i : SwapView(i)[1] = "swapchain view"
    BY DEF SwapView
  <2> QED BY <2>1 DEF SwapViews
<1>4. \A x \in SwapTargets : x[1] = "framebuffer"
  <2>1. \A i : SwapTarget(i)[1] = "framebuffer"
    BY DEF SwapTarget
  <2> QED BY <2>1 DEF SwapTargets
<1> QED BY <1>1, <1>2, <1>3, <1>4

(* createSwapchain up to createFramebuffers.                               *)
LEMMA SwapchainAdds ==
  ASSUME NEW d, Clean(d), ChainObjects \cap d.held = {}, {Device, Surface} \subseteq d.held,
         NEW o \in TryEach(d, SwapchainCalls)
  PROVE  Adds(d, o, ChainObjects)
<1>1. PICK lists, sets :
        /\ lists = SwapchainCalls
        /\ sets = <<{Swapchain}, SwapViews, {RenderPass}, DepthObjects, SwapTargets>>
  OBVIOUS
<1>2. Len(lists) = 5
  BY <1>1 DEF SwapchainCalls
<1>3. /\ lists[1] = ChainCalls /\ lists[2] = ViewCalls /\ lists[3] = PassCalls /\ lists[4] = DepthCalls
      /\ lists[5] = TargetCalls
  BY <1>1 DEF SwapchainCalls
<1>4. /\ sets[1] = {Swapchain} /\ sets[2] = SwapViews /\ sets[3] = {RenderPass} /\ sets[4] = DepthObjects
      /\ sets[5] = SwapTargets
  BY <1>1
<1>5. /\ Upto(sets, 0) = {} /\ Upto(sets, 1) = sets[1] /\ Upto(sets, 2) = sets[1] \cup sets[2]
      /\ Upto(sets, 3) = sets[1] \cup sets[2] \cup sets[3] /\ Upto(sets, 4) = sets[1] \cup sets[2] \cup sets[3] \cup sets[4]
      /\ Upto(sets, 5) = sets[1] \cup sets[2] \cup sets[3] \cup sets[4] \cup sets[5]
  <2>1. /\ 1 .. 0 = {} /\ 1 .. 1 = {1} /\ 1 .. 2 = {1, 2} /\ 1 .. 3 = {1, 2, 3} /\ 1 .. 4 = {1, 2, 3, 4}
        /\ 1 .. 5 = {1, 2, 3, 4, 5}
    OBVIOUS
  <2> QED BY <2>1 DEF Upto
<1>6. ChainObjects = {Swapchain} \cup SwapViews \cup {RenderPass} \cup DepthObjects \cup SwapTargets
  BY DEF ChainObjects, SwapViews, SwapTargets
<1>7. Makes(lists[1], d.held \cup Upto(sets, 0), Busy(d), sets[1])
  <2>1. PICK held : held = d.held \cup Upto(sets, 0)
    OBVIOUS
  <2>2. Swapchain \notin held /\ {Device, Surface} \subseteq held
    BY <1>5, <1>6, <2>1
  <2> QED BY <1>3, <1>4, <2>1, <2>2, ChainMakes
<1>8. Makes(lists[2], d.held \cup Upto(sets, 1), Busy(d), sets[2])
  <2>1. PICK held : held = d.held \cup Upto(sets, 1)
    OBVIOUS
  <2>2. SwapViews \cap held = {} /\ Swapchain \in held
    BY <1>4, <1>5, <1>6, <2>1, ChainSorts
  <2> QED BY <1>3, <1>4, <2>1, <2>2, ViewsMake
<1>9. Makes(lists[3], d.held \cup Upto(sets, 2), Busy(d), sets[3])
  <2>1. PICK held : held = d.held \cup Upto(sets, 2)
    OBVIOUS
  <2>2. RenderPass \notin held
    BY <1>4, <1>5, <1>6, <2>1, ChainSorts
  <2> QED BY <1>3, <1>4, <2>1, <2>2, PassOfChainMakes
<1>10. Makes(lists[4], d.held \cup Upto(sets, 3), Busy(d), sets[4])
  <2>1. PICK held : held = d.held \cup Upto(sets, 3)
    OBVIOUS
  <2>2. DepthObjects \cap held = {}
    BY <1>4, <1>5, <1>6, <2>1, ChainSorts
  <2> QED BY <1>3, <1>4, <2>1, <2>2, DepthMakes
<1>11. Makes(lists[5], d.held \cup Upto(sets, 4), Busy(d), sets[5])
  <2>1. PICK held : held = d.held \cup Upto(sets, 4)
    OBVIOUS
  <2>2. SwapTargets \cap held = {} /\ SwapViews \subseteq held /\ RenderPass \in held /\ DepthObjects \subseteq held
    BY <1>4, <1>5, <1>6, <2>1, ChainSorts
  <2> QED BY <1>3, <1>4, <2>1, <2>2, TargetsMake
<1>12. PICK last \in Nat : last = 5
  OBVIOUS
<1>13. \A i \in 1 .. last : Makes(lists[i], d.held \cup Upto(sets, i - 1), Busy(d), sets[i])
  <2>1. SUFFICES ASSUME NEW i \in 1 .. last
                 PROVE  Makes(lists[i], d.held \cup Upto(sets, i - 1), Busy(d), sets[i])
    OBVIOUS
  <2>2. (i = 1 /\ i - 1 = 0) \/ (i = 2 /\ i - 1 = 1) \/ (i = 3 /\ i - 1 = 2) \/ (i = 4 /\ i - 1 = 3) \/ (i = 5 /\ i - 1 = 4)
    BY <1>12
  <2> QED BY <1>7, <1>8, <1>9, <1>10, <1>11, <2>2
<1>14. Adds(d, o, Upto(sets, last))
  BY <1>1, <1>2, <1>12, <1>13, TryEachMakes
<1>15. Upto(sets, last) = ChainObjects
  BY <1>4, <1>5, <1>6, <1>12
<1> QED BY <1>14, <1>15

-----------------------------------------------------------------------------
(* The device and its commands.                                            *)
(* The instance, the surface and the device.                               *)
LEMMA DeviceMakes ==
  ASSUME NEW held, NEW busy,
         {Instance, Surface, Device} \cap held = {},
         Instance # Surface,
         Device \notin {Instance, Surface}
  PROVE  /\ Len(DeviceCalls) = 4 /\ MadeBy(DeviceCalls, 3) = {Instance, Surface}
         /\ Makes(DeviceCalls, held, busy, {Instance, Surface, Device})
<1>1. PICK a, b, c, e :
        /\ a = Make(Instance, {})
        /\ b = Make(Surface, {Instance})
        /\ c = Call({})
        /\ e = Make(Device, {Instance})
  OBVIOUS
<1>2. /\ a.makes = {Instance}
      /\ b.makes = {Surface}
      /\ c.makes = {}
      /\ e.makes = {Device}
  BY <1>1, CallsMake
<1>3. FitsIn(a, held, busy)
  <2>1. Instance \notin held
    BY <1>2
  <2> QED BY <1>1, <2>1, MakeFits
<1>4. FitsIn(b, held \cup (a.makes), busy)
  <2>1. /\ Surface \notin held \cup (a.makes)
        /\ {Instance} \subseteq held \cup (a.makes)
    BY <1>2
  <2> QED BY <1>1, <2>1, MakeFits
<1>5. FitsIn(c, held \cup (a.makes \cup b.makes), busy)
  BY <1>1, CallFits
<1>6. FitsIn(e, held \cup (a.makes \cup b.makes \cup c.makes), busy)
  <2>1. /\ Device \notin held \cup (a.makes \cup b.makes \cup c.makes)
        /\ {Instance} \subseteq held \cup (a.makes \cup b.makes \cup c.makes)
    BY <1>2
  <2> QED BY <1>1, <2>1, MakeFits
<1>7. /\ Makes(<<a, b, c, e>>, held, busy, a.makes \cup b.makes \cup c.makes \cup e.makes)
      /\ MadeBy(<<a, b, c, e>>, 3) = a.makes \cup b.makes \cup c.makes /\ Len(<<a, b, c, e>>) = 4
  BY <1>3, <1>4, <1>5, <1>6, MakesFour
<1>8. a.makes \cup b.makes \cup c.makes \cup e.makes = {Instance, Surface, Device}
  BY <1>2
<1>9. <<a, b, c, e>> = DeviceCalls
  BY <1>1 DEF DeviceCalls
<1>11. a.makes \cup b.makes \cup c.makes = {Instance, Surface}
  BY <1>2
<1> QED BY <1>7, <1>8, <1>9, <1>11

(* Semaphores and the fence of a slot.                                     *)
LEMMA SyncMakes ==
  ASSUME NEW held, NEW busy, NEW slot, NEW ready, NEW done, NEW fence,
         ready = <<"image available", slot>>,
         done = <<"render finished", slot>>,
         fence = <<"in flight", slot>>,
         {ready, done, fence} \cap held = {},
         Device \in held
  PROVE  Makes(SyncCalls(slot), held, busy, {ready, done, fence})
<1>1. PICK a, b, c :
        /\ a = Make(ready, {Device})
        /\ b = Make(done, {Device})
        /\ c = Make(fence, {Device})
  OBVIOUS
<1>2. /\ a.makes = {ready}
      /\ b.makes = {done}
      /\ c.makes = {fence}
  BY <1>1, CallsMake
<1>3. FitsIn(a, held, busy)
  <2>1. /\ ready \notin held
        /\ {Device} \subseteq held
    BY <1>2
  <2> QED BY <1>1, <2>1, MakeFits
<1>4. FitsIn(b, held \cup (a.makes), busy)
  <2>1. /\ done \notin held \cup (a.makes)
        /\ {Device} \subseteq held \cup (a.makes)
    BY <1>2
  <2> QED BY <1>1, <2>1, MakeFits
<1>5. FitsIn(c, held \cup (a.makes \cup b.makes), busy)
  <2>1. /\ fence \notin held \cup (a.makes \cup b.makes)
        /\ {Device} \subseteq held \cup (a.makes \cup b.makes)
    BY <1>2
  <2> QED BY <1>1, <2>1, MakeFits
<1>6. Makes(<<a, b, c>>, held, busy, a.makes \cup b.makes \cup c.makes)
  BY <1>3, <1>4, <1>5, MakesThree
<1>7. a.makes \cup b.makes \cup c.makes = {ready, done, fence}
  BY <1>2
<1>8. <<a, b, c>> = SyncCalls(slot)
  BY <1>1 DEF SyncCalls
<1> QED BY <1>6, <1>7, <1>8

(* Lists of calls, one after the other.                                    *)
LEMMA CallsRun ==
  ASSUME NEW d, NEW lists, Len(lists) \in Nat, NEW o \in TryEach(d, lists)
  PROVE  \E f : IsRun(f, "calls", 0, Returns(d, TRUE), lists, Len(lists)) /\ o \in f[Len(lists)]
<1> DEFINE Turn(p, x) == IF p.ok THEN Try(p.d, x) ELSE {p}
           G(f, n) == IF n = 0 THEN Returns(d, TRUE) ELSE UNION {Turn(p, lists[n]) : p \in f[n - 1]}
           after == CHOOSE f : f = [n \in 0 .. Len(lists) |-> G(f, n)]
<1>1. TryEach(d, lists) = after[Len(lists)]
  BY DEF TryEach, InTurn
<1>2. Len(lists) \in Nat
  OBVIOUS
<1>3. PICK f : IsRun(f, "calls", 0, Returns(d, TRUE), lists, Len(lists))
  BY <1>2, RunExists
<1>4. \A p, x : Stage("calls", 0, p, x) = Turn(p, x)
  BY DEF Stage
<1> HIDE DEF Turn
<1>5. \A n \in 0 .. Len(lists) : Staged(f, "calls", 0, Returns(d, TRUE), lists, n) = G(f, n)
  BY <1>4 DEF Staged
<1>6. after = [n \in 0 .. Len(lists) |-> G(after, n)]
  <2> HIDE DEF G
  <2>1. f = [n \in 0 .. Len(lists) |-> G(f, n)]
    BY <1>3, <1>5 DEF IsRun
  <2> QED BY <2>1
<1>7. \A n \in 0 .. Len(lists) : Staged(after, "calls", 0, Returns(d, TRUE), lists, n) = G(after, n)
  BY <1>4 DEF Staged
<1> HIDE DEF after, G
<1>8. IsRun(after, "calls", 0, Returns(d, TRUE), lists, Len(lists))
  BY <1>6, <1>7 DEF IsRun
<1> QED BY <1>1, <1>8

(* Two lists of calls.                                                     *)
LEMMA TwoLists ==
  ASSUME NEW d, NEW lists, Len(lists) = 2, NEW o \in TryEach(d, lists)
  PROVE  \E p \in Try(d, lists[1]) : IF p.ok THEN o \in Try(p.d, lists[2]) ELSE o = p
<1>1. PICK last \in Nat : last = Len(lists) /\ last = 2
  OBVIOUS
<1>2. PICK f : IsRun(f, "calls", 0, Returns(d, TRUE), lists, last) /\ o \in f[last]
  BY <1>1, CallsRun
<1>3. PICK start : start = Returns(d, TRUE)
  OBVIOUS
<1>4. IsRun(f, "calls", 0, start, lists, last)
  BY <1>2, <1>3
<1>5. PICK p \in f[1] : o \in Stage("calls", 0, p, lists[2])
  <2>1. 2 \in 1 .. last /\ o \in f[2] /\ 2 - 1 = 1
    BY <1>1, <1>2
  <2> QED BY <1>4, <2>1, RunStep
<1>6. PICK q \in f[0] : p \in Stage("calls", 0, q, lists[1])
  <2>1. 1 \in 1 .. last /\ p \in f[1] /\ 1 - 1 = 0
    BY <1>1, <1>5
  <2> QED BY <1>4, <2>1, RunStep
<1>7. q \in Returns(d, TRUE)
  BY <1>3, <1>4, <1>6, RunStart
<1>8. q.d = d /\ q.ok = TRUE
  BY <1>7 DEF Returns
<1>9. p \in Try(d, lists[1])
  BY <1>6, <1>8 DEF Stage
<1>10. IF p.ok THEN o \in Try(p.d, lists[2]) ELSE o = p
  BY <1>5 DEF Stage
<1> QED BY <1>9, <1>10

(* createInstance, createSurface, selectPhysicalDevice, createLogicalDevice *)
LEMMA DeviceAdds ==
  ASSUME NEW d, Clean(d), {Instance, Surface, Device} \cap d.held = {}, NEW o \in Try(d, DeviceCalls)
  PROVE  /\ Adds(d, o, {Instance, Surface, Device})
         /\ ~ o.ok => Device \notin o.d.held
<1>1. Instance # Surface /\ Device \notin {Instance, Surface}
  BY DEF Instance, Surface, Device
<1>2. PICK all, few : all = {Instance, Surface, Device} /\ few = {Instance, Surface}
  OBVIOUS
<1>3. /\ Len(DeviceCalls) = 4 /\ MadeBy(DeviceCalls, 3) = few
      /\ Makes(DeviceCalls, d.held, Busy(d), all)
  BY <1>1, <1>2, DeviceMakes
<1>4. Adds(d, o, all)
  BY <1>3, TryMakes
<1>5. Fits(DeviceCalls, d.held, Busy(d))
  BY <1>3 DEF Makes
<1>6. ~ o.ok => \E n \in 0 .. Len(DeviceCalls) - 1 : o.d.held = d.held \cup MadeBy(DeviceCalls, n)
  BY <1>5, TryAdds
<1>7. ASSUME ~ o.ok PROVE Device \notin o.d.held
  <2>1. PICK n \in 0 .. 3 : o.d.held = d.held \cup MadeBy(DeviceCalls, n)
    BY <1>3, <1>6, <1>7
  <2>2. MadeBy(DeviceCalls, n) \subseteq MadeBy(DeviceCalls, 3)
    BY MadeByLess
  <2> QED BY <1>1, <1>2, <1>3, <2>1, <2>2
<1> QED BY <1>2, <1>4, <1>7

(* Command pool, command buffers and synchronisation objects differ.       *)
LEMMA CommandSorts ==
  /\ \A x \in CommandBuffers : x[1] = "command buffer"
  /\ \A slot, x : x \in SyncOf(slot) => x \notin CommandBuffers /\ x # CommandPool
  /\ CommandPool \notin CommandBuffers
  /\ \A slot, other : slot # other => SyncOf(slot) \cap SyncOf(other) = {}
<1>1. ASSUME NEW x \in CommandBuffers PROVE x[1] = "command buffer"
  <2>1. \A slot : CommandBuffer(slot)[1] = "command buffer"
    BY DEF CommandBuffer
  <2> QED BY <2>1 DEF CommandBuffers
<1>2. CommandPool[1] = "command pool"
  BY DEF CommandPool
<1>3. ASSUME NEW slot, NEW x \in SyncOf(slot)
      PROVE  x[1] \in {"image available", "render finished", "in flight"} /\ x[2] = slot
  BY SyncsAre
<1>4. \A slot, x : x \in SyncOf(slot) => x[1] # "command buffer" /\ x[1] # "command pool" /\ x[2] = slot
  BY <1>3
<1>5. \A slot, x : x \in SyncOf(slot) => x \notin CommandBuffers /\ x # CommandPool
  BY <1>1, <1>2, <1>4
<1>6. CommandPool \notin CommandBuffers
  BY <1>1, <1>2
<1>7. \A slot, other : slot # other => SyncOf(slot) \cap SyncOf(other) = {}
  <2>1. SUFFICES ASSUME NEW slot, NEW other, NEW x, x \in SyncOf(slot), x \in SyncOf(other) PROVE slot = other
    OBVIOUS
  <2>2. x[2] = slot
    BY <2>1, SyncsAre
  <2>3. x[2] = other
    BY <2>1, SyncsAre
  <2> QED BY <2>2, <2>3
<1> QED BY <1>1, <1>5, <1>6, <1>7

(* A command buffer of every frame slot.                                   *)
LEMMA CommandBuffersMake ==
  ASSUME NEW held, NEW busy, CommandBuffers \cap held = {}, CommandPool \in held
  PROVE  Makes(CommandCalls[2], held, busy, CommandBuffers)
<1> DEFINE made == [n \in 1 .. FramesInFlight |-> CommandBuffer(n - 1)]
<1> DEFINE needs == [n \in 1 .. FramesInFlight |-> {CommandPool}]
<1>1. PICK last \in Nat : last = FramesInFlight
  BY DriverAssumption
<1>2. PICK calls : calls = CommandCalls[2]
  OBVIOUS
<1>3. calls = [n \in 1 .. last |-> Make(CommandBuffer(n - 1), {CommandPool})]
  BY <1>1, <1>2 DEF CommandCalls
<1>4. Len(calls) = last /\ DOMAIN calls = 1 .. last
  <2>1. calls = [n \in 1 .. last |-> calls[n]]
    BY <1>3
  <2> QED BY <2>1, RowIs
<1>5. \A i \in 1 .. last : made[i] \in CommandBuffers /\ made[i] = CommandBuffer(i - 1)
  BY <1>1 DEF CommandBuffers, FrameSlots
<1>6. \A i \in 1 .. last : calls[i] = Make(made[i], needs[i]) /\ made[i] \notin held /\ needs[i] \subseteq held
  BY <1>1, <1>3, <1>5
<1>7. ASSUME NEW i \in 1 .. last, NEW j \in 1 .. last, made[i] = made[j] PROVE i = j
  <2>1. CommandBuffer(i - 1) = CommandBuffer(j - 1)
    BY <1>5, <1>7
  <2>2. i - 1 = j - 1
    BY <2>1 DEF CommandBuffer
  <2>3. i \in Int /\ j \in Int
    BY <1>1
  <2> QED BY <2>2, <2>3, SameLess
<1>8. CommandBuffers = {made[i] : i \in 1 .. last}
  <2>1. \A slot \in FrameSlots : slot + 1 \in 1 .. last /\ (slot + 1) - 1 = slot
    BY <1>1 DEF FrameSlots
  <2>2. \A slot \in FrameSlots : made[slot + 1] = CommandBuffer(slot)
    BY <1>5, <2>1
  <2>3. ASSUME NEW x \in CommandBuffers PROVE x \in {made[i] : i \in 1 .. last}
    <3>1. PICK slot \in FrameSlots : x = CommandBuffer(slot)
      BY <2>3 DEF CommandBuffers
    <3>2. slot + 1 \in 1 .. last /\ x = made[slot + 1]
      BY <2>1, <2>2, <3>1
    <3> HIDE DEF made
    <3> QED BY <3>2
  <2>4. \A i \in 1 .. last : made[i] \in CommandBuffers
    BY <1>5
  <2> HIDE DEF made
  <2> QED BY <2>3, <2>4
<1> HIDE DEF made, needs
<1>9. IsRow(calls, made, needs, last, held)
  BY <1>4, <1>6, <1>7 DEF IsRow
<1> QED BY <1>2, <1>8, <1>9, RowMakes

(* createCommandPoolAndBuffers                                             *)
LEMMA PoolAndBuffersAdd ==
  ASSUME NEW d, Clean(d), ({CommandPool} \cup CommandBuffers) \cap d.held = {}, Device \in d.held,
         NEW o \in TryEach(d, CommandCalls)
  PROVE  /\ Adds(d, o, {CommandPool} \cup CommandBuffers)
         /\ CommandBuffers \cap o.d.held # {} => CommandPool \in o.d.held
<1>1. Len(CommandCalls) = 2 /\ CommandCalls[1] = <<Make(CommandPool, {Device})>>
  BY DEF CommandCalls
<1>2. PICK lists : lists = CommandCalls
  OBVIOUS
<1>3. PICK p \in Try(d, lists[1]) : IF p.ok THEN o \in Try(p.d, lists[2]) ELSE o = p
  BY <1>1, <1>2, TwoLists
<1>4. PICK pool, buffers : pool = {CommandPool} /\ buffers = CommandBuffers
  OBVIOUS
<1>5. Adds(d, p, pool)
  <2>1. FitsIn(Make(CommandPool, {Device}), d.held, Busy(d))
    BY MakeFits
  <2>2. Makes(<<Make(CommandPool, {Device})>>, d.held, Busy(d), Make(CommandPool, {Device}).makes)
    BY <2>1, MakesOne
  <2>3. Make(CommandPool, {Device}).makes = {CommandPool}
    BY CallsMake
  <2>4. p \in Try(d, <<Make(CommandPool, {Device})>>)
    BY <1>1, <1>2, <1>3
  <2> QED BY <1>4, <2>2, <2>3, <2>4, TryMakes
<1>6. CASE ~ p.ok
  <2>1. o = p
    BY <1>3, <1>6
  <2>2. Adds(d, p, pool \cup buffers)
    BY <1>5, <1>6, AddsLess
  <2>3. p.d.held \subseteq d.held \cup pool
    BY <1>5 DEF Adds
  <2>4. buffers \cap p.d.held = {}
    BY <1>4, <2>3, CommandSorts
  <2> QED BY <1>4, <2>1, <2>2, <2>4
<1>7. CASE p.ok
  <2>1. PICK e : e = p.d
    OBVIOUS
  <2>2. Clean(e) /\ e.held = d.held \cup pool
    BY <1>5, <1>7, <2>1 DEF Adds
  <2>3. CommandBuffers \cap e.held = {} /\ CommandPool \in e.held
    BY <1>4, <2>2, CommandSorts
  <2>4. Makes(lists[2], e.held, Busy(e), buffers)
    BY <1>2, <1>4, <2>3, CommandBuffersMake
  <2>5. o \in Try(e, lists[2])
    BY <1>3, <1>7, <2>1
  <2>6. Adds(e, o, buffers)
    BY <2>2, <2>4, <2>5, TryMakes
  <2>7. d.refusals \in Nat
    BY CleanShape
  <2>8. Adds(d, o, pool \cup buffers)
    BY <1>5, <1>7, <2>1, <2>6, <2>7, AddsMore
  <2>9. CommandPool \in o.d.held
    BY <2>3, <2>6 DEF Adds
  <2> QED BY <1>4, <2>8, <2>9
<1> QED BY <1>6, <1>7

AllSyncs == UNION {SyncOf(slot) : slot \in FrameSlots}

(* createSyncObjects                                                       *)
LEMMA SyncsAdd ==
  ASSUME NEW d, Clean(d), AllSyncs \cap d.held = {}, Device \in d.held,
         NEW lists, lists = [n \in 1 .. FramesInFlight |-> SyncCalls(n - 1)], NEW o \in TryEach(d, lists)
  PROVE  Adds(d, o, AllSyncs)
<1>1. PICK sets : sets = [n \in 1 .. FramesInFlight |-> SyncOf(n - 1)]
  OBVIOUS
<1>2. PICK last \in Nat : last = FramesInFlight
  BY DriverAssumption
<1>3. last = Len(lists)
  <2>1. lists = [n \in 1 .. last |-> lists[n]]
    BY <1>2
  <2> QED BY <2>1, RowIs
<1>4. ASSUME NEW i \in 1 .. last
      PROVE  Makes(lists[i], d.held \cup Upto(sets, i - 1), Busy(d), sets[i])
  <2>1. i - 1 \in FrameSlots /\ lists[i] = SyncCalls(i - 1) /\ sets[i] = SyncOf(i - 1)
    BY <1>1, <1>2 DEF FrameSlots
  <2>2. \A x \in Upto(sets, i - 1) : x[2] # i - 1
    <3>1. ASSUME NEW j \in 1 .. i - 1, NEW x \in sets[j]
          PROVE  x[2] # i - 1
      <4>1. sets[j] = SyncOf(j - 1)
        BY <1>1, <1>2
      <4>2. x[2] = j - 1
        BY <4>1, SyncsAre
      <4> QED BY <4>2
    <3> QED BY <3>1 DEF Upto
  <2>3. PICK held, slot : held = d.held \cup Upto(sets, i - 1) /\ slot = i - 1
    OBVIOUS
  <2>4. \A x \in SyncOf(slot) : x[2] = slot
    BY SyncsAre
  <2>5. SyncOf(slot) \cap d.held = {}
    BY <2>1, <2>3 DEF AllSyncs
  <2>6. SyncOf(slot) \cap held = {} /\ Device \in held
    BY <2>2, <2>3, <2>4, <2>5
  <2>7. PICK ready, done, fence :
          ready = <<"image available", slot>> /\ done = <<"render finished", slot>> /\ fence = <<"in flight", slot>>
    OBVIOUS
  <2>8. SyncOf(slot) = {ready, done, fence}
    BY <2>7 DEF SyncOf
  <2>9. Makes(SyncCalls(slot), held, Busy(d), {ready, done, fence})
    BY <2>6, <2>7, <2>8, SyncMakes
  <2> QED BY <2>1, <2>3, <2>8, <2>9
<1>5. Adds(d, o, Upto(sets, last))
  BY <1>2, <1>3, <1>4, TryEachMakes
<1>6. AllSyncs = Upto(sets, last)
  <2>1. \A j \in 1 .. last : sets[j] = SyncOf(j - 1) /\ j - 1 \in FrameSlots
    BY <1>1, <1>2 DEF FrameSlots
  <2>2. \A slot \in FrameSlots : slot + 1 \in 1 .. last /\ sets[slot + 1] = SyncOf(slot)
    BY <1>1, <1>2 DEF FrameSlots
  <2> QED BY <2>1, <2>2 DEF Upto, AllSyncs
<1> QED BY <1>5, <1>6

CommandObjects == {CommandPool} \cup CommandBuffers \cup AllSyncs

(* The command pool, the command buffers, the synchronisation of the       *)
(* slots.                                                                  *)
LEMMA CommandsAdd ==
  ASSUME NEW d, Clean(d), CommandObjects \cap d.held = {}, Device \in d.held, NEW o \in CommandsMade(d)
  PROVE  /\ Adds(d, o, CommandObjects)
         /\ CommandBuffers \cap o.d.held # {} => CommandPool \in o.d.held
<1>1. PICK lists : lists = [n \in 1 .. FramesInFlight |-> SyncCalls(n - 1)]
  OBVIOUS
<1>2. PICK p \in TryEach(d, CommandCalls) : IF p.ok THEN o \in TryEach(p.d, lists) ELSE o = p
  BY <1>1 DEF CommandsMade, AndThen
<1>3. PICK first : first = {CommandPool} \cup CommandBuffers
  OBVIOUS
<1>4. CommandObjects = first \cup AllSyncs
  BY <1>3 DEF CommandObjects
<1>5. first \cap AllSyncs = {} /\ CommandBuffers \cap AllSyncs = {}
  BY <1>3, CommandSorts DEF AllSyncs
<1>6. Adds(d, p, first) /\ (CommandBuffers \cap p.d.held # {} => CommandPool \in p.d.held)
  BY <1>3, <1>4, PoolAndBuffersAdd
<1>7. CASE ~ p.ok
  <2>1. o = p
    BY <1>2, <1>7
  <2>2. Adds(d, p, CommandObjects)
    BY <1>4, <1>6, <1>7, AddsLess
  <2> QED BY <1>6, <2>1, <2>2
<1>8. CASE p.ok
  <2>1. PICK e : e = p.d
    OBVIOUS
  <2>2. Clean(e) /\ e.held = d.held \cup first
    BY <1>6, <1>8, <2>1 DEF Adds
  <2>3. AllSyncs \cap e.held = {} /\ Device \in e.held
    BY <1>4, <1>5, <2>2
  <2>4. o \in TryEach(e, lists)
    BY <1>2, <1>8, <2>1
  <2>5. Adds(e, o, AllSyncs)
    BY <1>1, <2>2, <2>3, <2>4, SyncsAdd
  <2>6. d.refusals \in Nat
    BY CleanShape
  <2>7. Adds(d, o, CommandObjects)
    BY <1>4, <1>6, <1>8, <2>1, <2>5, <2>6, AddsMore
  <2>8. CommandPool \in o.d.held
    BY <1>3, <2>2, <2>5 DEF Adds
  <2> QED BY <2>7, <2>8
<1> QED BY <1>7, <1>8

(* What every part owns follows from what it owned, or is shown anew.      *)
LEMMA OwnedStays ==
  ASSUME NEW d, NEW r, NEW m, Owned(d, r, m), NEW e, NEW q, NEW n, NEW kinds, NEW works,
         Becomes(d, e, kinds, works), kinds \subseteq KnownKinds,
         ShadowsOwn(q.shadows, Of(ShadowKinds, e.held)) \/ (kinds \cap ShadowKinds = {} /\ q.shadows = r.shadows),
         UiHolds(q.ui, e.held) \/ (kinds \cap UiKinds = {} /\ q.ui = r.ui),
         MatOwns(q.materials, e, Others(n))
           \/ (kinds \cap PrepareKinds = {} /\ q.materials = r.materials /\ n = m /\ OneTime \in works),
         (MeshTable(n) /\ MeshesHold(n, e.held)) \/ (n = m /\ kinds \cap MeshKinds = {}),
         AssetsHold(n, e.held) \/ (n = m /\ kinds \cap AssetKinds = {}),
         (\A mesh \in Meshes : n[mesh].textured => q.materials.ready) \/ (n = m /\ q.materials.ready = r.materials.ready)
  PROVE  Owned(e, q, n)
<1>1. /\ ShadowsOwn(r.shadows, Of(ShadowKinds, d.held))
      /\ UiHolds(r.ui, d.held) /\ MatOwns(r.materials, d, Others(m))
      /\ MeshTable(m) /\ MeshesHold(m, d.held) /\ AssetsHold(m, d.held)
      /\ \A mesh \in Meshes : m[mesh].textured => r.materials.ready
      /\ \A x \in d.held : x[1] \in KnownKinds
  BY DEF Owned
<1>2. ShadowsOwn(q.shadows, Of(ShadowKinds, e.held))
  <2>1. CASE kinds \cap ShadowKinds = {} /\ q.shadows = r.shadows
    <3>1. SameOf(ShadowKinds, d.held, e.held)
      BY <2>1, BecomesSame
    <3>2. ShadowsOwn(r.shadows, Of(ShadowKinds, e.held))
      BY <1>1, <3>1, ShadowsSame
    <3> QED BY <2>1, <3>2
  <2> QED BY <2>1
<1>3. UiHolds(q.ui, e.held)
  <2>1. CASE kinds \cap UiKinds = {} /\ q.ui = r.ui
    <3>1. SameOf(UiKinds, d.held, e.held)
      BY <2>1, BecomesSame
    <3>2. UiHolds(r.ui, e.held)
      BY <1>1, <3>1, UiSame
    <3> QED BY <2>1, <3>2
  <2> QED BY <2>1
<1>4. MatOwns(q.materials, e, Others(n))
  <2>1. CASE kinds \cap PrepareKinds = {} /\ q.materials = r.materials /\ n = m /\ OneTime \in works
    <3>1. SameOf(PrepareKinds, d.held, e.held)
      BY <2>1, BecomesSame
    <3>2. e.work[OneTime] \subseteq d.work[OneTime]
      BY <2>1 DEF Becomes
    <3>3. MatOwns(r.materials, e, Others(m))
      BY <1>1, <3>1, <3>2, MatSame
    <3> QED BY <2>1, <3>3
  <2> QED BY <2>1
<1>5. MeshTable(n) /\ MeshesHold(n, e.held)
  <2>1. CASE n = m /\ kinds \cap MeshKinds = {}
    <3>1. SameOf(MeshKinds, d.held, e.held)
      BY <2>1, BecomesSame
    <3>2. MeshesHold(m, e.held)
      BY <1>1, <3>1, MeshesSame
    <3> QED BY <1>1, <2>1, <3>2
  <2> QED BY <2>1
<1>6. AssetsHold(n, e.held)
  <2>1. CASE n = m /\ kinds \cap AssetKinds = {}
    <3>1. SameOf(AssetKinds, d.held, e.held)
      BY <2>1, BecomesSame
    <3>2. AssetsHold(m, e.held)
      BY <1>1, <3>1, AssetsSame
    <3> QED BY <2>1, <3>2
  <2> QED BY <2>1
<1>7. \A mesh \in Meshes : n[mesh].textured => q.materials.ready
  <2>1. CASE n = m /\ q.materials.ready = r.materials.ready
    BY <1>1, <2>1
  <2> QED BY <2>1
<1>8. \A x \in e.held : x[1] \in KnownKinds
  BY <1>1, KnownStays
<1> QED BY <1>2, <1>3, <1>4, <1>5, <1>6, <1>7, <1>8 DEF Owned

(* All objects of these kinds go, and no others.                           *)
AllGone(d, e, kinds) ==
  /\ Clean(e) /\ e.work = d.work /\ e.refusals = d.refusals
  /\ \A x \in e.held : x[1] \notin kinds
  /\ \A x : x[1] \notin kinds => (x \in e.held <=> x \in d.held)

(* Destructions of whole kinds compose.                                    *)
LEMMA AllGoneThen ==
  ASSUME NEW d, NEW e, NEW g, NEW first, NEW then, NEW both, both = first \cup then,
         AllGone(d, e, first), AllGone(e, g, then)
  PROVE  AllGone(d, g, both)
<1>1. /\ Clean(g) /\ g.work = d.work /\ g.refusals = d.refusals
      /\ \A x \in g.held : x[1] \notin then
      /\ \A x : x[1] \notin then => (x \in g.held <=> x \in e.held)
      /\ \A x \in e.held : x[1] \notin first
      /\ \A x : x[1] \notin first => (x \in e.held <=> x \in d.held)
  BY DEF AllGone
<1>2. \A x \in g.held : x[1] \notin both
  BY <1>1
<1>3. \A x : x[1] \notin both => (x \in g.held <=> x \in d.held)
  BY <1>1
<1> QED BY <1>1, <1>2, <1>3 DEF AllGone

(* Destroying whole kinds is a change confined to them.                    *)
LEMMA AllGoneBecomes ==
  ASSUME NEW d, Clean(d), NEW e, NEW kinds, AllGone(d, e, kinds), NEW works
  PROVE  Becomes(d, e, kinds, works) /\ Busy(e) = Busy(d)
<1>1. /\ Clean(e) /\ e.work = d.work /\ e.refusals = d.refusals
      /\ \A x : x[1] \notin kinds => (x \in e.held <=> x \in d.held)
  BY DEF AllGone
<1>2. d.refusals \in Nat
  BY CleanShape
<1> QED BY <1>1, <1>2, WorkIsBusy DEF Becomes

(* A part destroyed in two calls is gone.                                  *)
LEMMA DestroyTwice ==
  ASSUME NEW d, Clean(d), Busy(d) = {}, NEW first, NEW then, NEW kinds,
         \A x \in first \cup then : x[1] \in kinds, \A x \in d.held : x[1] \in kinds => x \in first \cup then,
         NEW e \in {Destroy(Destroy(d, first), then)}
  PROVE  AllGone(d, e, kinds)
<1>1. PICK g : g = Destroy(d, first)
  OBVIOUS
<1>2. Clean(g) /\ g.held = d.held \ first /\ g.work = d.work /\ g.refusals = d.refusals
  BY <1>1, DestroyIsClean
<1>3. Busy(g) = {}
  BY <1>2, WorkIsBusy
<1>4. e = Destroy(g, then)
  BY <1>1
<1>5. Clean(e) /\ e.held = g.held \ then /\ e.work = g.work /\ e.refusals = g.refusals
  BY <1>2, <1>3, <1>4, DestroyIsClean
<1> QED BY <1>2, <1>5 DEF AllGone

(* The pipelines that are there, and no other objects of their kinds.      *)
PlainlyPipelines(held) ==
  \A x \in held : x[1] \in PipelineKinds => \E name \in AllPipelines : x = Pipeline(name) \/ x = Layout(name)
PlainlyChain(held) == \A x \in held : x[1] \in ChainKinds => x \in ChainObjects

(* destroyPipelines leaves no pipeline behind.                             *)
LEMMA PipelinesGoneIs ==
  ASSUME NEW d, Clean(d), Busy(d) = {}, PlainlyPipelines(d.held), NEW e \in {PipelinesGone(d)}
  PROVE  AllGone(d, e, PipelineKinds)
<1>1. PICK first, then : first = {Pipeline(n) : n \in AllPipelines} /\ then = {Layout(n) : n \in AllPipelines}
  OBVIOUS
<1>2. \A n \in AllPipelines : Pipeline(n)[1] \in PipelineKinds /\ Layout(n)[1] \in PipelineKinds
  BY PipelineObjectsAre1
<1>3. \A x \in first \cup then : x[1] \in PipelineKinds
  BY <1>1, <1>2
<1>4. \A x \in d.held : x[1] \in PipelineKinds => x \in first \cup then
  BY <1>1 DEF PlainlyPipelines
<1>5. e \in {Destroy(Destroy(d, first), then)}
  BY <1>1 DEF PipelinesGone
<1> QED BY <1>3, <1>4, <1>5, DestroyTwice

(* destroySwapchain leaves no object of the swapchain behind.              *)
LEMMA SwapchainGoneIs ==
  ASSUME NEW d, Clean(d), Busy(d) = {}, PlainlyChain(d.held), NEW e \in {SwapchainGone(d)}
  PROVE  AllGone(d, e, ChainKinds)
<1>1. PICK first, then :
        /\ first = {SwapTarget(i) : i \in Images} \cup {RenderPass} \cup DepthObjects
        /\ then = {SwapView(i) : i \in Images} \cup {Swapchain}
  OBVIOUS
<1>2. first \cup then = ChainObjects
  BY <1>1 DEF ChainObjects
<1>3. \A x \in first \cup then : x[1] \in ChainKinds
  BY <1>2, ChainObjectsAre
<1>4. \A x \in d.held : x[1] \in ChainKinds => x \in first \cup then
  BY <1>2 DEF PlainlyChain
<1>5. e \in {Destroy(Destroy(d, first), then)}
  BY <1>1 DEF SwapchainGone
<1> QED BY <1>3, <1>4, <1>5, DestroyTwice

(* Destroying the shadows leaves no object of them behind.                 *)
LEMMA ShadowsGoneIs ==
  ASSUME NEW d, Clean(d), Busy(d) = {}, NEW s, ShadowsOwn(s, Of(ShadowKinds, d.held)), NEW e \in {DestroyShadows(s, d)}
  PROVE  AllGone(d, e, ShadowKinds)
<1>1. /\ Clean(e) /\ e.work = d.work /\ e.refusals = d.refusals
      /\ Of(ShadowKinds, e.held) = {}
      /\ \A x : x[1] \notin ShadowKinds => (x \in e.held <=> x \in d.held)
  BY DestroyShadowsOwns
<1>2. \A x \in e.held : x[1] \notin ShadowKinds
  BY <1>1 DEF Of
<1> QED BY <1>1, <1>2 DEF AllGone

(* Destroying the interface leaves no object of it behind.                 *)
LEMMA UiGoneIs ==
  ASSUME NEW d, Clean(d), Busy(d) = {}, NEW u, UiHolds(u, d.held), NEW e \in {DestroyUi(u, d)}
  PROVE  AllGone(d, e, UiKinds)
<1>1. u.device \in BOOLEAN /\ UiKnown(u, d.held)
  BY DEF UiHolds, UiKnown, UiStates
<1>2. UiGone(d, e)
  BY <1>1, DestroyUiOwns
<1> QED BY <1>2 DEF UiGone, AllGone

(* Parts that own nothing are the blank ones.                              *)
LEMMA NothingOwned ==
  ASSUME NEW held, \A x \in held : x[1] \notin ShadowKinds /\ x[1] \notin UiKinds
  PROVE  ShadowsOwn(NoShadows, Of(ShadowKinds, held)) /\ UiHolds(NoUi, held)
<1>1. Of(ShadowKinds, held) = {}
  BY DEF Of
<1>2. NoShadows \in ShadowStates /\ ~ NoShadows.coreReady /\ NoShadows.resolution = 0
  BY DEF NoShadows, ShadowStates
<1>3. ShadowsOwn(NoShadows, {})
  BY <1>2 DEF ShadowsOwn
<1>4. /\ NoUi \in UiStates /\ ~ NoUi.device
      /\ NoUi.textures = {} /\ \A slot \in FrameSlots : NoUi.retained[slot] = {}
      /\ \A slot \in FrameSlots, name \in Geometry : NoUi.capacity[slot][name] = 0
  BY DEF NoUi, UiStates
<1>5. UiHolds(NoUi, held)
  BY <1>4 DEF UiHolds, GeometryFits
<1> QED BY <1>1, <1>3, <1>5

(* With a swapchain, and without.                                          *)
Dressed(d, r) ==
  /\ ChainHolds(d.held) /\ PipelinesHold(r.attempted, d.held)
  /\ r.shadows.device /\ r.materials.device
Undressed(d, r) ==
  /\ \A x \in d.held : x[1] \notin ChainKinds /\ x[1] \notin PipelineKinds
  /\ r.shadows = NoShadows /\ r.ui = NoUi /\ r.attempted = {}
(* A backend at rest, of whose swapchain there may be something.           *)
Rests(d, r, m) ==
  /\ Clean(d) /\ Busy(d) = {} /\ IsRenderer(r) /\ Owned(d, r, m)
  /\ PlainlyChain(d.held) /\ PlainlyPipelines(d.held)
Bare(d, r, m) == Rests(d, r, m) /\ Undressed(d, r)
SwapKinds == PipelineKinds \cup ShadowKinds \cup UiKinds \cup ChainKinds
(* A step that is about the swapchain.                                     *)
AboutSwapchain(d, e) ==
  Becomes(d, e, SwapKinds, Works) /\ SameOf(DeviceKinds, d.held, e.held)

(* A swapchain's recreation touches neither meshes nor materials.          *)
LEMMA SwapKindsKnown ==
  /\ SwapKinds \subseteq KnownKinds /\ SwapKinds \cap DeviceKinds = {}
  /\ SwapKinds \cap PrepareKinds = {} /\ SwapKinds \cap MeshKinds = {} /\ SwapKinds \cap AssetKinds = {}
BY KindsOfPartsDiffer DEF SwapKinds, KnownKinds

(* The steps of a recreation compose.                                      *)
LEMMA AboutSwapchainThen ==
  ASSUME NEW d, Clean(d), NEW e, NEW f, AboutSwapchain(d, e), AboutSwapchain(e, f)
  PROVE  AboutSwapchain(d, f)
<1>1. Becomes(d, f, SwapKinds, Works)
  BY BecomesThen DEF AboutSwapchain
<1> QED BY <1>1, BecomesSame, SwapKindsKnown DEF AboutSwapchain

(* A change confined to the recreation's kinds is a step of it.            *)
LEMMA BecomesAbout ==
  ASSUME NEW d, Clean(d), NEW e, NEW kinds, kinds \subseteq SwapKinds, Becomes(d, e, kinds, Works)
  PROVE  AboutSwapchain(d, e)
<1>1. Becomes(d, e, SwapKinds, Works)
  BY BecomesWider
<1> QED BY <1>1, BecomesSame, SwapKindsKnown DEF AboutSwapchain

SwapParts(r, q, s, u, a, p) == q = [r EXCEPT !.shadows = s, !.ui = u, !.attempted = a, !.prepared = p]

(* What a recreation sets in the renderer.                                 *)
LEMMA IsRendererFields ==
  ASSUME NEW r, IsRenderer(r), NEW s, NEW u, NEW a, NEW p,
         NEW q, SwapParts(r, q, s, u, a, p)
  PROVE  /\ IsRenderer(q) /\ q.shadows = s /\ q.ui = u /\ q.attempted = a
         /\ q.materials = r.materials
<1>1. DOMAIN r = {"shadows", "ui", "materials", "attempted", "prepared"}
  BY DEF IsRenderer, NoRenderer
<1>2. q = [r EXCEPT !.shadows = s, !.ui = u, !.attempted = a, !.prepared = p]
  BY DEF SwapParts
<1> QED BY <1>1, <1>2 DEF IsRenderer, NoRenderer

(* destroySwapchainResources leaves nothing of the swapchain.              *)
LEMMA DestroySwapchainOwns ==
  ASSUME NEW d, NEW r, NEW m, Rests(d, r, m), Device \in d.held,
         NEW e, NEW q, e = DestroySwapchain(r, d).d, q = DestroySwapchain(r, d).r
  PROVE  Bare(e, q, m) /\ q.materials = r.materials /\ AboutSwapchain(d, e)
<1>0. /\ Clean(d) /\ Busy(d) = {} /\ IsRenderer(r) /\ Owned(d, r, m)
      /\ PlainlyChain(d.held) /\ PlainlyPipelines(d.held)
  BY DEF Rests
<1>1. PICK a : a = PipelinesGone(d)
  OBVIOUS
<1>2. PICK b : b = DestroyShadows(r.shadows, a)
  OBVIOUS
<1>3. PICK c : c = DestroyUi(r.ui, b)
  OBVIOUS
<1>4. e = SwapchainGone(c) /\ q = [r EXCEPT !.shadows = NoShadows, !.ui = NoUi, !.attempted = {}, !.prepared = {}]
  BY <1>1, <1>2, <1>3 DEF DestroySwapchain
<1>5. /\ IsRenderer(q) /\ q.shadows = NoShadows /\ q.ui = NoUi /\ q.attempted = {}
      /\ q.materials = r.materials
  <2>1. DOMAIN r = {"shadows", "ui", "materials", "attempted", "prepared"}
    BY <1>0 DEF IsRenderer, NoRenderer
  <2>2. PICK ns, nu, none : ns = NoShadows /\ nu = NoUi /\ none = {}
    OBVIOUS
  <2>3. SwapParts(r, q, ns, nu, none, none)
    BY <1>4, <2>2 DEF SwapParts
  <2>4. /\ IsRenderer(q) /\ q.shadows = ns /\ q.ui = nu /\ q.attempted = none
        /\ q.materials = r.materials
    BY <2>3, <1>0, IsRendererFields
  <2> QED BY <2>2, <2>4
<1>6. AllGone(d, a, PipelineKinds)
  BY <1>0, <1>1, PipelinesGoneIs
<1>7. Clean(a) /\ Busy(a) = {} /\ Becomes(d, a, PipelineKinds, Works)
  BY <1>6, <1>0, AllGoneBecomes DEF AllGone
<1>8. ShadowsOwn(r.shadows, Of(ShadowKinds, d.held)) /\ UiHolds(r.ui, d.held)
  BY <1>0 DEF Owned
<1>9. ShadowsOwn(r.shadows, Of(ShadowKinds, a.held))
  <2>1. SameOf(ShadowKinds, d.held, a.held)
    BY <1>7, BecomesSame, KindsOfPartsDiffer
  <2> QED BY <2>1, <1>8, ShadowsSame
<1>10. AllGone(a, b, ShadowKinds)
  BY <1>7, <1>9, <1>2, ShadowsGoneIs
<1>11. Clean(b) /\ Busy(b) = {} /\ Becomes(a, b, ShadowKinds, Works)
  BY <1>10, <1>7, AllGoneBecomes DEF AllGone
<1>12. UiHolds(r.ui, b.held)
  <2>1. SameOf(UiKinds, d.held, a.held)
    BY <1>7, BecomesSame, KindsOfPartsDiffer
  <2>2. SameOf(UiKinds, a.held, b.held)
    BY <1>11, BecomesSame, KindsOfPartsDiffer
  <2>3. UiHolds(r.ui, a.held)
    BY <2>1, <1>8, UiSame
  <2> QED BY <2>3, <2>2, UiSame
<1>13. AllGone(b, c, UiKinds)
  BY <1>11, <1>12, <1>3, UiGoneIs
<1>14. Clean(c) /\ Busy(c) = {}
  BY <1>13, <1>11, AllGoneBecomes DEF AllGone
<1>15. PlainlyChain(c.held)
  BY <1>0, <1>6, <1>10, <1>13, KindsOfPartsDiffer DEF PlainlyChain, AllGone
<1>16. AllGone(c, e, ChainKinds)
  BY <1>14, <1>15, <1>4, SwapchainGoneIs
<1>17. PICK k2 : k2 = PipelineKinds \cup ShadowKinds
  OBVIOUS
<1>18. PICK k3 : k3 = k2 \cup UiKinds
  OBVIOUS
<1>19. AllGone(d, b, k2)
  BY <1>17, <1>6, <1>10, AllGoneThen
<1>20. AllGone(d, c, k3)
  BY <1>18, <1>19, <1>13, AllGoneThen
<1>21. SwapKinds = k3 \cup ChainKinds
  BY <1>17, <1>18 DEF SwapKinds
<1>22. AllGone(d, e, SwapKinds)
  BY <1>21, <1>20, <1>16, AllGoneThen
<1>23. Clean(e) /\ Busy(e) = {} /\ Becomes(d, e, SwapKinds, Works)
  BY <1>22, <1>0, AllGoneBecomes DEF AllGone
<1>24. \A x \in e.held : x[1] \notin PipelineKinds /\ x[1] \notin ShadowKinds /\ x[1] \notin UiKinds /\ x[1] \notin ChainKinds
  BY <1>22 DEF AllGone, SwapKinds
<1>25. ShadowsOwn(NoShadows, Of(ShadowKinds, e.held)) /\ UiHolds(NoUi, e.held)
  BY <1>24, NothingOwned
<1>26. OneTime \in Works
  BY DriverAssumption DEF OneTime, Works
<1>27. Owned(e, q, m)
  <2>1. ShadowsOwn(q.shadows, Of(ShadowKinds, e.held)) /\ UiHolds(q.ui, e.held)
    BY <1>25, <1>5
  <2>2. q.materials.ready = r.materials.ready
    BY <1>5
  <2> QED BY <2>1, <2>2, <1>0, <1>23, <1>5, <1>26, SwapKindsKnown, OwnedStays
<1>28. Undressed(e, q) /\ PlainlyChain(e.held) /\ PlainlyPipelines(e.held)
  BY <1>24, <1>5 DEF Undressed, PlainlyChain, PlainlyPipelines
<1>29. AboutSwapchain(d, e)
  BY <1>23, BecomesSame, SwapKindsKnown DEF AboutSwapchain
<1> QED BY <1>23, <1>5, <1>27, <1>28, <1>29 DEF Bare, Rests

(* The shadow map created owns nothing yet.                                *)
LEMMA ShadowsCreatedOwn ==
  ASSUME NEW held, \A x \in held : x[1] \notin ShadowKinds, NEW s, s = ShadowsCreated(NoShadows)
  PROVE  ShadowsOwn(s, Of(ShadowKinds, held)) /\ s.device
<1>1. Of(ShadowKinds, held) = {}
  BY DEF Of
<1>2. s \in ShadowStates /\ ~ s.coreReady /\ s.resolution = 0 /\ s.device
  BY DEF NoShadows, ShadowStates, ShadowsCreated
<1>3. ShadowsOwn(s, {})
  BY <1>2 DEF ShadowsOwn
<1> QED BY <1>1, <1>2, <1>3

(* The materials created own what they owned.                              *)
LEMMA MaterialsCreatedOwn ==
  ASSUME NEW d, NEW others, NEW m, m = NoMaterials, MatOwns(m, d, others), NEW n, n = MaterialsCreated
  PROVE  MatOwns(n, d, others) /\ n.device /\ n.ready = m.ready
<1>1. /\ DOMAIN n = DOMAIN NoMaterials /\ n.gate = m.gate /\ n.device
      /\ n.attemptedCore = m.attemptedCore /\ n.ready = m.ready /\ n.defaults = m.defaults /\ n.brdf = m.brdf
      /\ n.shows = m.shows /\ n.pending = m.pending /\ n.used = m.used
  BY DEF MaterialsCreated, NoMaterials
<1>2. Stored(n) = Stored(m)
  BY <1>1 DEF Stored
<1>3. MaterialFlags(n)
  <2>1. MaterialFlags(m)
    BY DEF MatOwns
  <2>2. IsMaterials(n)
    BY <1>1, <2>1 DEF IsMaterials, MaterialFlags
  <2>3. n.device = TRUE
    BY DEF MaterialsCreated, NoMaterials
  <2> QED BY <1>1, <2>1, <2>2, <2>3 DEF MaterialFlags
<1>4. CoreHolds(n, d.held) /\ EnvironmentHolds(n, d.held)
  BY <1>1 DEF MatOwns, CoreHolds, EnvironmentHolds
<1>5. OneTimeIs(d, n.pending)
  BY <1>1 DEF MatOwns, OneTimeIs
<1>6. Stock(d.held, Stored(n) \cup n.pending \cup others, n.pending, n.used)
  BY <1>1, <1>2 DEF MatOwns
<1>7. n.pending \cap (Stored(n) \cup others) = {}
  BY <1>1, <1>2 DEF MatOwns
<1> QED BY <1>1, <1>3, <1>4, <1>5, <1>6, <1>7 DEF MatOwns

OwnerParts(r, q, s, u, n) == q = [r EXCEPT !.ui = u, !.shadows = s, !.materials = n]

(* What the creation of the owners sets in the renderer.                   *)
LEMMA OwnerFields ==
  ASSUME NEW r, IsRenderer(r), NEW q, NEW s, NEW u, NEW n, OwnerParts(r, q, s, u, n)
  PROVE  /\ IsRenderer(q) /\ q.shadows = s /\ q.ui = u /\ q.materials = n /\ q.attempted = r.attempted
<1>1. DOMAIN r = {"shadows", "ui", "materials", "attempted", "prepared"}
  BY DEF IsRenderer, NoRenderer
<1>2. q = [r EXCEPT !.ui = u, !.shadows = s, !.materials = n]
  BY DEF OwnerParts
<1> QED BY <1>1, <1>2 DEF IsRenderer, NoRenderer

(* What createSwapchainResources leaves: all of it or nothing.             *)
Swapped(d, m, e, q, ok) ==
  /\ ok \in BOOLEAN /\ Rests(e, q, m) /\ AboutSwapchain(d, e)
  /\ IF ok THEN Dressed(e, q) ELSE Undressed(e, q)

(* Shadow map, interface and materials around a new swapchain.             *)
LEMMA OwnersCreatedOwn ==
  ASSUME NEW d, NEW r, NEW m, Bare(d, r, m),
         NEW c, Becomes(d, c, ChainKinds, Works), ChainHolds(c.held),
         NEW p, Becomes(c, p, PipelineKinds, Works), PipelinesHold({}, p.held),
         NEW o \in OwnersCreated(r, p)
  PROVE  Swapped(d, m, o.d, o.r, TRUE) /\ o.ok
<1>0. /\ Clean(d) /\ Busy(d) = {} /\ IsRenderer(r) /\ Owned(d, r, m)
      /\ r.shadows = NoShadows /\ r.ui = NoUi /\ r.attempted = {}
  BY DEF Rests, Bare, Undressed
<1>1. PICK u \in CreateUi(r.ui, p, RenderPass) :
        o = [d |-> u.d, ok |-> TRUE,
             r |-> [r EXCEPT !.ui = u.u, !.shadows = ShadowsCreated(@),
                             !.materials = IF @.device THEN @ ELSE MaterialsCreated]]
  BY DEF OwnersCreated
<1>2. PICK n : n = IF r.materials.device THEN r.materials ELSE MaterialsCreated
  OBVIOUS
<1>3. PICK s : s = ShadowsCreated(NoShadows)
  OBVIOUS
<1>4. PICK e, q : e = o.d /\ q = o.r
  OBVIOUS
<1>5. PICK v : v = u.u
  OBVIOUS
<1>6. e = u.d /\ OwnerParts(r, q, s, v, n) /\ o.ok
  <2>1. DOMAIN r = {"shadows", "ui", "materials", "attempted", "prepared"}
    BY <1>0 DEF IsRenderer, NoRenderer
  <2> QED BY <1>1, <1>2, <1>3, <1>4, <1>5, <1>0, <2>1 DEF OwnerParts
<1>7. IsRenderer(q) /\ q.shadows = s /\ q.ui = v /\ q.materials = n /\ q.attempted = {}
  BY <1>6, <1>0, OwnerFields
<1>8. Clean(c) /\ Clean(p)
  BY DEF Becomes
<1>9. Busy(c) = {} /\ Busy(p) = {}
  BY <1>0, BusyBecomes
<1>10. UiHolds(r.ui, p.held)
  <2>1. SameOf(UiKinds, d.held, c.held)
    BY BecomesSame, KindsOfPartsDiffer
  <2>2. SameOf(UiKinds, c.held, p.held)
    BY BecomesSame, KindsOfPartsDiffer
  <2>3. UiHolds(r.ui, d.held)
    BY <1>0 DEF Owned
  <2>4. UiHolds(r.ui, c.held)
    BY <2>1, <2>3, UiSame
  <2> QED BY <2>4, <2>2, UiSame
<1>11. ChainHolds(p.held)
  <2>1. SameOf(ChainKinds, c.held, p.held)
    BY BecomesSame, KindsOfPartsDiffer
  <2> QED BY <2>1, ChainSame
<1>12. RenderPass \in ChainObjects
  BY DEF ChainObjects
<1>13. RenderPass \in p.held /\ RenderPass[1] \notin UiKinds
  BY <1>11, <1>12, ChainObjectsAre, KindsOfPartsDiffer DEF ChainHolds
<1>14. Becomes(p, u.d, UiKinds, Works) /\ UiHolds(u.u, u.d.held)
  BY <1>8, <1>9, <1>10, <1>13, CreateUiOwns
<1>15. Becomes(p, e, UiKinds, Works) /\ UiHolds(v, e.held)
  BY <1>14, <1>5, <1>6
<1>16. Clean(e) /\ Busy(e) = {}
  BY <1>15, <1>9, BusyBecomes DEF Becomes
<1>17. AboutSwapchain(d, e)
  <2>1. AboutSwapchain(d, c)
    BY <1>0, BecomesAbout DEF SwapKinds
  <2>2. AboutSwapchain(c, p)
    BY <1>8, BecomesAbout DEF SwapKinds
  <2>3. AboutSwapchain(p, e)
    BY <1>8, <1>15, BecomesAbout DEF SwapKinds
  <2>4. AboutSwapchain(d, p)
    BY <1>0, <2>1, <2>2, AboutSwapchainThen
  <2> QED BY <1>0, <2>4, <2>3, AboutSwapchainThen
<1>18. ChainHolds(e.held) /\ PipelinesHold({}, e.held)
  <2>1. SameOf(ChainKinds, p.held, e.held)
    BY <1>15, BecomesSame, KindsOfPartsDiffer
  <2>2. SameOf(PipelineKinds, p.held, e.held)
    BY <1>15, BecomesSame, KindsOfPartsDiffer
  <2>3. ChainHolds(e.held)
    BY <2>1, <1>11, ChainSame
  <2>4. PICK none : none = {}
    OBVIOUS
  <2>5. PipelinesHold(none, p.held)
    BY <2>4
  <2>6. PipelinesHold(none, e.held)
    BY <2>5, <2>2, PipelinesSame
  <2> QED BY <2>3, <2>4, <2>6
<1>19. \A x \in e.held : x[1] \notin ShadowKinds
  <2>1. Of(ShadowKinds, d.held) = {}
    BY <1>0 DEF Owned, ShadowsOwn, NoShadows, MapObjects
  <2>2. \A x \in d.held : x[1] \notin ShadowKinds
    BY <2>1 DEF Of
  <2>3. SameOf(ShadowKinds, d.held, c.held)
    BY BecomesSame, KindsOfPartsDiffer
  <2>4. SameOf(ShadowKinds, c.held, p.held)
    BY BecomesSame, KindsOfPartsDiffer
  <2>5. SameOf(ShadowKinds, p.held, e.held)
    BY <1>15, BecomesSame, KindsOfPartsDiffer
  <2> QED BY <2>2, <2>3, <2>4, <2>5 DEF SameOf
<1>20. ShadowsOwn(s, Of(ShadowKinds, e.held)) /\ s.device
  BY <1>19, <1>3, ShadowsCreatedOwn
<1>21. MatOwns(r.materials, d, Others(m))
  BY <1>0 DEF Owned
<1>22. Becomes(d, e, SwapKinds, Works)
  BY <1>17 DEF AboutSwapchain
<1>23. OneTime \in Works
  BY DriverAssumption DEF OneTime, Works
<1>24. MatOwns(r.materials, e, Others(m))
  <2>1. SameOf(PrepareKinds, d.held, e.held)
    BY <1>22, BecomesSame, SwapKindsKnown
  <2>2. e.work[OneTime] \subseteq d.work[OneTime]
    BY <1>22, <1>23 DEF Becomes
  <2> QED BY <1>21, <2>1, <2>2, MatSame
<1>25. MatOwns(n, e, Others(m)) /\ n.device /\ n.ready = r.materials.ready
  <2>1. CASE r.materials.device
    BY <2>1, <1>2, <1>24
  <2>2. CASE ~ r.materials.device
    <3>1. r.materials = NoMaterials
      BY <2>2, <1>21 DEF MatOwns, MaterialFlags
    <3>2. PICK k, others : k = r.materials /\ others = Others(m)
      OBVIOUS
    <3>3. n = MaterialsCreated /\ k = NoMaterials /\ MatOwns(k, e, others)
      BY <2>2, <1>2, <3>1, <3>2, <1>24
    <3> QED BY <3>2, <3>3, MaterialsCreatedOwn
  <2> QED BY <2>1, <2>2
<1>26. Owned(e, q, m)
  <2>1. ShadowsOwn(q.shadows, Of(ShadowKinds, e.held)) /\ UiHolds(q.ui, e.held) /\ MatOwns(q.materials, e, Others(m))
    BY <1>20, <1>15, <1>25, <1>7
  <2>2. q.materials.ready = r.materials.ready
    BY <1>25, <1>7
  <2> QED BY <2>1, <2>2, <1>0, <1>22, SwapKindsKnown, OwnedStays
<1>27. Dressed(e, q)
  BY <1>18, <1>7, <1>20, <1>25 DEF Dressed
<1>28. PlainlyChain(e.held) /\ PlainlyPipelines(e.held)
  BY <1>18 DEF PlainlyChain, PlainlyPipelines, ChainHolds, PipelinesHold
<1> QED BY <1>4, <1>6, <1>7, <1>16, <1>17, <1>26, <1>27, <1>28 DEF Swapped, Rests

(* createSwapchainResources                                                *)
LEMMA CreateSwapchainOwns ==
  ASSUME NEW d, NEW r, NEW m, Bare(d, r, m), {Device, Surface} \subseteq d.held,
         NEW o \in CreateSwapchainResources(r, d)
  PROVE  Swapped(d, m, o.d, o.r, o.ok)
<1>0. /\ Clean(d) /\ Busy(d) = {} /\ IsRenderer(r) /\ Owned(d, r, m) /\ Undressed(d, r)
  BY DEF Rests, Bare
<1>1. PICK c \in TryEach(d, SwapchainCalls) :
        o \in IF c.ok THEN UNION {OwnersCreated(r, p.d) : p \in PlainPipelinesMade(c.d)}
              ELSE LET gone == DestroySwapchain(r, c.d) IN {[d |-> gone.d, r |-> gone.r, ok |-> FALSE]}
  BY DEF CreateSwapchainResources
<1>2. ChainObjects \cap d.held = {}
  BY <1>0, ChainObjectsAre DEF Undressed
<1>3. Adds(d, c, ChainObjects)
  BY <1>0, <1>2, SwapchainAdds
<1>4. PICK e : e = c.d
  OBVIOUS
<1>5. Becomes(d, e, ChainKinds, Works) /\ Busy(e) = {} /\ Clean(e)
  BY <1>3, <1>4, <1>0, ChainObjectsAre, AddsBecomes DEF Adds
<1>6. PlainlyChain(e.held) /\ e.held \subseteq d.held \cup ChainObjects /\ (c.ok => ChainObjects \subseteq e.held)
  BY <1>3, <1>4, <1>0 DEF PlainlyChain, Adds, Undressed
<1>7. CASE c.ok
  <2>1. PICK p \in PlainPipelinesMade(e) : o \in OwnersCreated(r, p.d)
    BY <1>7, <1>1, <1>4
  <2>2. ChainHolds(e.held)
    BY <1>6, <1>7 DEF ChainHolds, PlainlyChain
  <2>3. \A x \in e.held : x[1] \notin PipelineKinds
    BY <1>6, <1>0, ChainObjectsAre, KindsOfPartsDiffer DEF Undressed
  <2>4. RenderPass \in e.held
    BY <2>2 DEF ChainHolds, ChainObjects
  <2>5. Becomes(e, p.d, PipelineKinds, Works) /\ PipelinesHold({}, p.d.held)
    BY <1>5, <2>3, <2>4, PlainPipelinesOwn
  <2>6. PICK g : g = p.d
    OBVIOUS
  <2>7. Becomes(e, g, PipelineKinds, Works) /\ PipelinesHold({}, g.held) /\ o \in OwnersCreated(r, g)
    BY <2>1, <2>5, <2>6
  <2>8. Swapped(d, m, o.d, o.r, TRUE) /\ o.ok
    BY <1>5, <2>2, <2>7, OwnersCreatedOwn
  <2>9. o.ok = TRUE
    <3>1. PICK u : o = [d |-> u.d, ok |-> TRUE, r |-> [r EXCEPT !.ui = u.u, !.shadows = ShadowsCreated(@),
                    !.materials = IF @.device THEN @ ELSE MaterialsCreated]]
      BY <2>7 DEF OwnersCreated
    <3> QED BY <3>1
  <2> QED BY <2>8, <2>9
<1>8. CASE ~ c.ok
  <2>1. PICK f, q : f = DestroySwapchain(r, e).d /\ q = DestroySwapchain(r, e).r
    OBVIOUS
  <2>2. o = [d |-> f, r |-> q, ok |-> FALSE]
    BY <1>8, <1>1, <1>4, <2>1
  <2>3. Owned(e, r, m)
    <3>1. ChainKinds \subseteq KnownKinds
      BY DEF KnownKinds
    <3>2. OneTime \in Works
      BY DriverAssumption DEF OneTime, Works
    <3> QED BY <1>0, <1>5, <3>1, <3>2, KindsOfPartsDiffer, OwnedStays
  <2>4. PlainlyPipelines(e.held)
    BY <1>6, <1>0, ChainObjectsAre, KindsOfPartsDiffer DEF PlainlyPipelines, Undressed
  <2>5. Rests(e, r, m)
    BY <1>5, <1>0, <2>3, <2>4, <1>6 DEF Rests
  <2>6. Device \in e.held
    BY <1>3, <1>4 DEF Adds
  <2>7. Bare(f, q, m) /\ AboutSwapchain(e, f)
    BY <2>5, <2>6, <2>1, DestroySwapchainOwns
  <2>8. AboutSwapchain(d, e)
    BY <1>0, <1>5, BecomesAbout DEF SwapKinds
  <2>9. AboutSwapchain(d, f)
    BY <1>0, <2>7, <2>8, AboutSwapchainThen
  <2> QED BY <2>2, <2>7, <2>9 DEF Swapped, Bare
<1> QED BY <1>7, <1>8

(* A backend that may be cleared: nothing is said of the pipelines that    *)
(* were attempted, nor of what is in use.                                  *)
Stands(s) ==
  /\ IsSystem(s) /\ Clean(s.d) /\ Owned(s.d, s.r, s.m) /\ Device \in s.d.held
  /\ PlainlyChain(s.d.held) /\ PlainlyPipelines(s.d.held)

SettledAs(s, d, n, t) == t = [s EXCEPT !.d = d, !.r.materials = n]

(* What settling a pending upload sets.                                    *)
LEMMA SettledFields ==
  ASSUME NEW s, IsSystem(s), NEW d, NEW n, IsMaterials(n), NEW t, SettledAs(s, d, n, t)
  PROVE  /\ IsSystem(t) /\ t.d = d /\ t.m = s.m /\ t.r.shadows = s.r.shadows /\ t.r.ui = s.r.ui
         /\ t.r.materials = n /\ t.r.attempted = s.r.attempted /\ t.r.prepared = s.r.prepared
<1>1. PICK r : r = s.r
  OBVIOUS
<1>2. DOMAIN r = {"shadows", "ui", "materials", "attempted", "prepared"} /\ {"d", "r", "m"} \subseteq DOMAIN s
  BY <1>1 DEF IsSystem, IsRenderer, NoRenderer
<1>3. PICK q : q = [r EXCEPT !.materials = n]
  OBVIOUS
<1>4. /\ DOMAIN q = DOMAIN r /\ q.shadows = r.shadows /\ q.ui = r.ui /\ q.materials = n
      /\ q.attempted = r.attempted /\ q.prepared = r.prepared
  BY <1>2, <1>3
<1>5. t = [s EXCEPT !.d = d, !.r = q]
  BY <1>1, <1>3 DEF SettledAs
<1>6. DOMAIN t = DOMAIN s /\ t.d = d /\ t.r = q /\ t.m = s.m
  BY <1>5, <1>2
<1>7. IsRenderer(q)
  BY <1>1, <1>4 DEF IsSystem, IsRenderer
<1> QED BY <1>1, <1>4, <1>6, <1>7, <1>2 DEF IsSystem

(* What waiting for the upload leaves.                                     *)
SettledWith(s, t) ==
  /\ IsSystem(t) /\ Rests(t.d, t.r, t.m) /\ t.r.materials.pending = {} /\ t.m = s.m
  /\ SameOf(DeviceKinds, s.d.held, t.d.held)

(* Before a recreation the device is idle and nothing is pending.          *)
LEMMA SettledOwns ==
  ASSUME NEW s, Stands(s), NEW t \in Settled(s)
  PROVE  SettledWith(s, t)
<1>0. /\ IsSystem(s) /\ Clean(s.d) /\ Owned(s.d, s.r, s.m) /\ PlainlyChain(s.d.held) /\ PlainlyPipelines(s.d.held)
  BY DEF Stands
<1>1. PICK o \in FinishPending(s.r.materials, s.d) : o.ok /\ t = [s EXCEPT !.d = IgnoredWait(o.d), !.r.materials = o.m]
  BY DEF Settled
<1>2. PICK m, d, others : m = s.r.materials /\ d = s.d /\ others = Others(s.m)
  OBVIOUS
<1>3. MatOwns(m, d, others) /\ o \in FinishPending(m, d) /\ Clean(d)
  BY <1>0, <1>1, <1>2 DEF Owned
<1>4. Retired(m, d, others, o)
  BY <1>3, FinishPendingOwns
<1>5. PICK n, c, e : n = o.m /\ c = o.d /\ e = Idle(c)
  OBVIOUS
<1>6. MatOwns(n, c, others) /\ n.pending = {} /\ Kinder(d, c) /\ Clean(c) /\ OnlyCounts(m, n)
  BY <1>4, <1>5, <1>1, StepClean DEF Retired, MatStep
<1>7. Clean(e) /\ e.held = c.held /\ Busy(e) = {} /\ e.work = [w \in Works |-> {}] /\ e.refusals = c.refusals
  BY <1>6, <1>5, IdleIsClean
<1>8. IsMaterials(n) /\ n.ready = m.ready
  BY <1>6 DEF OnlyCounts
<1>9. SettledAs(s, e, n, t)
  BY <1>1, <1>5 DEF SettledAs, IgnoredWait
<1>10. /\ IsSystem(t) /\ t.d = e /\ t.m = s.m /\ t.r.shadows = s.r.shadows /\ t.r.ui = s.r.ui
       /\ t.r.materials = n
  BY <1>0, <1>8, <1>9, SettledFields
<1>11. OneTime \in Works
  BY DriverAssumption DEF OneTime, Works
<1>12. MatOwns(n, e, others)
  <2>1. SameOf(PrepareKinds, c.held, e.held)
    BY <1>7 DEF SameOf
  <2>2. e.work[OneTime] \subseteq c.work[OneTime]
    BY <1>7, <1>11
  <2> QED BY <1>6, <2>1, <2>2, MatSame
<1>13. \A x : x[1] \notin PixelKinds => (x \in e.held <=> x \in d.held)
  BY <1>6, <1>7 DEF Kinder, Becomes
<1>14. PixelKinds \subseteq PrepareKinds
  BY DEF PrepareKinds
<1>15. Becomes(d, e, PixelKinds, {})
  BY <1>6, <1>7, <1>13 DEF Kinder, Becomes
<1>16. Owned(e, t.r, s.m)
  <2>1. Owned(d, s.r, s.m)
    BY <1>0, <1>2
  <2>2. PixelKinds \subseteq KnownKinds
    BY <1>14 DEF KnownKinds
  <2>3. PixelKinds \cap ShadowKinds = {} /\ PixelKinds \cap UiKinds = {} /\ PixelKinds \cap MeshKinds = {} /\ PixelKinds \cap AssetKinds = {}
    BY <1>14, KindsOfPartsDiffer
  <2>4. PICK none : none = {}
    OBVIOUS
  <2>5. Becomes(d, e, PixelKinds, none)
    BY <1>15, <2>4
  <2>6. MatOwns(t.r.materials, e, Others(s.m)) /\ t.r.materials.ready = s.r.materials.ready
    BY <1>12, <1>10, <1>2, <1>8
  <2>7. t.r.shadows = s.r.shadows /\ t.r.ui = s.r.ui
    BY <1>10
  <2>8. PICK q, r, k : q = t.r /\ r = s.r /\ k = s.m
    OBVIOUS
  <2>9. Owned(d, r, k) /\ q.shadows = r.shadows /\ q.ui = r.ui /\ MatOwns(q.materials, e, Others(k)) /\ q.materials.ready = r.materials.ready
    BY <2>1, <2>6, <2>7, <2>8
  <2>10. Owned(e, q, k)
    BY <2>9, <2>2, <2>3, <2>5, OwnedStays
  <2> QED BY <2>8, <2>10
<1>17. PlainlyChain(e.held) /\ PlainlyPipelines(e.held) /\ SameOf(DeviceKinds, d.held, e.held)
  BY <1>0, <1>2, <1>13, <1>14, KindsOfPartsDiffer DEF PlainlyChain, PlainlyPipelines, SameOf
<1>18. IsRenderer(t.r)
  BY <1>10 DEF IsSystem
<1> QED BY <1>2, <1>7, <1>8, <1>6, <1>10, <1>16, <1>17, <1>18 DEF SettledWith, Rests

(* What clearing the swapchain leaves.                                     *)
ClearedWith(s, t) ==
  /\ IsSystem(t) /\ Bare(t.d, t.r, t.m) /\ t.r.materials.pending = {} /\ t.m = s.m
  /\ SameOf(DeviceKinds, s.d.held, t.d.held)

(* Before a recreation the swapchain and what depends on it are gone.      *)
LEMMA ClearedOwns ==
  ASSUME NEW s, Stands(s), NEW t \in Cleared(s)
  PROVE  ClearedWith(s, t)
<1>1. PICK u \in Settled(s) :
        t = [d |-> DestroySwapchain(u.r, u.d).d, r |-> DestroySwapchain(u.r, u.d).r, m |-> u.m]
  BY DEF Cleared
<1>2. SettledWith(s, u)
  BY <1>1, SettledOwns
<1>3. PICK d, r, m : d = u.d /\ r = u.r /\ m = u.m
  OBVIOUS
<1>4. PICK e, q : e = DestroySwapchain(r, d).d /\ q = DestroySwapchain(r, d).r
  OBVIOUS
<1>5. Rests(d, r, m) /\ r.materials.pending = {} /\ m = s.m /\ SameOf(DeviceKinds, s.d.held, d.held)
      /\ IsMaterials(r.materials)
  BY <1>2, <1>3 DEF SettledWith, IsSystem
<1>6. DOMAIN t = {"d", "r", "m"} /\ t.d = e /\ t.r = q /\ t.m = m
  BY <1>1, <1>3, <1>4
<1>7. Device \in d.held
  <2>1. Device[1] \in DeviceKinds
    BY DEF Device, DeviceKinds
  <2> QED BY <1>5, <2>1 DEF SameOf, Stands
<1>8. Bare(e, q, m) /\ q.materials = r.materials /\ AboutSwapchain(d, e)
  BY <1>5, <1>7, <1>4, DestroySwapchainOwns
<1>9. IsSystem(t)
  BY <1>6, <1>8, <1>5 DEF IsSystem, Bare, Rests
<1>10. SameOf(DeviceKinds, s.d.held, e.held)
  BY <1>5, <1>8 DEF SameOf, AboutSwapchain
<1> QED BY <1>6, <1>8, <1>9, <1>5, <1>10 DEF ClearedWith

(* recreateSwapchain                                                       *)
RecreatedWith(s, o) ==
  /\ o.m = s.m /\ o.ready \in BOOLEAN /\ Rests(o.d, o.r, o.m)
  /\ SameOf(DeviceKinds, s.d.held, o.d.held)
  /\ IF o.ready THEN Dressed(o.d, o.r) ELSE Undressed(o.d, o.r)

(* recreateSwapchain leaves the renderer dressed with a swapchain, or      *)
(* undressed and off.                                                      *)
LEMMA RecreatedOwns ==
  ASSUME NEW s, Stands(s), Surface \in s.d.held, NEW o \in Recreated(s)
  PROVE  RecreatedWith(s, o)
<1>1. PICK t \in Cleared(s) : \E c \in CreateSwapchainResources(t.r, t.d) : o = [d |-> c.d, r |-> c.r, m |-> t.m, ready |-> c.ok]
  BY DEF Recreated
<1>2. PICK c \in CreateSwapchainResources(t.r, t.d) : o = [d |-> c.d, r |-> c.r, m |-> t.m, ready |-> c.ok]
  BY <1>1
<1>3. ClearedWith(s, t)
  BY <1>1, ClearedOwns
<1>4. PICK d, r, m : d = t.d /\ r = t.r /\ m = t.m
  OBVIOUS
<1>5. Bare(d, r, m) /\ m = s.m /\ SameOf(DeviceKinds, s.d.held, d.held) /\ c \in CreateSwapchainResources(r, d)
  BY <1>3, <1>4, <1>2 DEF ClearedWith
<1>6. {Device, Surface} \subseteq d.held
  <2>1. Device[1] \in DeviceKinds /\ Surface[1] \in DeviceKinds
    BY DEF Device, Surface, DeviceKinds
  <2> QED BY <1>5, <2>1 DEF SameOf, Stands
<1>7. Swapped(d, m, c.d, c.r, c.ok)
  BY <1>5, <1>6, CreateSwapchainOwns
<1>8. PICK e, q, ok : e = c.d /\ q = c.r /\ ok = c.ok
  OBVIOUS
<1>9. o.d = e /\ o.r = q /\ o.m = m /\ o.ready = ok /\ Swapped(d, m, e, q, ok)
  BY <1>2, <1>4, <1>7, <1>8
<1>10. SameOf(DeviceKinds, s.d.held, e.held)
  BY <1>5, <1>9 DEF SameOf, AboutSwapchain, Swapped
<1> QED BY <1>9, <1>10, <1>5 DEF RecreatedWith, Swapped

(* A buffer with its memory.                                               *)
LEMMA BufferOfMeshMakes ==
  ASSUME NEW held, NEW busy, NEW buffer, NEW memory,
         buffer # memory,
         {buffer, memory} \cap held = {}
  PROVE  Makes(CreateBuffer(buffer, memory), held, busy, {buffer, memory})
<1>1. PICK a, b, c :
        /\ a = Make(buffer, {})
        /\ b = Make(memory, {})
        /\ c = Call({buffer, memory})
  OBVIOUS
<1>2. /\ a.makes = {buffer}
      /\ b.makes = {memory}
      /\ c.makes = {}
  BY <1>1, CallsMake
<1>3. FitsIn(a, held, busy)
  <2>1. buffer \notin held
    BY <1>2
  <2> QED BY <1>1, <2>1, MakeFits
<1>4. FitsIn(b, held \cup (a.makes), busy)
  <2>1. memory \notin held \cup (a.makes)
    BY <1>2
  <2> QED BY <1>1, <2>1, MakeFits
<1>5. FitsIn(c, held \cup (a.makes \cup b.makes), busy)
  <2>1. {buffer, memory} \subseteq held \cup (a.makes \cup b.makes)
    BY <1>2
  <2> QED BY <1>1, <2>1, CallFits
<1>6. Makes(<<a, b, c>>, held, busy, a.makes \cup b.makes \cup c.makes)
  BY <1>3, <1>4, <1>5, MakesThree
<1>7. a.makes \cup b.makes \cup c.makes = {buffer, memory}
  BY <1>2
<1>8. <<a, b, c>> = CreateBuffer(buffer, memory)
  BY <1>1 DEF CreateBuffer
<1> QED BY <1>6, <1>7, <1>8

(* The host writes a buffer.                                               *)
LEMMA WriteOfMeshMakes ==
  ASSUME NEW held, NEW busy, NEW memory,
         memory \in held,
         memory \notin busy
  PROVE  Makes(WriteBuffer(memory), held, busy, {})
<1>1. PICK a :
        /\ a = Fill(memory)
  OBVIOUS
<1>2. /\ a.makes = {}
  BY <1>1, CallsMake
<1>3. FitsIn(a, held, busy)
  <2>1. /\ memory \in held
        /\ memory \notin busy
    BY <1>2
  <2> QED BY <1>1, <2>1, FillFits
<1>4. Makes(<<a>>, held, busy, a.makes)
  BY <1>3, MakesOne
<1>5. a.makes = {}
  BY <1>2
<1>6. <<a>> = WriteBuffer(memory)
  BY <1>1 DEF WriteBuffer
<1> QED BY <1>4, <1>5, <1>6

(* The copy from the staging buffer.                                       *)
LEMMA CopyMakes ==
  ASSUME NEW held, NEW busy,
         SingleTime \notin held,
         CommandPool \in held
  PROVE  Makes(CopyCalls, held, busy, {SingleTime})
<1>1. PICK a, b, c, e :
        /\ a = Make(SingleTime, {CommandPool})
        /\ b = Call({SingleTime})
        /\ c = Call({SingleTime})
        /\ e = Call({})
  OBVIOUS
<1>2. /\ a.makes = {SingleTime}
      /\ b.makes = {}
      /\ c.makes = {}
      /\ e.makes = {}
  BY <1>1, CallsMake
<1>3. FitsIn(a, held, busy)
  <2>1. /\ SingleTime \notin held
        /\ {CommandPool} \subseteq held
    BY <1>2
  <2> QED BY <1>1, <2>1, MakeFits
<1>4. FitsIn(b, held \cup (a.makes), busy)
  <2>1. {SingleTime} \subseteq held \cup (a.makes)
    BY <1>2
  <2> QED BY <1>1, <2>1, CallFits
<1>5. FitsIn(c, held \cup (a.makes \cup b.makes), busy)
  <2>1. {SingleTime} \subseteq held \cup (a.makes \cup b.makes)
    BY <1>2
  <2> QED BY <1>1, <2>1, CallFits
<1>6. FitsIn(e, held \cup (a.makes \cup b.makes \cup c.makes), busy)
  BY <1>1, CallFits
<1>7. Makes(<<a, b, c, e>>, held, busy, a.makes \cup b.makes \cup c.makes \cup e.makes)
  BY <1>3, <1>4, <1>5, <1>6, MakesFour
<1>8. a.makes \cup b.makes \cup c.makes \cup e.makes = {SingleTime}
  BY <1>2
<1>9. <<a, b, c, e>> = CopyCalls
  BY <1>1 DEF CopyCalls
<1> QED BY <1>7, <1>8, <1>9

(* A buffer the host writes.                                               *)
LEMMA WrittenBufferMakes ==
  ASSUME NEW held, NEW busy, NEW buffer, NEW memory,
         buffer # memory,
         {buffer, memory} \cap held = {},
         memory \notin busy
  PROVE  Makes(CreateBuffer(buffer, memory) \o WriteBuffer(memory), held, busy, {buffer, memory})
<1>1. PICK a, b, c, e :
        /\ a = Make(buffer, {})
        /\ b = Make(memory, {})
        /\ c = Call({buffer, memory})
        /\ e = Fill(memory)
  OBVIOUS
<1>2. /\ a.makes = {buffer}
      /\ b.makes = {memory}
      /\ c.makes = {}
      /\ e.makes = {}
  BY <1>1, CallsMake
<1>3. FitsIn(a, held, busy)
  <2>1. buffer \notin held
    BY <1>2
  <2> QED BY <1>1, <2>1, MakeFits
<1>4. FitsIn(b, held \cup (a.makes), busy)
  <2>1. memory \notin held \cup (a.makes)
    BY <1>2
  <2> QED BY <1>1, <2>1, MakeFits
<1>5. FitsIn(c, held \cup (a.makes \cup b.makes), busy)
  <2>1. {buffer, memory} \subseteq held \cup (a.makes \cup b.makes)
    BY <1>2
  <2> QED BY <1>1, <2>1, CallFits
<1>6. FitsIn(e, held \cup (a.makes \cup b.makes \cup c.makes), busy)
  <2>1. /\ memory \in held \cup (a.makes \cup b.makes \cup c.makes)
        /\ memory \notin busy
    BY <1>2
  <2> QED BY <1>1, <2>1, FillFits
<1>7. Makes(<<a, b, c, e>>, held, busy, a.makes \cup b.makes \cup c.makes \cup e.makes)
  BY <1>3, <1>4, <1>5, <1>6, MakesFour
<1>8. a.makes \cup b.makes \cup c.makes \cup e.makes = {buffer, memory}
  BY <1>2
<1>9. <<a, b, c, e>> = CreateBuffer(buffer, memory) \o WriteBuffer(memory)
  BY <1>1 DEF CreateBuffer, WriteBuffer
<1> QED BY <1>7, <1>8, <1>9

(* The buffers of a mesh.                                                  *)
LEMMA MeshPartsAre ==
  ASSUME NEW part
  PROVE  /\ BuffersOf({part}) = {MeshBuffer(part), MeshMemory(part)}
         /\ \A x \in BuffersOf({part}) : x[1] \in {"mesh buffer", "mesh memory"} /\ x[1] \in MeshKinds /\ x[2] = part
         /\ MeshBuffer(part) # MeshMemory(part)
<1>1. BuffersOf({part}) = {MeshBuffer(part), MeshMemory(part)}
  BY DEF BuffersOf
<1>2. MeshBuffer(part)[1] = "mesh buffer" /\ MeshMemory(part)[1] = "mesh memory" /\ MeshBuffer(part)[2] = part /\ MeshMemory(part)[2] = part
  BY DEF MeshBuffer, MeshMemory
<1>3. "mesh buffer" \in MeshKinds /\ "mesh memory" \in MeshKinds
  BY DEF MeshKinds
<1>4. MeshBuffer(part) # MeshMemory(part)
  BY <1>2
<1> QED BY <1>1, <1>2, <1>3, <1>4

MeshStaging == {SingleTime} \cup StagingOfMesh

(* The staging objects of a mesh buffer.                                   *)
LEMMA MeshStagingIs ==
  /\ MeshStaging = {SingleTime, StagingBuffer, StagingMemoryOfMesh}
  /\ SingleTime # StagingBuffer /\ SingleTime # StagingMemoryOfMesh /\ StagingBuffer # StagingMemoryOfMesh
  /\ \A x \in MeshStaging : x[1] \in MeshKinds /\ x[1] \notin {"mesh buffer", "mesh memory"}
  /\ CommandPool \notin MeshStaging /\ CommandPool[1] \notin MeshKinds
<1>1. MeshStaging = {SingleTime, StagingBuffer, StagingMemoryOfMesh}
  BY DEF MeshStaging, StagingOfMesh
<1>2. SingleTime[1] = "single time command" /\ StagingBuffer[1] = "mesh staging" /\ StagingMemoryOfMesh[1] = "mesh staging memory"
  BY DEF SingleTime, StagingBuffer, StagingMemoryOfMesh
<1>3. CommandPool[1] = "command pool"
  BY DEF CommandPool
<1>4. {"single time command", "mesh staging", "mesh staging memory"} \subseteq MeshKinds /\ "command pool" \notin MeshKinds
  BY DEF MeshKinds
<1>5. \A x \in MeshStaging : x[1] \in MeshKinds /\ x[1] \notin {"mesh buffer", "mesh memory"}
  BY <1>1, <1>2, <1>4
<1>6. SingleTime # StagingBuffer /\ SingleTime # StagingMemoryOfMesh /\ StagingBuffer # StagingMemoryOfMesh
  BY <1>2
<1>7. CommandPool \notin MeshStaging /\ CommandPool[1] \notin MeshKinds
  BY <1>3, <1>4, <1>5
<1> QED BY <1>1, <1>5, <1>6, <1>7

(* uploadDeviceLocalBuffer up to the submission.                           *)
LEMMA UploadCallsAdd ==
  ASSUME NEW d, Clean(d), NEW part, CommandPool \in d.held,
         (MeshStaging \cup BuffersOf({part})) \cap d.held = {},
         NEW o \in TryEach(d, UploadCalls(part))
  PROVE  Adds(d, o, MeshStaging \cup BuffersOf({part}))
<1>1. PICK lists, sets :
        /\ lists = UploadCalls(part)
        /\ sets = <<{StagingBuffer, StagingMemoryOfMesh}, {}, {MeshBuffer(part), MeshMemory(part)}, {SingleTime}>>
  OBVIOUS
<1>2. Len(lists) = 4
  BY <1>1 DEF UploadCalls
<1>3. /\ lists[1] = CreateBuffer(StagingBuffer, StagingMemoryOfMesh) /\ lists[2] = WriteBuffer(StagingMemoryOfMesh)
      /\ lists[3] = CreateBuffer(MeshBuffer(part), MeshMemory(part)) /\ lists[4] = CopyCalls
  BY <1>1 DEF UploadCalls
<1>4. /\ sets[1] = {StagingBuffer, StagingMemoryOfMesh} /\ sets[2] = {} /\ sets[3] = {MeshBuffer(part), MeshMemory(part)}
      /\ sets[4] = {SingleTime}
  BY <1>1
<1>5. /\ Upto(sets, 0) = {} /\ Upto(sets, 1) = sets[1] /\ Upto(sets, 2) = sets[1] \cup sets[2]
      /\ Upto(sets, 3) = sets[1] \cup sets[2] \cup sets[3] /\ Upto(sets, 4) = sets[1] \cup sets[2] \cup sets[3] \cup sets[4]
  <2>1. 1 .. 0 = {} /\ 1 .. 1 = {1} /\ 1 .. 2 = {1, 2} /\ 1 .. 3 = {1, 2, 3} /\ 1 .. 4 = {1, 2, 3, 4}
    OBVIOUS
  <2> QED BY <2>1 DEF Upto
<1>6. PICK buffer, memory : buffer = MeshBuffer(part) /\ memory = MeshMemory(part)
  OBVIOUS
<1>7. /\ BuffersOf({part}) = {buffer, memory} /\ buffer # memory
      /\ buffer \notin MeshStaging /\ memory \notin MeshStaging
  <2>1. buffer \in BuffersOf({part}) /\ memory \in BuffersOf({part})
    BY <1>6, MeshPartsAre
  <2> QED BY <1>6, <2>1, MeshPartsAre, MeshStagingIs
<1>8. Makes(lists[1], d.held \cup Upto(sets, 0), Busy(d), sets[1])
  <2>1. PICK held : held = d.held \cup Upto(sets, 0)
    OBVIOUS
  <2>2. {StagingBuffer, StagingMemoryOfMesh} \cap held = {}
    BY <1>5, <2>1, MeshStagingIs
  <2>3. StagingBuffer # StagingMemoryOfMesh
    BY MeshStagingIs
  <2>4. Makes(CreateBuffer(StagingBuffer, StagingMemoryOfMesh), held, Busy(d), {StagingBuffer, StagingMemoryOfMesh})
    BY <2>2, <2>3, BufferOfMeshMakes
  <2> QED BY <1>3, <1>4, <2>1, <2>4
<1>9. Makes(lists[2], d.held \cup Upto(sets, 1), Busy(d), sets[2])
  <2>1. PICK held : held = d.held \cup Upto(sets, 1)
    OBVIOUS
  <2>2. StagingMemoryOfMesh \in held /\ StagingMemoryOfMesh \notin Busy(d)
    <3>1. StagingMemoryOfMesh \notin d.held
      BY MeshStagingIs
    <3>2. Busy(d) \subseteq d.held
      BY CleanShape
    <3> QED BY <1>4, <1>5, <2>1, <3>1, <3>2
  <2>3. Makes(WriteBuffer(StagingMemoryOfMesh), held, Busy(d), {})
    BY <2>2, WriteOfMeshMakes
  <2> QED BY <1>3, <1>4, <2>1, <2>3
<1>10. Makes(lists[3], d.held \cup Upto(sets, 2), Busy(d), sets[3])
  <2>1. PICK held : held = d.held \cup Upto(sets, 2)
    OBVIOUS
  <2>2. {buffer, memory} \cap held = {}
    BY <1>4, <1>5, <1>7, <2>1, MeshStagingIs
  <2> QED BY <1>3, <1>4, <1>6, <1>7, <2>1, <2>2, BufferOfMeshMakes
<1>11. Makes(lists[4], d.held \cup Upto(sets, 3), Busy(d), sets[4])
  <2>1. PICK held : held = d.held \cup Upto(sets, 3)
    OBVIOUS
  <2>2. SingleTime \notin held /\ CommandPool \in held
    BY <1>4, <1>5, <1>6, <1>7, <2>1, MeshStagingIs
  <2> QED BY <1>3, <1>4, <2>1, <2>2, CopyMakes
<1>12. \A i \in 1 .. 4 : Makes(lists[i], d.held \cup Upto(sets, i - 1), Busy(d), sets[i])
  <2>1. SUFFICES ASSUME NEW i \in 1 .. 4 PROVE Makes(lists[i], d.held \cup Upto(sets, i - 1), Busy(d), sets[i])
    OBVIOUS
  <2>2. i = 1 \/ i = 2 \/ i = 3 \/ i = 4
    OBVIOUS
  <2>3. 1 - 1 = 0 /\ 2 - 1 = 1 /\ 3 - 1 = 2 /\ 4 - 1 = 3
    OBVIOUS
  <2>4. CASE i = 1
    BY <2>3, <2>4, <1>8
  <2>5. CASE i = 2
    BY <2>3, <2>5, <1>9
  <2>6. CASE i = 3
    BY <2>3, <2>6, <1>10
  <2>7. CASE i = 4
    BY <2>3, <2>7, <1>11
  <2> QED BY <2>2, <2>4, <2>5, <2>6, <2>7
<1>13. Adds(d, o, Upto(sets, 4))
  <2>1. o \in TryEach(d, lists)
    BY <1>1
  <2>2. PICK last \in Nat : last = 4
    OBVIOUS
  <2>3. last = Len(lists) /\ \A i \in 1 .. last : Makes(lists[i], d.held \cup Upto(sets, i - 1), Busy(d), sets[i])
    BY <2>2, <1>2, <1>12
  <2>4. Adds(d, o, Upto(sets, last))
    BY <2>1, <2>3, TryEachMakes
  <2> QED BY <2>2, <2>4
<1>14. Upto(sets, 4) = MeshStaging \cup BuffersOf({part})
  BY <1>4, <1>5, <1>6, <1>7, MeshStagingIs
<1> QED BY <1>13, <1>14

(* All of these buffers were made, or none.                                *)
MeshMade(d, o, objects) ==
  /\ Becomes(d, o.d, MeshKinds, Works) /\ o.ok \in BOOLEAN /\ o = [d |-> o.d, ok |-> o.ok]
  /\ o.ok => o.d.held = d.held \cup objects
  /\ ~ o.ok => o.d.held = d.held
(* All of these buffers were made, or some.                                *)
MeshBegun(d, o, objects) ==
  /\ Becomes(d, o.d, MeshKinds, Works) /\ o.ok \in BOOLEAN /\ o = [d |-> o.d, ok |-> o.ok]
  /\ o.ok => o.d.held = d.held \cup objects
  /\ d.held \subseteq o.d.held /\ o.d.held \subseteq d.held \cup objects

(* copyBuffer                                                              *)
LEMMA CopyBufferOwns ==
  ASSUME NEW d, Clean(d), NEW objects, {SingleTime} \cup objects \subseteq d.held, NEW o \in CopyBuffer(d, objects)
  PROVE  /\ o = [d |-> o.d, ok |-> TRUE] /\ Clean(o.d) /\ o.d.held = d.held /\ o.d.refusals = d.refusals
         /\ Busy(o.d) = {} /\ o.d.work = [w \in Works |-> {}]
<1>1. PICK all : all = {SingleTime} \cup objects
  OBVIOUS
<1>2. PICK e : e = Submit(d, OneTime, all)
  OBVIOUS
<1>3. OneTime \in Works
  BY DriverAssumption DEF OneTime, Works
<1>4. Clean(e) /\ e.held = d.held /\ e.refusals = d.refusals
  BY <1>1, <1>2, <1>3, SubmitIsClean
<1>5. PICK f : f = Idle(e)
  OBVIOUS
<1>6. Clean(f) /\ f.held = e.held /\ f.refusals = e.refusals /\ Busy(f) = {} /\ f.work = [w \in Works |-> {}]
  BY <1>4, <1>5, IdleIsClean
<1>7. o = [d |-> f, ok |-> TRUE]
  BY <1>1, <1>2, <1>5 DEF CopyBuffer, Returns, IgnoredWait
<1> QED BY <1>4, <1>6, <1>7

(* uploadDeviceLocalBuffer leaves the buffer or nothing of it.             *)
LEMMA UploadBufferOwns ==
  ASSUME NEW d, Clean(d), NEW part, CommandPool \in d.held,
         (MeshStaging \cup BuffersOf({part})) \cap d.held = {},
         NEW o \in UploadDeviceLocalBuffer(d, part)
  PROVE  MeshMade(d, o, BuffersOf({part}))
<1>1. PICK staging, buffers : staging = MeshStaging /\ buffers = BuffersOf({part})
  OBVIOUS
<1>2. staging = {SingleTime} \cup StagingOfMesh
  BY <1>1 DEF MeshStaging
<1>3. PICK outcomes : outcomes = AndThen(TryEach(d, UploadCalls(part)), LAMBDA e : CopyBuffer(e, StagingOfMesh \cup BuffersOf({part})))
  OBVIOUS
<1>4. o \in OnFailure(Finally(outcomes, staging), buffers)
  BY <1>1, <1>2, <1>3 DEF UploadDeviceLocalBuffer
<1>5. PICK p \in Finally(outcomes, staging) : o = IF p.ok THEN p ELSE [p EXCEPT !.d = Destroy(@, buffers)]
  BY <1>4 DEF OnFailure
<1>6. PICK q \in outcomes : p = [q EXCEPT !.d = Destroy(@, staging)]
  BY <1>5 DEF Finally
<1>7. PICK c \in TryEach(d, UploadCalls(part)) : q \in IF c.ok THEN CopyBuffer(c.d, StagingOfMesh \cup BuffersOf({part})) ELSE {c}
  BY <1>3, <1>6 DEF AndThen
<1>8. Adds(d, c, staging \cup buffers)
  BY <1>1, UploadCallsAdd
<1>9. Busy(d) \subseteq d.held /\ d.refusals \in Nat
  BY CleanShape
<1>10. (staging \cup buffers) \cap d.held = {}
  BY <1>1
<1>11. /\ q = [d |-> q.d, ok |-> q.ok] /\ q.ok \in BOOLEAN /\ Clean(q.d) /\ q.ok = c.ok /\ q.d.held = c.d.held
       /\ Busy(q.d) \cap (staging \cup buffers) = {} /\ (\A w \in Works : q.d.work[w] \subseteq d.work[w])
       /\ q.d.refusals >= d.refusals
  <2>1. CASE c.ok
    <3>1. PICK objects : objects = StagingOfMesh \cup BuffersOf({part})
      OBVIOUS
    <3>2. PICK f : f = c.d
      OBVIOUS
    <3>3. Clean(f) /\ f.held = d.held \cup (staging \cup buffers) /\ f.refusals = d.refusals
      BY <1>8, <2>1, <3>2 DEF Adds
    <3>4. {SingleTime} \cup objects \subseteq f.held
      BY <3>3, <3>1, <1>1, <1>2
    <3>5. q \in CopyBuffer(f, objects)
      BY <1>7, <2>1, <3>1, <3>2
    <3>6. /\ q = [d |-> q.d, ok |-> TRUE] /\ Clean(q.d) /\ q.d.held = f.held /\ q.d.refusals = f.refusals
          /\ Busy(q.d) = {} /\ q.d.work = [w \in Works |-> {}]
      BY <3>3, <3>4, <3>5, CopyBufferOwns
    <3>7. \A w \in Works : q.d.work[w] = {}
      BY <3>6
    <3>8. q.ok = TRUE /\ c.ok = TRUE
      BY <3>6, <2>1, <1>8 DEF Adds
    <3>9. q.d.refusals >= d.refusals
      BY <3>6, <3>3, <1>9
    <3> QED BY <3>2, <3>6, <3>7, <3>8, <3>9
  <2>2. CASE ~ c.ok
    <3>1. q = c
      BY <1>7, <2>2
    <3>2. Clean(c.d) /\ c.d.work = d.work /\ c.d.refusals >= d.refusals /\ c = [d |-> c.d, ok |-> c.ok] /\ c.ok \in BOOLEAN
      BY <1>8, <2>2, <1>9 DEF Adds
    <3>3. Busy(c.d) = Busy(d)
      BY <3>2, WorkIsBusy
    <3> QED BY <3>1, <3>2, <3>3, <1>9, <1>10
  <2> QED BY <2>1, <2>2
<1>12. PICK e : e = q.d
  OBVIOUS
<1>13. PICK f : f = Destroy(e, staging)
  OBVIOUS
<1>14. Clean(f) /\ f.held = e.held \ staging /\ f.work = e.work /\ f.refusals = e.refusals
  <2>1. staging \cap Busy(e) = {} /\ Clean(e)
    BY <1>11, <1>12
  <2> QED BY <2>1, <1>13, DestroyIsClean
<1>15. p = [d |-> f, ok |-> q.ok]
  BY <1>6, <1>11, <1>12, <1>13
<1>16. \A x \in staging \cup buffers : x[1] \in MeshKinds
  BY <1>1, MeshPartsAre, MeshStagingIs
<1>17. CASE q.ok
  <2>1. o = p /\ o.d = f /\ o.ok = TRUE
    BY <1>5, <1>15, <1>17, <1>11
  <2>2. e.held = d.held \cup (staging \cup buffers)
    BY <1>11, <1>12, <1>8, <1>17 DEF Adds
  <2>3. buffers \cap staging = {}
    BY <1>1, MeshPartsAre, MeshStagingIs
  <2>4. f.held = d.held \cup buffers
    BY <1>14, <2>2, <2>3, <1>10
  <2>5. Becomes(d, f, MeshKinds, Works)
    BY <1>14, <1>12, <1>11, <2>4, <1>16 DEF Becomes
  <2>6. o = [d |-> o.d, ok |-> o.ok]
    BY <2>1, <1>15
  <2> QED BY <2>1, <2>4, <2>5, <2>6, <1>1 DEF MeshMade
<1>18. CASE ~ q.ok
  <2>1. PICK g : g = Destroy(f, buffers)
    OBVIOUS
  <2>2. o = [d |-> g, ok |-> FALSE]
    BY <1>5, <1>15, <1>18, <1>11, <2>1
  <2>3. Clean(g) /\ g.held = f.held \ buffers /\ g.work = f.work /\ g.refusals = f.refusals
    <3>1. Busy(f) = Busy(e)
      BY <1>14, WorkIsBusy
    <3>2. buffers \cap Busy(f) = {}
      BY <3>1, <1>11, <1>12
    <3> QED BY <3>2, <1>14, <2>1, DestroyIsClean
  <2>4. d.held \subseteq e.held /\ e.held \subseteq d.held \cup (staging \cup buffers)
    BY <1>11, <1>12, <1>8 DEF Adds
  <2>5. g.held = d.held
    BY <2>3, <1>14, <2>4, <1>10
  <2>6. Becomes(d, g, MeshKinds, Works)
    BY <2>3, <1>14, <1>12, <1>11, <2>5 DEF Becomes
  <2> QED BY <2>2, <2>5, <2>6 DEF MeshMade
<1> QED BY <1>17, <1>18, <1>11

-----------------------------------------------------------------------------
(* The buffers of parts of a mesh by kind.                                 *)
LEMMA BuffersAre ==
  ASSUME NEW parts, NEW x \in BuffersOf(parts)
  PROVE  x[1] \in MeshKinds /\ x[1] \in {"mesh buffer", "mesh memory"} /\ x[2] \in parts
<1>1. PICK p \in parts : x = MeshBuffer(p) \/ x = MeshMemory(p)
  BY DEF BuffersOf
<1>2. x \in BuffersOf({p})
  BY <1>1, MeshPartsAre
<1> QED BY <1>1, <1>2, MeshPartsAre

(* The vertices of every slot, written by the host.                        *)
LEMMA DynamicVerticesAdd ==
  ASSUME NEW d, Clean(d), NEW mesh \in Dynamic, VertexObjects(mesh) \cap d.held = {},
         NEW lists, lists = [n \in 1 .. FramesInFlight |-> DynamicVertices(mesh, n - 1)], NEW o \in TryEach(d, lists)
  PROVE  Adds(d, o, VertexObjects(mesh))
<1>1. PICK sets : sets = [n \in 1 .. FramesInFlight |-> BuffersOf({Vertices(mesh, n - 1)})]
  OBVIOUS
<1>2. PICK last \in Nat : last = FramesInFlight
  BY DriverAssumption
<1>3. last = Len(lists)
  <2>1. lists = [n \in 1 .. last |-> lists[n]]
    BY <1>2
  <2> QED BY <2>1, RowIs
<1>4. VertexObjects(mesh) = BuffersOf({Vertices(mesh, slot) : slot \in FrameSlots})
  BY DEF VertexObjects, VertexSlots
<1>5. ASSUME NEW i \in 1 .. last
      PROVE  Makes(lists[i], d.held \cup Upto(sets, i - 1), Busy(d), sets[i])
  <2>1. i - 1 \in FrameSlots /\ lists[i] = DynamicVertices(mesh, i - 1) /\ sets[i] = BuffersOf({Vertices(mesh, i - 1)})
    BY <1>1, <1>2 DEF FrameSlots
  <2>2. PICK held, slot, part : held = d.held \cup Upto(sets, i - 1) /\ slot = i - 1 /\ part = Vertices(mesh, slot)
    OBVIOUS
  <2>3. \A x \in Upto(sets, i - 1) : x[2] # part
    <3>1. ASSUME NEW j \in 1 .. i - 1, NEW x \in sets[j]
          PROVE  x[2] # part
      <4>1. sets[j] = BuffersOf({Vertices(mesh, j - 1)})
        BY <1>1, <1>2
      <4>2. x[2] = Vertices(mesh, j - 1)
        BY <4>1, MeshPartsAre
      <4>3. Vertices(mesh, j - 1)[3] = j - 1 /\ part[3] = i - 1
        BY <2>2 DEF Vertices
      <4>4. j - 1 # i - 1
        OBVIOUS
      <4> QED BY <4>2, <4>3, <4>4
    <3> QED BY <3>1 DEF Upto
  <2>4. PICK buffer, memory : buffer = MeshBuffer(part) /\ memory = MeshMemory(part)
    OBVIOUS
  <2>5. BuffersOf({part}) = {buffer, memory} /\ buffer # memory /\ buffer[2] = part /\ memory[2] = part
    BY <2>4, MeshPartsAre
  <2>6. {buffer, memory} \subseteq VertexObjects(mesh)
    BY <1>4, <2>1, <2>2, <2>4 DEF BuffersOf
  <2>7. {buffer, memory} \cap held = {}
    BY <2>2, <2>3, <2>5, <2>6
  <2>8. memory \notin Busy(d)
    BY <2>6, CleanShape
  <2>9. Makes(CreateBuffer(buffer, memory) \o WriteBuffer(memory), held, Busy(d), {buffer, memory})
    BY <2>5, <2>7, <2>8, WrittenBufferMakes
  <2>10. lists[i] = CreateBuffer(buffer, memory) \o WriteBuffer(memory) /\ sets[i] = {buffer, memory}
    BY <2>1, <2>2, <2>4, <2>5 DEF DynamicVertices
  <2> QED BY <2>2, <2>9, <2>10
<1>6. Adds(d, o, Upto(sets, last))
  BY <1>3, <1>5, TryEachMakes
<1>7. Upto(sets, last) = VertexObjects(mesh)
  <2>1. ASSUME NEW x \in Upto(sets, last) PROVE x \in VertexObjects(mesh)
    <3>1. PICK j \in 1 .. last : x \in sets[j]
      BY DEF Upto
    <3>2. x \in BuffersOf({Vertices(mesh, j - 1)}) /\ j - 1 \in FrameSlots
      BY <3>1, <1>1, <1>2 DEF FrameSlots
    <3> QED BY <3>2, <1>4 DEF BuffersOf
  <2>2. ASSUME NEW x \in VertexObjects(mesh) PROVE x \in Upto(sets, last)
    <3>1. PICK slot \in FrameSlots : x = MeshBuffer(Vertices(mesh, slot)) \/ x = MeshMemory(Vertices(mesh, slot))
      BY <1>4 DEF BuffersOf
    <3>2. PICK j \in 1 .. last : slot = j - 1
      <4>1. slot \in 0 .. last - 1
        BY <1>2 DEF FrameSlots
      <4>2. slot + 1 \in 1 .. last /\ slot = (slot + 1) - 1
        BY <4>1
      <4> QED BY <4>2
    <3>3. x \in BuffersOf({Vertices(mesh, j - 1)})
      BY <3>1, <3>2 DEF BuffersOf
    <3>4. x \in sets[j]
      BY <3>3, <1>1, <1>2
    <3> QED BY <3>4 DEF Upto
  <2> QED BY <2>1, <2>2
<1> QED BY <1>6, <1>7

(* Index and vertex buffers of a mesh differ.                              *)
LEMMA MeshPartsDiffer ==
  ASSUME NEW mesh
  PROVE  /\ BuffersOf({Indices(mesh)}) \cap VertexObjects(mesh) = {}
         /\ \A x \in VertexObjects(mesh) : x[1] \in MeshKinds /\ x[1] \in {"mesh buffer", "mesh memory"}
<1>1. ASSUME NEW x \in VertexObjects(mesh)
      PROVE  x[1] \in MeshKinds /\ x[1] \in {"mesh buffer", "mesh memory"} /\ \E slot : x[2] = Vertices(mesh, slot)
  <2>1. PICK parts : parts = {Vertices(mesh, slot) : slot \in VertexSlots(mesh)}
    OBVIOUS
  <2>2. x \in BuffersOf(parts)
    BY <2>1 DEF VertexObjects
  <2>3. x[1] \in MeshKinds /\ x[1] \in {"mesh buffer", "mesh memory"} /\ x[2] \in parts
    BY <2>2, BuffersAre
  <2> QED BY <2>1, <2>3
<1>2. \A slot : Vertices(mesh, slot) # Indices(mesh)
  BY DEF Vertices, Indices
<1>3. \A x \in BuffersOf({Indices(mesh)}) : x[2] = Indices(mesh)
  BY MeshPartsAre
<1> QED BY <1>1, <1>2, <1>3

(* The vertices of a mesh are made, or some of their buffers.              *)
LEMMA UploadVerticesOwns ==
  ASSUME NEW d, Clean(d), NEW mesh, CommandPool \in d.held,
         (MeshStaging \cup VertexObjects(mesh)) \cap d.held = {}, NEW o \in UploadVertices(d, mesh)
  PROVE  MeshBegun(d, o, VertexObjects(mesh))
<1>1. CASE mesh \in Dynamic
  <2>1. PICK lists : lists = [n \in 1 .. FramesInFlight |-> DynamicVertices(mesh, n - 1)]
    OBVIOUS
  <2>2. o \in TryEach(d, lists)
    BY <1>1, <2>1 DEF UploadVertices
  <2>3. Adds(d, o, VertexObjects(mesh))
    BY <1>1, <2>1, <2>2, DynamicVerticesAdd
  <2>4. \A x \in VertexObjects(mesh) : x[1] \in MeshKinds
    BY MeshPartsDiffer
  <2>5. Becomes(d, o.d, MeshKinds, Works)
    BY <2>3, <2>4, AddsBecomes
  <2> QED BY <2>3, <2>5 DEF MeshBegun, Adds
<1>2. CASE mesh \notin Dynamic
  <2>1. PICK part : part = Vertices(mesh, 0)
    OBVIOUS
  <2>2. VertexObjects(mesh) = BuffersOf({part})
    <3>1. VertexSlots(mesh) = {0}
      BY <1>2 DEF VertexSlots
    <3>2. {Vertices(mesh, slot) : slot \in VertexSlots(mesh)} = {part}
      BY <3>1, <2>1
    <3> QED BY <3>2 DEF VertexObjects
  <2>3. o \in UploadDeviceLocalBuffer(d, part)
    BY <1>2, <2>1 DEF UploadVertices
  <2>4. MeshMade(d, o, BuffersOf({part}))
    BY <2>2, <2>3, UploadBufferOwns
  <2> QED BY <2>2, <2>4 DEF MeshMade, MeshBegun
<1> QED BY <1>1, <1>2

(* uploadMeshPrimitive                                                     *)
LEMMA UploadPrimitiveOwns ==
  ASSUME NEW d, Clean(d), NEW mesh, CommandPool \in d.held,
         (MeshStaging \cup MeshObjects(mesh)) \cap d.held = {}, NEW o \in UploadMeshPrimitive(d, mesh)
  PROVE  MeshMade(d, o, MeshObjects(mesh))
<1>1. PICK outcomes : outcomes = AndThen(UploadVertices(d, mesh), LAMBDA e : UploadDeviceLocalBuffer(e, Indices(mesh)))
  OBVIOUS
<1>2. PICK p \in outcomes : o = IF p.ok THEN p ELSE [p EXCEPT !.d = Destroy(@, VertexObjects(mesh))]
  BY <1>1 DEF UploadMeshPrimitive, OnFailure
<1>3. PICK v \in UploadVertices(d, mesh) : p \in IF v.ok THEN UploadDeviceLocalBuffer(v.d, Indices(mesh)) ELSE {v}
  BY <1>1, <1>2 DEF AndThen
<1>4. PICK vertices, indices, all : vertices = VertexObjects(mesh) /\ indices = BuffersOf({Indices(mesh)}) /\ all = MeshObjects(mesh)
  OBVIOUS
<1>5. all = vertices \cup indices
  BY <1>4 DEF MeshObjects
<1>6. MeshBegun(d, v, vertices)
  <2>1. (MeshStaging \cup VertexObjects(mesh)) \cap d.held = {}
    BY <1>4, <1>5
  <2> QED BY <1>4, <2>1, UploadVerticesOwns
<1>7. PICK e : e = v.d
  OBVIOUS
<1>8. Clean(e) /\ Becomes(d, e, MeshKinds, Works)
  BY <1>6, <1>7 DEF MeshBegun, Becomes
<1>9. /\ Becomes(d, p.d, MeshKinds, Works) /\ p.ok \in BOOLEAN /\ d.held \subseteq p.d.held
      /\ p = [d |-> p.d, ok |-> p.ok]
      /\ p.ok => p.d.held = d.held \cup all
      /\ ~ p.ok => p.d.held \subseteq d.held \cup vertices
  <2>1. CASE v.ok
    <3>1. e.held = d.held \cup vertices
      BY <1>6, <1>7, <2>1 DEF MeshBegun
    <3>2. PICK part : part = Indices(mesh)
      OBVIOUS
    <3>3. (MeshStaging \cup BuffersOf({part})) \cap e.held = {} /\ CommandPool \in e.held
      <4>1. MeshStaging \cap vertices = {}
        BY <1>4, MeshPartsDiffer, MeshStagingIs
      <4>2. indices \cap vertices = {}
        BY <1>4, MeshPartsDiffer
      <4> QED BY <4>1, <4>2, <3>1, <3>2, <1>4, <1>5
    <3>4. p \in UploadDeviceLocalBuffer(e, part)
      BY <1>3, <2>1, <1>7, <3>2
    <3>5. MeshMade(e, p, indices)
      BY <1>8, <3>2, <3>3, <3>4, <1>4, UploadBufferOwns
    <3>6. PICK f : f = p.d
      OBVIOUS
    <3>7. Becomes(d, f, MeshKinds, Works)
      BY <1>8, <3>5, <3>6, BecomesThen DEF MeshMade
    <3> QED BY <3>1, <3>5, <3>6, <3>7, <1>5 DEF MeshMade
  <2>2. CASE ~ v.ok
    <3>1. p = v
      BY <1>3, <2>2
    <3> QED BY <3>1, <2>2, <1>6 DEF MeshBegun
  <2> QED BY <2>1, <2>2
<1>10. CASE p.ok
  BY <1>10, <1>2, <1>9, <1>4 DEF MeshMade
<1>11. CASE ~ p.ok
  <2>1. PICK f, g : f = p.d /\ g = Destroy(f, vertices)
    OBVIOUS
  <2>2. Clean(f) /\ Becomes(d, f, MeshKinds, Works) /\ d.held \subseteq f.held /\ f.held \subseteq d.held \cup vertices
    BY <2>1, <1>9, <1>11 DEF Becomes
  <2>3. vertices \cap Busy(f) = {}
    <3>1. Busy(f) \subseteq Busy(d)
      BY <2>2, BusyBecomes
    <3>2. Busy(d) \subseteq d.held
      BY CleanShape
    <3> QED BY <3>1, <3>2, <1>4, <1>5
  <2>4. \A x \in vertices : x[1] \in MeshKinds
    BY <1>4, MeshPartsDiffer
  <2>5. Becomes(f, g, MeshKinds, Works) /\ g.held = f.held \ vertices
    BY <2>1, <2>2, <2>3, <2>4, DestroyBecomes
  <2>6. Becomes(d, g, MeshKinds, Works)
    BY <2>2, <2>5, BecomesThen
  <2>7. g.held = d.held
    BY <2>2, <2>5, <1>4, <1>5
  <2>8. p = [d |-> p.d, ok |-> p.ok]
    BY <1>9
  <2>9. o.d = g /\ o.ok = p.ok /\ o = [d |-> o.d, ok |-> o.ok]
    BY <1>2, <1>11, <1>4, <2>1, <2>8
  <2> QED BY <2>6, <2>7, <2>9, <1>9, <1>11 DEF MeshMade
<1> QED BY <1>10, <1>11, <1>9

(* Work of frames in flight.                                               *)
Outlasts(m, n) ==
  \A mesh \in Meshes, turns \in Nat : InUse(m[mesh], turns) =>
    /\ InUse(n[mesh], turns) /\ (m[mesh].textured => n[mesh].textured)
    /\ m[mesh].images \subseteq n[mesh].images
WorksStay(d, u, m, current) ==
  \A slot \in FrameSlots : WorkIsKept(d.work[slot], slot, Distance(slot, current), u, m)

(* What work uses stays when its slot's textures stay and the meshes       *)
(* outlast it.                                                             *)
LEMMA WorkKeeps ==
  ASSUME NEW w, NEW slot, NEW turns \in Nat, NEW u, NEW m, WorkIsKept(w, slot, turns, u, m),
         NEW x, x \subseteq w, NEW v, v.retained[slot] = u.retained[slot], NEW n, Outlasts(m, n)
  PROVE  WorkIsKept(x, slot, turns, v, n)
<1>1. \A other \in FrameSlots \ {slot} : x \cap SlotMemory(other) = {}
  BY DEF WorkIsKept
<1>2. \A t \in Textures : x \cap TextureObjects(t) # {} => t \in v.retained[slot]
  BY DEF WorkIsKept
<1>3. \A mesh \in Meshes : x \cap MeshObjects(mesh) # {} => InUse(n[mesh], turns)
  BY DEF WorkIsKept, Outlasts
<1>4. \A mesh \in Meshes : x \cap AssetAll(mesh) # {} => InUse(n[mesh], turns) /\ n[mesh].textured
  BY DEF WorkIsKept, Outlasts
<1>5. ASSUME NEW c \in Contents, x \cap ImageObjects(c) # {}
      PROVE  \E mesh \in Meshes : c \in n[mesh].images /\ InUse(n[mesh], turns)
  <2>1. PICK mesh \in Meshes : c \in m[mesh].images /\ InUse(m[mesh], turns)
    BY <1>5 DEF WorkIsKept
  <2> QED BY <2>1 DEF Outlasts
<1> QED BY <1>1, <1>2, <1>3, <1>4, <1>5 DEF WorkIsKept

(* No work keeps nothing.                                                  *)
LEMMA NothingIsKept ==
  ASSUME NEW w, w = {}, NEW slot, NEW turns, NEW u, NEW m
  PROVE  WorkIsKept(w, slot, turns, u, m)
BY DEF WorkIsKept

(* The frames until a slot's turn are fewer than the slots.                *)
LEMMA DistanceIs ==
  ASSUME NEW slot \in FrameSlots, NEW current \in FrameSlots
  PROVE  Distance(slot, current) \in Nat /\ Distance(slot, current) < FramesInFlight
<1>1. FramesInFlight \in Nat /\ slot \in 0 .. FramesInFlight - 1 /\ current \in 0 .. FramesInFlight - 1
  BY DriverAssumption DEF FrameSlots
<1> QED BY <1>1 DEF Distance

(* The work of the other slots stays good during a frame.                  *)
LEMMA WorksKeep ==
  ASSUME NEW current \in FrameSlots, NEW d, NEW u, NEW m, WorksStay(d, u, m, current), d.work[current] = {},
         NEW e, \A slot \in FrameSlots : e.work[slot] \subseteq d.work[slot],
         NEW v, \A slot \in FrameSlots \ {current} : v.retained[slot] = u.retained[slot],
         NEW n, Outlasts(m, n)
  PROVE  WorksStay(e, v, n, current) /\ e.work[current] = {}
<1>1. e.work[current] = {}
  OBVIOUS
<1>2. ASSUME NEW slot \in FrameSlots
      PROVE  WorkIsKept(e.work[slot], slot, Distance(slot, current), v, n)
  <2>1. PICK w, x, turns : w = d.work[slot] /\ x = e.work[slot] /\ turns = Distance(slot, current)
    OBVIOUS
  <2>2. turns \in Nat
    BY <2>1, DistanceIs
  <2>3. CASE slot = current
    <3>1. x = {}
      BY <1>1, <2>1, <2>3
    <3>2. WorkIsKept(x, slot, turns, v, n)
      BY <3>1, NothingIsKept
    <3> QED BY <2>1, <3>2
  <2>4. CASE slot # current
    <3>1. WorkIsKept(w, slot, turns, u, m) /\ x \subseteq w /\ v.retained[slot] = u.retained[slot]
      BY <2>1, <2>4 DEF WorksStay
    <3>2. WorkIsKept(x, slot, turns, v, n)
      BY <2>2, <3>1, WorkKeeps
    <3> QED BY <2>1, <3>2
  <2> QED BY <2>3, <2>4
<1> QED BY <1>1, <1>2 DEF WorksStay

(* Meshes outlast themselves.                                              *)
LEMMA OutlastsItself ==
  ASSUME NEW m
  PROVE  Outlasts(m, m)
BY DEF Outlasts

-----------------------------------------------------------------------------
(* While a frame is prepared.                                              *)
InFrame(s) ==
  /\ FrameHolds(s) /\ Owned(s.d, s.r, s.m)
  /\ s.r.shadows.device /\ s.r.materials.device
  /\ s.d.work[currentFrame] = {} /\ WorksStay(s.d, s.r.ui, s.m, currentFrame)
FrameKinds == ShadowKinds \cup UiKinds \cup PrepareKinds \cup AssetKinds \cup MeshKinds \cup PipelineKinds

(* A frame touches neither swapchain nor device objects.                   *)
LEMMA FrameKindsAre ==
  FrameKinds \subseteq KnownKinds /\ FrameKinds \cap ChainKinds = {} /\ FrameKinds \cap DeviceKinds = {}
BY KindsOfPartsDiffer DEF FrameKinds, KnownKinds

(* A step of a frame confined to its kinds leaves the renderer in the      *)
(* frame.                                                                  *)
LEMMA FrameKeeps ==
  ASSUME currentFrame \in FrameSlots, NEW s, InFrame(s), NEW t, IsSystem(t),
         NEW kinds, kinds \subseteq FrameKinds, Becomes(s.d, t.d, kinds, FrameSlots),
         Owned(t.d, t.r, t.m), PipelinesHold(t.r.attempted, t.d.held), t.r.shadows.device, t.r.materials.device,
         \A slot \in FrameSlots \ {currentFrame} : t.r.ui.retained[slot] = s.r.ui.retained[slot],
         Outlasts(s.m, t.m)
  PROVE  InFrame(t)
<1>1. PICK d, e, u, v, m, n : d = s.d /\ e = t.d /\ u = s.r.ui /\ v = t.r.ui /\ m = s.m /\ n = t.m
  OBVIOUS
<1>2. Clean(e) /\ \A slot \in FrameSlots : e.work[slot] \subseteq d.work[slot]
  BY <1>1 DEF Becomes
<1>3. WorksStay(d, u, m, currentFrame) /\ d.work[currentFrame] = {} /\ Outlasts(m, n)
  BY <1>1 DEF InFrame
<1>4. \A slot \in FrameSlots \ {currentFrame} : v.retained[slot] = u.retained[slot]
  BY <1>1
<1>5. WorksStay(e, v, n, currentFrame) /\ e.work[currentFrame] = {}
  BY <1>2, <1>3, <1>4, WorksKeep
<1>6. ChainHolds(d.held) /\ DeviceHolds(d.held)
  BY <1>1 DEF InFrame, FrameHolds
<1>7. SameOf(ChainKinds, d.held, e.held) /\ SameOf(DeviceKinds, d.held, e.held)
  <2>1. ChainKinds \cap kinds = {} /\ DeviceKinds \cap kinds = {}
    BY FrameKindsAre
  <2>2. Becomes(d, e, kinds, FrameSlots)
    BY <1>1
  <2> QED BY <2>1, <2>2, BecomesSame
<1>8. ChainHolds(e.held) /\ DeviceHolds(e.held)
  BY <1>6, <1>7, ChainSame
<1> QED BY <1>1, <1>2, <1>5, <1>8 DEF InFrame, FrameHolds

(* What is busy is of an upload in doubt, or of another slot.              *)
LEMMA BusyIs ==
  ASSUME currentFrame \in FrameSlots, NEW s, InFrame(s), NEW x \in Busy(s.d)
  PROVE  /\ x \in s.d.held
         /\ \/ \E n \in s.r.materials.pending : x \in UploadWork(n)
            \/ \E slot \in FrameSlots \ {currentFrame} : x \in s.d.work[slot]
<1>1. PICK w \in Works : x \in s.d.work[w]
  BY DEF Busy
<1>2. x \in s.d.held
  BY CleanShape DEF InFrame, FrameHolds
<1>3. CASE w = OneTime
  <2>1. OneTimeIs(s.d, s.r.materials.pending)
    BY DEF InFrame, Owned, MatOwns
  <2> QED BY <1>1, <1>2, <1>3, <2>1 DEF OneTimeIs
<1>4. CASE w # OneTime
  <2>1. w \in FrameSlots
    BY <1>4, SlotsAreWorks
  <2>2. w # currentFrame
    BY <1>1 DEF InFrame
  <2> QED BY <1>1, <1>2, <2>1, <2>2
<1> QED BY <1>3, <1>4

(* What the slot's own work refers to is not busy.                         *)
LEMMA SlotMemoryKinds ==
  ASSUME NEW slot, NEW x \in SlotMemory(slot)
  PROVE  x[1] \notin PixelKinds
<1>1. PixelKinds = {"material image", "material image memory", "material view", "material staging", "material staging memory", "material command"}
  BY DEF PixelKinds, ImageKinds, StagingKinds
<1>2. \/ x \in {MapUniformMemory(slot), FrameMemory(slot), CommandBuffer(slot)} \/ x \in GeometryOf(slot)
      \/ \E mesh \in Dynamic : x \in BuffersOf({Vertices(mesh, slot)})
  <2>1. ASSUME x \in BuffersOf({Vertices(mesh, slot) : mesh \in Dynamic})
        PROVE  \E mesh \in Dynamic : x \in BuffersOf({Vertices(mesh, slot)})
    <3>1. PICK mesh \in Dynamic : x = MeshBuffer(Vertices(mesh, slot)) \/ x = MeshMemory(Vertices(mesh, slot))
      BY <2>1 DEF BuffersOf
    <3> QED BY <3>1 DEF BuffersOf
  <2> QED BY <2>1 DEF SlotMemory
<1>3. CASE x \in {MapUniformMemory(slot), FrameMemory(slot), CommandBuffer(slot)}
  <2>1. CASE x = MapUniformMemory(slot)
    BY <1>1, <2>1 DEF MapUniformMemory
  <2>2. CASE x = FrameMemory(slot)
    BY <1>1, <2>2 DEF FrameMemory
  <2>3. CASE x = CommandBuffer(slot)
    BY <1>1, <2>3 DEF CommandBuffer
  <2> QED BY <1>3, <2>1, <2>2, <2>3
<1>4. CASE x \in GeometryOf(slot)
  <2>1. x[1] \in UiKinds
    BY <1>4, UiKindsAre
  <2> QED BY <2>1, KindsOfPartsDiffer DEF PrepareKinds
<1>5. CASE \E mesh \in Dynamic : x \in BuffersOf({Vertices(mesh, slot)})
  <2>1. x[1] \in MeshKinds
    BY <1>5, MeshPartsAre
  <2> QED BY <2>1, KindsOfPartsDiffer DEF PrepareKinds
<1> QED BY <1>2, <1>3, <1>4, <1>5

(* After the fence the memory of the own slot is idle.                     *)
LEMMA OwnMemoryIdle ==
  ASSUME currentFrame \in FrameSlots, NEW s, InFrame(s)
  PROVE  SlotMemory(currentFrame) \cap Busy(s.d) = {}
<1>1. SUFFICES ASSUME NEW x, x \in SlotMemory(currentFrame), x \in Busy(s.d) PROVE FALSE
  OBVIOUS
<1>2. x[1] \notin PixelKinds
  BY <1>1, SlotMemoryKinds
<1>3. ASSUME NEW n \in s.r.materials.pending, x \in UploadWork(n) PROVE FALSE
  BY <1>2, <1>3, PixelObjectsAre
<1>4. ASSUME NEW slot \in FrameSlots \ {currentFrame}, x \in s.d.work[slot] PROVE FALSE
  <2>1. WorkIsKept(s.d.work[slot], slot, Distance(slot, currentFrame), s.r.ui, s.m)
    BY DEF InFrame, WorksStay
  <2> QED BY <1>1, <1>4, <2>1 DEF WorkIsKept
<1> QED BY <1>1, <1>3, <1>4, BusyIs

(* A mesh goes.                                                            *)
GoneKinds == MeshKinds \cup AssetKinds \cup PixelKinds
Unused(d, mesh, names) ==
  Busy(d) \cap (MeshObjects(mesh) \cup AssetAll(mesh) \cup AllOf(names)) = {}
MeshGone(s, mesh, t) ==
  /\ IsSystem(t) /\ Becomes(s.d, t.d, GoneKinds, Works) /\ t.d.work = s.d.work
  /\ Owned(t.d, t.r, t.m) /\ t.m = [s.m EXCEPT ![mesh] = NoMesh]
  /\ t.r = [s.r EXCEPT !.materials = t.r.materials]
  /\ OnlyCounts(s.r.materials, t.r.materials) /\ t.r.materials.pending = s.r.materials.pending

(* The buffers of different meshes are disjoint.                           *)
LEMMA MeshesDiffer ==
  ASSUME NEW mesh, NEW other, mesh # other
  PROVE  MeshObjects(mesh) \cap MeshObjects(other) = {}
<1>1. SUFFICES ASSUME NEW x, x \in MeshObjects(mesh), x \in MeshObjects(other) PROVE FALSE
  OBVIOUS
<1>2. x[2][1] = mesh
  BY <1>1, MeshObjectsAre
<1>3. x[2][1] = other
  BY <1>1, MeshObjectsAre
<1> QED BY <1>2, <1>3

(* The table without a mesh.                                               *)
Less(m, mesh, n) == n = [m EXCEPT ![mesh] = NoMesh]

(* The kinds that go with a mesh are disjoint from the other parts'.       *)
LEMMA GoneKindsAre ==
  /\ GoneKinds \subseteq KnownKinds /\ GoneKinds \cap ShadowKinds = {} /\ GoneKinds \cap UiKinds = {}
  /\ MeshKinds \cap PrepareKinds = {} /\ MeshKinds \cap AssetKinds = {} /\ MeshKinds \cap PixelKinds = {}
  /\ AssetKinds \cap PixelKinds = {} /\ PixelKinds \subseteq PrepareKinds
BY KindsOfPartsDiffer DEF GoneKinds, KnownKinds, PrepareKinds

(* One mesh less in the table, and what is held for it.                    *)
LEMMA MeshLess ==
  ASSUME NEW m, MeshTable(m), NEW mesh \in Meshes, NEW n, Less(m, mesh, n)
  PROVE  /\ MeshTable(n) /\ n[mesh] = NoMesh /\ ~ Loaded(n[mesh]) /\ ~ n[mesh].textured /\ n[mesh].images = {}
         /\ \A other \in Meshes \ {mesh} : n[other] = m[other]
<1>1. NoMesh \in MeshStates /\ ~ NoMesh.textured /\ NoMesh.images = {} /\ ~ Loaded(NoMesh)
  BY DEF NoMesh, MeshStates, Loaded
<1>2. m \in [Meshes -> MeshStates]
  BY DEF MeshTable
<1>3. n \in [Meshes -> MeshStates] /\ n[mesh] = NoMesh /\ \A other \in Meshes \ {mesh} : n[other] = m[other]
  BY <1>1, <1>2 DEF Less
<1>4. MeshTable(n)
  BY <1>1, <1>3 DEF MeshTable
<1> QED BY <1>1, <1>3, <1>4

(* A mesh less, its buffers gone: the rest is held.                        *)
LEMMA MeshLessHolds ==
  ASSUME NEW m, MeshTable(m), NEW mesh \in Meshes, NEW n, Less(m, mesh, n),
         NEW held, MeshesHold(m, held), NEW other, MeshObjects(mesh) \cap other = {},
         \A x \in held : x[1] \in MeshKinds /\ x \notin MeshObjects(mesh) => x \in other,
         \A x \in other : x[1] \in MeshKinds => x \in held
  PROVE  MeshesHold(n, other)
<1>1. ~ Loaded(n[mesh]) /\ \A o \in Meshes \ {mesh} : n[o] = m[o]
  BY MeshLess
<1>2. ASSUME NEW x \in other, x[1] \in MeshKinds
      PROVE  \E o \in Meshes : Loaded(n[o]) /\ x \in MeshObjects(o)
  <2>1. PICK o \in Meshes : Loaded(m[o]) /\ x \in MeshObjects(o)
    BY <1>2 DEF MeshesHold
  <2>2. o # mesh
    BY <2>1, <1>2
  <2> QED BY <1>1, <2>1, <2>2
<1>3. ASSUME NEW o \in Meshes, Loaded(n[o]), NEW x \in MeshObjects(o)
      PROVE  x \in other
  <2>1. o # mesh /\ Loaded(m[o])
    BY <1>1, <1>3
  <2>2. x \in held /\ x[1] \in MeshKinds
    BY <1>3, <2>1, MeshObjectsAre DEF MeshesHold
  <2>3. x \notin MeshObjects(mesh)
    BY <1>3, <2>1, MeshesDiffer
  <2> QED BY <2>2, <2>3
<1> QED BY <1>2, <1>3 DEF MeshesHold

(* A mesh less, its material gone: the rest is held.                       *)
LEMMA MeshLessAssets ==
  ASSUME NEW m, MeshTable(m), NEW mesh \in Meshes, NEW n, Less(m, mesh, n),
         NEW held, AssetsHold(m, held), NEW other, m[mesh].textured => AssetAll(mesh) \cap other = {},
         \A x \in held : x[1] \in AssetKinds /\ x \notin AssetAll(mesh) => x \in other,
         \A x \in other : x[1] \in AssetKinds => x \in held
  PROVE  AssetsHold(n, other)
<1>1. ~ n[mesh].textured /\ \A o \in Meshes \ {mesh} : n[o] = m[o]
  BY MeshLess
<1>2. ASSUME NEW x \in other, x[1] \in AssetKinds
      PROVE  \E o \in Meshes : n[o].textured /\ x \in AssetAll(o)
  <2>1. PICK o \in Meshes : m[o].textured /\ x \in AssetAll(o)
    BY <1>2 DEF AssetsHold
  <2>2. o # mesh
    BY <2>1, <1>2
  <2> QED BY <1>1, <2>1, <2>2
<1>3. ASSUME NEW o \in Meshes, n[o].textured, NEW x \in AssetAll(o)
      PROVE  x \in other
  <2>1. o # mesh /\ m[o].textured
    BY <1>1, <1>3
  <2>2. x \in held /\ x[1] \in AssetKinds
    BY <1>3, <2>1, AssetObjectsAre DEF AssetsHold
  <2>3. x \notin AssetAll(mesh)
    BY <1>3, <2>1, AssetsDiffer
  <2> QED BY <2>2, <2>3
<1> QED BY <1>2, <1>3 DEF AssetsHold

(* The images that other meshes refer to.                                  *)
LEMMA OthersLeft ==
  ASSUME NEW m, MeshTable(m), NEW mesh \in Meshes, NEW n, Less(m, mesh, n),
         NEW kept, kept \cap Others(m) = {}, NEW names,
         names = m[mesh].images \ (kept \cup UNION {m[other].images : other \in Meshes \ {mesh}})
  PROVE  Others(n) = Others(m) \ names /\ names \subseteq Others(m)
<1>1. n[mesh].images = {} /\ \A o \in Meshes \ {mesh} : n[o] = m[o]
  BY MeshLess
<1>2. ASSUME NEW x \in Others(n) PROVE x \in Others(m) \ names
  <2>1. PICK o \in Meshes : x \in n[o].images
    BY <1>2 DEF Others
  <2>2. o # mesh /\ x \in m[o].images
    BY <1>1, <2>1
  <2> QED BY <2>2 DEF Others
<1>3. ASSUME NEW x \in Others(m) \ names PROVE x \in Others(n)
  <2>1. PICK o \in Meshes : x \in m[o].images
    BY <1>3 DEF Others
  <2>2. \E p \in Meshes \ {mesh} : x \in m[p].images
    <3>1. CASE o # mesh
      BY <2>1, <3>1
    <3>2. CASE o = mesh
      BY <1>3, <2>1, <3>2
    <3> QED BY <3>1, <3>2
  <2> QED BY <1>1, <2>2 DEF Others
<1>4. names \subseteq Others(m)
  BY DEF Others
<1> QED BY <1>2, <1>3, <1>4

(* Meshes refer to contents.                                               *)
LEMMA ImagesAreContents ==
  ASSUME NEW m, MeshTable(m)
  PROVE  Others(m) \subseteq Contents
<1>1. \A mesh \in Meshes : m[mesh].images \subseteq Contents
  BY DEF MeshTable, MeshStates
<1> QED BY <1>1 DEF Others

(* What destroying a mesh changes of materials and meshes.                 *)
MeshGoes(d, mat, n, gone) ==
  /\ Becomes(d, gone.d, GoneKinds, Works) /\ gone.d.work = d.work
  /\ OnlyCounts(mat, gone.m) /\ gone.m.pending = mat.pending
  /\ MatOwns(gone.m, gone.d, Others(n)) /\ MeshesHold(n, gone.d.held) /\ AssetsHold(n, gone.d.held)
BuffersGone(d, mesh, b) ==
  /\ Becomes(d, b, MeshKinds, Works) /\ b.held = d.held \ MeshObjects(mesh)
  /\ b.work = d.work /\ Busy(b) = Busy(d)

(* Destroying a mesh's idle buffers removes them alone.                    *)
LEMMA BuffersGo ==
  ASSUME NEW d, Clean(d), NEW mesh, NEW names, Unused(d, mesh, names), NEW b \in {Destroy(d, MeshObjects(mesh))}
  PROVE  BuffersGone(d, mesh, b)
<1>1. PICK objects : objects = MeshObjects(mesh)
  OBVIOUS
<1>2. objects \cap Busy(d) = {} /\ \A x \in objects : x[1] \in MeshKinds
  BY <1>1, MeshObjectsAre DEF Unused
<1>3. /\ Becomes(d, b, MeshKinds, Works) /\ b.held = d.held \ objects
      /\ b.work = d.work
  BY <1>1, <1>2, DestroyBecomes
<1>4. Busy(b) = Busy(d)
  BY <1>3, WorkIsBusy
<1> QED BY <1>1, <1>3, <1>4 DEF BuffersGone

NamesOnlyFor(mat, m, mesh) ==
  m[mesh].images \ (Kept(mat) \cup UNION {m[other].images : other \in Meshes \ {mesh}})

(* A mesh without a material goes.                                         *)
LEMMA PlainMeshGoes ==
  ASSUME NEW d, Clean(d), NEW mat, NEW m, MatOwns(mat, d, Others(m)), MeshTable(m), MeshesHold(m, d.held),
         AssetsHold(m, d.held), NEW mesh \in Meshes, ~ m[mesh].textured, NEW n, Less(m, mesh, n),
         NEW b, BuffersGone(d, mesh, b), NEW gone, gone = [d |-> b, m |-> mat]
  PROVE  MeshGoes(d, mat, n, gone)
<1>1. gone.d = b /\ gone.m = mat
  OBVIOUS
<1>2. Becomes(d, b, GoneKinds, Works)
  <2>1. Becomes(d, b, MeshKinds, Works) /\ MeshKinds \subseteq GoneKinds /\ Works \subseteq Works
    BY DEF BuffersGone, GoneKinds
  <2> QED BY <2>1, BecomesWider
<1>3. OnlyCounts(mat, mat)
  BY CountsOnly DEF MatOwns, MaterialFlags
<1>4. SameOf(PrepareKinds, d.held, b.held)
  BY BecomesSame, GoneKindsAre DEF BuffersGone
<1>5. Others(n) = Others(m)
  <2>1. m[mesh].images = {}
    BY DEF MeshTable
  <2>2. n[mesh].images = {} /\ \A o \in Meshes \ {mesh} : n[o] = m[o]
    BY MeshLess
  <2>3. \A o \in Meshes : n[o].images = m[o].images
    BY <2>1, <2>2
  <2> QED BY <2>3 DEF Others
<1>6. MatOwns(mat, b, Others(n))
  <2>1. b.work[OneTime] \subseteq d.work[OneTime]
    BY DEF BuffersGone
  <2>2. MatOwns(mat, b, Others(m))
    BY <1>4, <2>1, MatSame
  <2> QED BY <1>5, <2>2
<1>7. PICK held, other : held = d.held /\ other = b.held
  OBVIOUS
<1>8. other = held \ MeshObjects(mesh)
  BY <1>7 DEF BuffersGone
<1>9. MeshesHold(n, other)
  <2>1. /\ MeshesHold(m, held) /\ MeshObjects(mesh) \cap other = {}
        /\ \A x \in held : x[1] \in MeshKinds /\ x \notin MeshObjects(mesh) => x \in other
        /\ \A x \in other : x[1] \in MeshKinds => x \in held
    BY <1>7, <1>8
  <2> QED BY <2>1, MeshLessHolds
<1>10. AssetsHold(n, other)
  <2>1. \A x \in MeshObjects(mesh) : x[1] \notin AssetKinds
    BY MeshObjectsAre, GoneKindsAre
  <2>2. /\ AssetsHold(m, held) /\ (m[mesh].textured => AssetAll(mesh) \cap other = {})
        /\ \A x \in held : x[1] \in AssetKinds /\ x \notin AssetAll(mesh) => x \in other
        /\ \A x \in other : x[1] \in AssetKinds => x \in held
    BY <1>7, <1>8, <2>1
  <2> QED BY <2>2, MeshLessAssets
<1> QED BY <1>1, <1>2, <1>3, <1>6, <1>7, <1>9, <1>10 DEF MeshGoes, BuffersGone

(* A mesh with a material goes, and the images only it referred to.        *)
LEMMA TexturedMeshGoes ==
  ASSUME NEW d, Clean(d), NEW mat, NEW m, MatOwns(mat, d, Others(m)), MeshTable(m), MeshesHold(m, d.held),
         AssetsHold(m, d.held), NEW mesh \in Meshes, m[mesh].textured, mat.ready, NEW n, Less(m, mesh, n),
         NEW names, names = NamesOnlyFor(mat, m, mesh), Unused(d, mesh, names),
         NEW b, BuffersGone(d, mesh, b), NEW gone \in {DestroyAsset(mat, b, mesh, names)}
  PROVE  MeshGoes(d, mat, n, gone)
<1>1. PICK others, more : others = Others(m) /\ more = others \ names
  OBVIOUS
<1>2. Becomes(d, b, GoneKinds, Works) /\ Clean(b)
  <2>1. Becomes(d, b, MeshKinds, Works) /\ MeshKinds \subseteq GoneKinds /\ Works \subseteq Works
    BY DEF BuffersGone, GoneKinds
  <2> QED BY <2>1, BecomesWider DEF Becomes
<1>3. mat.device
  BY DEF MatOwns, MaterialFlags, NoMaterials
<1>4. MatOwns(mat, b, others)
  <2>1. SameOf(PrepareKinds, d.held, b.held)
    BY BecomesSame, GoneKindsAre DEF BuffersGone
  <2>2. b.work[OneTime] \subseteq d.work[OneTime]
    BY DEF BuffersGone
  <2>3. MatOwns(mat, d, others)
    BY <1>1
  <2> QED BY <2>1, <2>2, <2>3, MatSame
<1>5. Kept(mat) \cap others = {}
  <2>1. Stored(mat) \cap Contents = {} /\ mat.pending \cap others = {}
    BY <1>4, StoredAreNoContents DEF MatOwns
  <2>2. others \subseteq Contents
    BY <1>1, ImagesAreContents
  <2> QED BY <2>1, <2>2, KeptIs
<1>6. Others(n) = more /\ names \subseteq others
  <2>1. PICK kept : kept = Kept(mat)
    OBVIOUS
  <2>2. names = m[mesh].images \ (kept \cup UNION {m[other].images : other \in Meshes \ {mesh}})
    BY <2>1 DEF NamesOnlyFor
  <2>3. kept \cap Others(m) = {}
    BY <1>1, <1>5, <2>1
  <2>4. Others(n) = Others(m) \ names /\ names \subseteq Others(m)
    BY <2>2, <2>3, OthersLeft
  <2> QED BY <1>1, <2>4
<1>7. names \cap Stored(mat) = {}
  BY <1>5, <1>6, KeptIs
<1>8. AssetAll(mesh) \subseteq b.held
  <2>1. AssetAll(mesh) \subseteq d.held
    BY DEF AssetsHold
  <2>2. \A x \in AssetAll(mesh) : x \notin MeshObjects(mesh)
    BY AssetObjectsAre, MeshObjectsAre, GoneKindsAre
  <2> QED BY <2>1, <2>2 DEF BuffersGone
<1>9. AssetSets(mesh) \in b.held => AssetPool(mesh) \in b.held
  BY <1>8, AssetObjectsAre
<1>10. Busy(b) \cap AllOf(names) = {} /\ Busy(b) \cap AssetAll(mesh) = {}
  BY DEF Unused, BuffersGone
<1>11. Unloads(b, mat, mesh, names, more, gone)
  <2>1. more \in {others \ names}
    BY <1>1
  <2> QED BY <1>2, <1>3, <1>4, <1>6, <1>7, <1>9, <1>10, <2>1, DestroyAssetOwns
<1>12. PICK e : e = gone.d
  OBVIOUS
<1>13. Clean(e) /\ e.work = d.work /\ e.refusals >= b.refusals /\ e.held = b.held \ (AllOf(names) \cup AssetAll(mesh))
  BY <1>11, <1>12 DEF Unloads, BuffersGone
<1>14. \A x \in AllOf(names) \cup AssetAll(mesh) : x[1] \in PixelKinds \cup AssetKinds
  <2>1. \A x \in AllOf(names) : x[1] \in PixelKinds
    BY PixelObjectsAre DEF AllOf
  <2> QED BY <2>1, AssetObjectsAre
<1>15. Becomes(d, e, GoneKinds, Works)
  <2>1. Becomes(b, e, GoneKinds, Works)
    BY <1>13, <1>14 DEF Becomes, BuffersGone, GoneKinds
  <2> QED BY <1>2, <2>1, BecomesThen
<1>16. PICK held, other : held = d.held /\ other = e.held
  OBVIOUS
<1>17. other = (held \ MeshObjects(mesh)) \ (AllOf(names) \cup AssetAll(mesh))
  BY <1>13, <1>16 DEF BuffersGone
<1>18. MeshesHold(n, other)
  <2>1. /\ MeshesHold(m, held) /\ MeshObjects(mesh) \cap other = {}
        /\ \A x \in held : x[1] \in MeshKinds /\ x \notin MeshObjects(mesh) => x \in other
        /\ \A x \in other : x[1] \in MeshKinds => x \in held
    BY <1>14, <1>16, <1>17, GoneKindsAre
  <2> QED BY <2>1, MeshLessHolds
<1>19. AssetsHold(n, other)
  <2>1. \A x \in MeshObjects(mesh) : x[1] \notin AssetKinds
    BY MeshObjectsAre, GoneKindsAre
  <2>2. \A x \in AllOf(names) : x[1] \notin AssetKinds
    BY PixelObjectsAre, GoneKindsAre DEF AllOf
  <2>3. /\ AssetsHold(m, held) /\ (m[mesh].textured => AssetAll(mesh) \cap other = {})
        /\ \A x \in held : x[1] \in AssetKinds /\ x \notin AssetAll(mesh) => x \in other
        /\ \A x \in other : x[1] \in AssetKinds => x \in held
    BY <1>16, <1>17, <2>1, <2>2
  <2> QED BY <2>3, MeshLessAssets
<1> QED BY <1>6, <1>11, <1>12, <1>13, <1>15, <1>16, <1>18, <1>19 DEF MeshGoes, Unloads

(* destroyGpuMeshAsset                                                     *)
LEMMA DestroyMeshOwns ==
  ASSUME NEW s, IsSystem(s), Clean(s.d), Owned(s.d, s.r, s.m), NEW mesh \in Meshes,
         NEW names, names = NamesOnlyFor(s.r.materials, s.m, mesh), Unused(s.d, mesh, names),
         NEW t \in {DestroyMesh(s, mesh)}
  PROVE  MeshGone(s, mesh, t)
<1>1. PICK d, r, m, mat : d = s.d /\ r = s.r /\ m = s.m /\ mat = r.materials
  OBVIOUS
<1>2. PICK b : b \in {Destroy(d, MeshObjects(mesh))}
  OBVIOUS
<1>3. BuffersGone(d, mesh, b)
  BY <1>1, <1>2, BuffersGo
<1>4. PICK gone : gone = IF m[mesh].textured THEN DestroyAsset(mat, b, mesh, names) ELSE [d |-> b, m |-> mat]
  OBVIOUS
<1>5. PICK n : Less(m, mesh, n)
  BY DEF Less
<1>6. PICK q : q = [r EXCEPT !.materials = gone.m]
  OBVIOUS
<1>7. t = [d |-> gone.d, r |-> q, m |-> n]
  <2>1. names = OnlyFor(s, mesh)
    BY <1>1 DEF OnlyFor, ImagesOf, NamesOnlyFor
  <2> QED BY <1>1, <1>2, <1>4, <1>5, <1>6, <2>1 DEF DestroyMesh, Less
<1>8. /\ Clean(d) /\ MatOwns(mat, d, Others(m)) /\ MeshTable(m) /\ MeshesHold(m, d.held) /\ AssetsHold(m, d.held)
      /\ names = NamesOnlyFor(mat, m, mesh) /\ Unused(d, mesh, names)
      /\ \A other \in Meshes : m[other].textured => mat.ready
  BY <1>1 DEF Owned
<1>9. MeshGoes(d, mat, n, gone)
  <2>1. CASE ~ m[mesh].textured
    <3>1. gone = [d |-> b, m |-> mat]
      BY <1>4, <2>1
    <3> QED BY <1>3, <1>5, <1>8, <2>1, <3>1, PlainMeshGoes
  <2>2. CASE m[mesh].textured
    <3>1. gone \in {DestroyAsset(mat, b, mesh, names)} /\ mat.ready
      BY <1>4, <1>8, <2>2
    <3> QED BY <1>3, <1>5, <1>8, <2>2, <3>1, TexturedMeshGoes
  <2> QED BY <2>1, <2>2
<1>10. PICK e, mt : e = gone.d /\ mt = gone.m
  OBVIOUS
<1>11. DOMAIN r = {"shadows", "ui", "materials", "attempted", "prepared"}
  BY <1>1 DEF IsSystem, IsRenderer, NoRenderer
<1>12. q.materials = mt /\ q.shadows = r.shadows /\ q.ui = r.ui /\ DOMAIN q = DOMAIN r
  BY <1>6, <1>10, <1>11
<1>13. OnlyCounts(mat, mt)
  BY <1>9, <1>10 DEF MeshGoes
<1>14. IsSystem(t) /\ t.d = e /\ t.r = q /\ t.m = n
  <2>1. IsMaterials(mt)
    BY <1>13 DEF OnlyCounts
  <2>2. IsRenderer(q)
    BY <1>1, <1>12 DEF IsSystem, IsRenderer
  <2> QED BY <1>7, <1>10, <1>12, <2>1, <2>2 DEF IsSystem
<1>15. /\ Becomes(d, e, GoneKinds, Works) /\ e.work = d.work /\ mt.pending = mat.pending
       /\ MatOwns(mt, e, Others(n)) /\ MeshesHold(n, e.held) /\ AssetsHold(n, e.held)
  BY <1>9, <1>10 DEF MeshGoes
<1>16. Owned(e, q, n)
  <2>1. Owned(d, r, m)
    BY <1>1
  <2>2. MeshTable(n) /\ ~ n[mesh].textured /\ \A other \in Meshes \ {mesh} : n[other] = m[other]
    BY <1>5, <1>8, MeshLess
  <2>3. \A other \in Meshes : n[other].textured => q.materials.ready
    BY <1>8, <1>12, <1>13, <2>2 DEF OnlyCounts
  <2>4. PICK kinds : kinds = GoneKinds
    OBVIOUS
  <2>5. Becomes(d, e, kinds, Works) /\ kinds \subseteq KnownKinds /\ kinds \cap ShadowKinds = {} /\ kinds \cap UiKinds = {}
    BY <1>15, <2>4, GoneKindsAre
  <2>6. MatOwns(q.materials, e, Others(n))
    BY <1>12, <1>15
  <2> QED BY <1>12, <1>15, <2>1, <2>2, <2>3, <2>5, <2>6, OwnedStays
<1> QED BY <1>1, <1>5, <1>6, <1>10, <1>12, <1>13, <1>14, <1>15, <1>16 DEF MeshGone, Less

(* The elements of a set, in some order.                                   *)
InOrder(items, S, last) ==
  /\ last \in Nat /\ Len(items) = last
  /\ \A n \in 1 .. last : items[n] \in S
  /\ \A i, j \in 1 .. last : items[i] = items[j] => i = j
  /\ NamesUpto(items, last) = S
(* A finite set is enumerated once each.                                   *)
LEMMA SetInOrder ==
  ASSUME NEW S, IsFiniteSet(S)
  PROVE  InOrder(SetToSeq(S), S, Len(SetToSeq(S)))
<1>1. PICK items, last : items = SetToSeq(S) /\ last = Cardinality(S)
  OBVIOUS
<1>2. /\ Len(items) = last /\ last \in Nat /\ items \in [1 .. last -> S]
      /\ \A x \in S : \E i \in 1 .. last : items[i] = x
      /\ \A i, j \in 1 .. last : items[i] = items[j] => i = j
  BY <1>1, SeqOfSet
<1>3. NamesUpto(items, last) = S
  BY <1>2 DEF NamesUpto
<1>4. \A n \in 1 .. last : items[n] \in S
  BY <1>2
<1> QED BY <1>1, <1>2, <1>3, <1>4 DEF InOrder

-----------------------------------------------------------------------------
(* Some meshes went, of those that may go.                                 *)
MayGo(s, gone) ==
  /\ gone \subseteq Meshes
  /\ \A mesh \in gone : Busy(s.d) \cap (MeshObjects(mesh) \cup AssetAll(mesh)) = {}
  /\ \A c \in Others(s.m) : (\A mesh \in Meshes \ gone : c \notin s.m[mesh].images) =>
       Busy(s.d) \cap ImageObjects(c) = {}
SameRest(s, t) ==
  /\ t.r.shadows = s.r.shadows /\ t.r.ui = s.r.ui /\ t.r.attempted = s.r.attempted /\ t.r.prepared = s.r.prepared
  /\ OnlyCounts(s.r.materials, t.r.materials) /\ t.r.materials.pending = s.r.materials.pending
MeshesWithout(m, names, n) ==
  \A mesh \in Meshes : n[mesh] = IF mesh \in names THEN NoMesh ELSE m[mesh]
MeshesLeft(s, names, t) ==
  /\ IsSystem(t) /\ Becomes(s.d, t.d, GoneKinds, Works) /\ t.d.work = s.d.work
  /\ Owned(t.d, t.r, t.m) /\ SameRest(s, t) /\ MeshesWithout(s.m, names, t.m)

(* Before the loop every mesh is left.                                     *)
LEMMA AllMeshesLeft ==
  ASSUME NEW s, IsSystem(s), Clean(s.d), Owned(s.d, s.r, s.m), NEW none, none = {}
  PROVE  MeshesLeft(s, none, s)
<1>1. Becomes(s.d, s.d, GoneKinds, Works)
  BY BecomesItself
<1>2. OnlyCounts(s.r.materials, s.r.materials)
  BY CountsOnly DEF IsSystem
<1>3. MeshesWithout(s.m, none, s.m)
  BY DEF MeshesWithout
<1> QED BY <1>1, <1>2, <1>3 DEF MeshesLeft, SameRest

(* A mesh that may go still may after others went.                         *)
LEMMA MeshStillMayGo ==
  ASSUME NEW s, NEW gone, MayGo(s, gone), NEW left, left \subseteq gone, NEW t, MeshesLeft(s, left, t),
         NEW mesh \in gone, NEW names, names = NamesOnlyFor(t.r.materials, t.m, mesh)
  PROVE  Unused(t.d, mesh, names)
<1>1. PICK m, n : m = s.m /\ n = t.m
  OBVIOUS
<1>2. MeshesWithout(m, left, n)
  BY <1>1 DEF MeshesLeft
<1>3. Busy(t.d) = Busy(s.d)
  BY WorkIsBusy DEF MeshesLeft
<1>4. ASSUME NEW c \in names
      PROVE  Busy(t.d) \cap ImageObjects(c) = {}
  <2>1. c \in n[mesh].images /\ \A other \in Meshes \ {mesh} : c \notin n[other].images
    BY <1>1 DEF NamesOnlyFor
  <2>2. mesh \in Meshes
    BY DEF MayGo
  <2>3. mesh \notin left /\ c \in m[mesh].images
    BY <1>2, <2>1, <2>2 DEF MeshesWithout, NoMesh
  <2>4. c \in Others(m)
    BY <2>2, <2>3 DEF Others
  <2>5. \A other \in Meshes \ gone : c \notin m[other].images
    BY <1>2, <2>1 DEF MeshesWithout
  <2> QED BY <1>1, <1>3, <2>4, <2>5 DEF MayGo
<1>5. Busy(t.d) \cap AllOf(names) = {}
  BY <1>4 DEF AllOf
<1>6. Busy(t.d) \cap (MeshObjects(mesh) \cup AssetAll(mesh)) = {}
  BY <1>3 DEF MayGo
<1> QED BY <1>5, <1>6 DEF Unused

(* One more mesh in the loop that destroys meshes.                         *)
LEMMA OneMeshLess ==
  ASSUME NEW s, Clean(s.d), NEW gone, MayGo(s, gone), NEW left, left \subseteq gone, NEW t, MeshesLeft(s, left, t),
         NEW mesh \in gone, NEW u \in {DestroyMesh(t, mesh)}, NEW more, more = left \cup {mesh}
  PROVE  MeshesLeft(s, more, u)
<1>1. PICK names : names = NamesOnlyFor(t.r.materials, t.m, mesh)
  OBVIOUS
<1>2. Unused(t.d, mesh, names)
  BY <1>1, MeshStillMayGo
<1>3. IsSystem(t) /\ Clean(t.d) /\ Owned(t.d, t.r, t.m) /\ mesh \in Meshes
  BY DEF MeshesLeft, Becomes, MayGo
<1>4. MeshGone(t, mesh, u)
  BY <1>1, <1>2, <1>3, DestroyMeshOwns
<1>5. PICK d, e, g : d = s.d /\ e = t.d /\ g = u.d
  OBVIOUS
<1>6. Becomes(d, g, GoneKinds, Works) /\ g.work = d.work
  <2>1. /\ Becomes(d, e, GoneKinds, Works) /\ e.work = d.work /\ Becomes(e, g, GoneKinds, Works) /\ g.work = e.work
        /\ Clean(d)
    BY <1>4, <1>5 DEF MeshesLeft, MeshGone
  <2> QED BY <2>1, BecomesThen
<1>7. SameRest(s, u)
  <2>1. PICK r, q, w, mt : r = t.r /\ q = u.r /\ w = s.r.materials /\ mt = u.r.materials
    OBVIOUS
  <2>2. DOMAIN r = {"shadows", "ui", "materials", "attempted", "prepared"}
    BY <1>3, <2>1 DEF IsSystem, IsRenderer, NoRenderer
  <2>3. q = [r EXCEPT !.materials = mt]
    BY <1>4, <2>1 DEF MeshGone
  <2>4. q.shadows = r.shadows /\ q.ui = r.ui /\ q.attempted = r.attempted /\ q.prepared = r.prepared
    BY <2>2, <2>3
  <2>5. OnlyCounts(w, r.materials) /\ OnlyCounts(r.materials, mt)
    BY <1>4, <2>1 DEF MeshGone, MeshesLeft, SameRest
  <2>6. OnlyCounts(w, mt)
    BY <2>5, CountsThen
  <2>7. mt.pending = w.pending
    BY <1>4, <2>1 DEF MeshGone, MeshesLeft, SameRest
  <2> QED BY <2>1, <2>4, <2>6, <2>7 DEF SameRest, MeshesLeft
<1>8. MeshesWithout(s.m, more, u.m)
  <2>1. PICK m, n, k : m = s.m /\ n = t.m /\ k = u.m
    OBVIOUS
  <2>2. MeshesWithout(m, left, n) /\ Less(n, mesh, k) /\ MeshTable(n)
    BY <1>3, <1>4, <2>1 DEF MeshesLeft, MeshGone, Less, Owned
  <2>3. k[mesh] = NoMesh /\ \A other \in Meshes \ {mesh} : k[other] = n[other]
    BY <1>3, <2>2, MeshLess
  <2>4. MeshesWithout(m, more, k)
    BY <1>3, <2>2, <2>3 DEF MeshesWithout
  <2> QED BY <2>1, <2>4
<1> QED BY <1>4, <1>5, <1>6, <1>7, <1>8 DEF MeshesLeft, MeshGone

(* The loop over retired meshes keeps everything else owned.               *)
LEMMA DestroyMeshesOwns ==
  ASSUME NEW s, IsSystem(s), Clean(s.d), Owned(s.d, s.r, s.m), NEW gone, MayGo(s, gone), NEW t \in DestroyMeshes(s, gone)
  PROVE  MeshesLeft(s, gone, t)
<1>1. IsFiniteSet(gone)
  BY ResourcesAssumption, FS_Subset DEF MayGo
<1>2. PICK items, last, outcomes : items = SetToSeq(gone) /\ last = Len(items) /\ outcomes = {s}
  OBVIOUS
<1>3. InOrder(items, gone, last)
  BY <1>1, <1>2, SetInOrder
<1>4. PICK f : IsRun(f, "destroy", 0, outcomes, items, last) /\ t \in f[last]
  <2>1. Len(SetToSeq(gone)) \in Nat
    BY <1>2, <1>3 DEF InOrder
  <2> QED BY <1>2, <2>1, DestroyRun
<1>5. last \in Nat
  BY <1>3 DEF InOrder
<1> DEFINE G == [n \in 0 .. last |-> {x \in Reached(f, last) : MeshesLeft(s, NamesUpto(items, n), x)}]
<1>6. ASSUME NEW x \in outcomes \cap Reached(f, last) PROVE x \in G[0]
  <2>1. x = s
    BY <1>2
  <2>2. PICK none : none = NamesUpto(items, 0)
    OBVIOUS
  <2>3. none = {}
    BY <2>2 DEF NamesUpto
  <2>4. MeshesLeft(s, none, s)
    BY <2>3, AllMeshesLeft
  <2>5. 0 \in 0 .. last
    BY <1>5
  <2> QED BY <2>1, <2>2, <2>4, <2>5
<1>7. ASSUME NEW n \in 1 .. last, NEW x \in f[n - 1] \cap G[n - 1],
             NEW q \in Stage("destroy", 0, x, items[n]) \cap Reached(f, last)
      PROVE  q \in G[n]
  <2>1. n - 1 \in 0 .. last /\ n \in 0 .. last
    BY <1>5
  <2>2. PICK left, mesh, more : left = NamesUpto(items, n - 1) /\ mesh = items[n] /\ more = NamesUpto(items, n)
    OBVIOUS
  <2>3. more = left \cup {mesh} /\ mesh \in gone /\ left \subseteq gone
    <3>1. more = left \cup {mesh}
      BY <1>3, <1>5, <2>2, NamesGrow DEF InOrder
    <3>2. \A k \in 1 .. n - 1 : k \in 1 .. last
      BY <1>5
    <3> QED BY <1>3, <2>2, <3>1, <3>2 DEF InOrder, NamesUpto
  <2>4. MeshesLeft(s, left, x)
    BY <2>1, <2>2
  <2>5. q \in {DestroyMesh(x, mesh)}
    BY <1>7, <2>2 DEF Stage
  <2>6. MeshesLeft(s, more, q)
    BY <2>3, <2>4, <2>5, OneMeshLess
  <2> QED BY <2>1, <2>2, <2>6
<1>8. ASSUME NEW x \in G[last] PROVE MeshesLeft(s, NamesUpto(items, last), x)
  BY <1>5
<1> HIDE DEF G
<1>9. Climbs("destroy", 0, outcomes, items, last, f, G)
  BY <1>6, <1>7 DEF Climbs
<1>10. f[last] \subseteq G[last]
  BY <1>4, <1>5, <1>9, RunClimbs
<1>11. MeshesLeft(s, NamesUpto(items, last), t)
  BY <1>4, <1>8, <1>10
<1>12. NamesUpto(items, last) = gone
  BY <1>3 DEF InOrder
<1> QED BY <1>11, <1>12

(* Meshes that were released long enough ago.                              *)
Overdue(s) == {mesh \in In(s, "retired") : s.m[mesh].wait = 0}

(* A mesh that waited out the slots is in no submitted work.               *)
LEMMA OverdueNotInUse ==
  ASSUME NEW s, NEW mesh \in Overdue(s), NEW turns \in Nat
  PROVE  ~ InUse(s.m[mesh], turns)
BY DEF Overdue, In, InUse

(* The upload in doubt is of one image.                                    *)
LEMMA PendingIsOneImage ==
  ASSUME NEW n, NEW c, NEW x, x \in UploadWork(n), x \in ImageObjects(c)
  PROVE  n = c
<1>1. x \in {Image(n), ImageMemory(n)}
  <2>1. x[1] \in ImageKinds
    BY ImageObjectsAre
  <2>2. x \notin StagingObjects
    BY <2>1, StagingObjectsAre, PixelKindsAre
  <2> QED BY <2>2 DEF UploadWork
<1>2. x \in ImageObjects(n)
  BY <1>1, ImagesDiffer
<1>3. x[2] = n
  BY <1>2, ImageObjectsAre
<1>4. x[2] = c
  BY ImageObjectsAre
<1> QED BY <1>3, <1>4

(* They may go: nothing in flight refers to them or their images.          *)
LEMMA OverdueMayGo ==
  ASSUME currentFrame \in FrameSlots, NEW s, InFrame(s)
  PROVE  MayGo(s, Overdue(s))
<1>1. PICK gone, pending, m, others :
        gone = Overdue(s) /\ pending = s.r.materials.pending /\ m = s.m /\ others = Others(s.m)
  OBVIOUS
<1>2. gone \subseteq Meshes
  BY <1>1 DEF Overdue, In
<1>3. MeshTable(m) /\ MatOwns(s.r.materials, s.d, others)
  BY <1>1 DEF InFrame, Owned
<1>4. pending \cap others = {}
  BY <1>1, <1>3 DEF MatOwns
<1>5. \A slot \in FrameSlots :
        WorkIsKept(s.d.work[slot], slot, Distance(slot, currentFrame), s.r.ui, m) /\ Distance(slot, currentFrame) \in Nat
  BY <1>1, DistanceIs DEF InFrame, WorksStay
<1>6. ASSUME NEW mesh \in gone, NEW x \in Busy(s.d), x \in MeshObjects(mesh) \cup AssetAll(mesh) PROVE FALSE
  <2>1. x[1] \notin PixelKinds
    BY <1>6, MeshObjectsAre, AssetObjectsAre, GoneKindsAre
  <2>2. ASSUME NEW n \in pending, x \in UploadWork(n) PROVE FALSE
    BY <2>1, <2>2, PixelObjectsAre
  <2>3. ASSUME NEW slot \in FrameSlots \ {currentFrame}, x \in s.d.work[slot] PROVE FALSE
    <3>1. PICK turns \in Nat : WorkIsKept(s.d.work[slot], slot, turns, s.r.ui, m)
      BY <1>5
    <3>2. InUse(m[mesh], turns)
      BY <1>2, <1>6, <2>3, <3>1 DEF WorkIsKept
    <3> QED BY <1>1, <3>2, OverdueNotInUse
  <2> QED BY <1>1, <1>6, <2>2, <2>3, BusyIs
<1>7. ASSUME NEW c \in others, \A mesh \in Meshes \ gone : c \notin m[mesh].images,
             NEW x \in Busy(s.d), x \in ImageObjects(c)
      PROVE  FALSE
  <2>1. c \in Contents
    BY <1>1, <1>3, ImagesAreContents
  <2>2. ASSUME NEW n \in pending, x \in UploadWork(n) PROVE FALSE
    <3>1. n = c
      BY <1>7, <2>2, PendingIsOneImage
    <3> QED BY <1>4, <3>1
  <2>3. ASSUME NEW slot \in FrameSlots \ {currentFrame}, x \in s.d.work[slot] PROVE FALSE
    <3>1. PICK turns \in Nat : WorkIsKept(s.d.work[slot], slot, turns, s.r.ui, m)
      BY <1>5
    <3>2. PICK mesh \in Meshes : c \in m[mesh].images /\ InUse(m[mesh], turns)
      BY <1>7, <2>1, <2>3, <3>1 DEF WorkIsKept
    <3>3. mesh \in gone
      BY <1>7, <3>2
    <3> QED BY <1>1, <3>2, <3>3, OverdueNotInUse
  <2> QED BY <1>1, <1>7, <2>2, <2>3, BusyIs
<1> QED BY <1>1, <1>2, <1>6, <1>7 DEF MayGo

(* What goes with a mesh is of a frame's kinds.                            *)
LEMMA GoneKindsFrame == GoneKinds \subseteq FrameKinds /\ GoneKinds \cap PipelineKinds = {}
<1>1. GoneKinds \subseteq FrameKinds
  BY DEF GoneKinds, FrameKinds, PrepareKinds
<1>2. PixelKinds \subseteq PrepareKinds
  BY DEF PrepareKinds
<1>3. MeshKinds \cap PipelineKinds = {} /\ AssetKinds \cap PipelineKinds = {} /\ PrepareKinds \cap PipelineKinds = {}
  BY KindsOfPartsDiffer
<1> QED BY <1>1, <1>2, <1>3 DEF GoneKinds

(* processDeferredMeshDestroys                                             *)
LEMMA RetireMeshesKeeps ==
  ASSUME currentFrame \in FrameSlots, NEW s, InFrame(s), NEW t \in RetireMeshes(s)
  PROVE  InFrame(t)
<1>1. IsSystem(s) /\ Clean(s.d) /\ Owned(s.d, s.r, s.m)
  BY DEF InFrame, FrameHolds
<1>2. PICK gone : gone = Overdue(s)
  OBVIOUS
<1>3. MayGo(s, gone)
  BY <1>2, OverdueMayGo
<1>4. t \in DestroyMeshes(s, gone)
  BY <1>2 DEF RetireMeshes, Overdue
<1>5. MeshesLeft(s, gone, t)
  BY <1>1, <1>3, <1>4, DestroyMeshesOwns
<1>6. Becomes(s.d, t.d, GoneKinds, Works)
  BY <1>5 DEF MeshesLeft
<1>7. Becomes(s.d, t.d, GoneKinds, FrameSlots)
  BY <1>6, SlotsAreWorks, BecomesWider
<1>8. /\ t.r.shadows = s.r.shadows /\ t.r.ui = s.r.ui /\ t.r.attempted = s.r.attempted
      /\ t.r.materials.device = s.r.materials.device
  BY <1>5 DEF MeshesLeft, SameRest, OnlyCounts
<1>9. PipelinesHold(t.r.attempted, t.d.held)
  <2>1. PICK attempted, held, other : attempted = s.r.attempted /\ held = s.d.held /\ other = t.d.held
    OBVIOUS
  <2>2. SameOf(PipelineKinds, s.d.held, t.d.held)
    BY <1>6, GoneKindsFrame, BecomesSame
  <2>3. PipelinesHold(attempted, held) /\ SameOf(PipelineKinds, held, other)
    BY <2>1, <2>2 DEF InFrame, FrameHolds
  <2> QED BY <1>8, <2>1, <2>3, PipelinesSame
<1>10. Outlasts(s.m, t.m)
  <2>1. ASSUME NEW mesh \in Meshes, NEW turns \in Nat, InUse(s.m[mesh], turns) PROVE t.m[mesh] = s.m[mesh]
    <3>1. mesh \notin gone
      BY <1>2, <2>1, OverdueNotInUse
    <3> QED BY <1>5, <3>1 DEF MeshesLeft, MeshesWithout
  <2> QED BY <2>1 DEF Outlasts
<1>11. IsSystem(t) /\ Owned(t.d, t.r, t.m)
  BY <1>5 DEF MeshesLeft
<1>12. s.r.shadows.device /\ s.r.materials.device
  BY DEF InFrame
<1> QED BY <1>7, <1>8, <1>9, <1>10, <1>11, <1>12, GoneKindsFrame, FrameKeeps

(* With nothing in flight every mesh may go.                               *)
LEMMA IdleMayGo ==
  ASSUME NEW s, Busy(s.d) = {}, NEW gone, gone \subseteq Meshes
  PROVE  MayGo(s, gone)
BY DEF MayGo

(* The driver and the meshes of a system are others.                       *)
OthersIn(s, e, n, t) == t = [s EXCEPT !.d = e, !.m = n]
(* What destroying a mesh sets.                                            *)
LEMMA OthersInFields ==
  ASSUME NEW s, IsSystem(s), NEW e, NEW n, NEW t, OthersIn(s, e, n, t)
  PROVE  IsSystem(t) /\ t.d = e /\ t.r = s.r /\ t.m = n
BY DEF IsSystem, OthersIn

(* A mesh that was not loaded gets another state.                          *)
StateIs(m, mesh, state, n) == n = [m EXCEPT ![mesh].state = state]
(* Setting the state of a mesh changes that mesh alone.                    *)
LEMMA StateChanges ==
  ASSUME NEW m, MeshTable(m), NEW mesh \in Meshes, ~ Loaded(m[mesh]),
         NEW state \in {"failed", "resident"}, NEW n, StateIs(m, mesh, state, n)
  PROVE  /\ MeshTable(n) /\ n[mesh].state = state
         /\ \A other \in Meshes : n[other].textured = m[other].textured /\ n[other].images = m[other].images
         /\ \A other \in Meshes \ {mesh} : n[other] = m[other]
         /\ Others(n) = Others(m)
<1>1. m \in [Meshes -> MeshStates] /\ ~ m[mesh].textured
  BY DEF MeshTable
<1>2. m[mesh] \in MeshStates
  BY <1>1
<1>3. PICK x : x = [m[mesh] EXCEPT !.state = state]
  OBVIOUS
<1>4. x \in MeshStates /\ x.state = state /\ x.textured = m[mesh].textured /\ x.images = m[mesh].images
  BY <1>2, <1>3 DEF MeshStates
<1>5. n = [m EXCEPT ![mesh] = x]
  BY <1>3 DEF StateIs
<1>6. n[mesh] = x /\ \A other \in Meshes \ {mesh} : n[other] = m[other]
  BY <1>1, <1>5
<1>7. n \in [Meshes -> MeshStates]
  BY <1>1, <1>4, <1>5
<1>8. \A other \in Meshes : n[other].textured = m[other].textured /\ n[other].images = m[other].images
  BY <1>4, <1>6
<1>9. MeshTable(n)
  <2>1. ASSUME NEW other \in Meshes
        PROVE  /\ n[other].textured => n[other].tried /\ Loaded(n[other])
               /\ ~ n[other].textured => n[other].images = {}
    <3>1. CASE other = mesh
      BY <1>1, <1>8, <3>1 DEF MeshTable
    <3>2. CASE other # mesh
      BY <1>6, <3>2 DEF MeshTable
    <3> QED BY <3>1, <3>2
  <2> QED BY <1>7, <2>1 DEF MeshTable
<1>10. Others(n) = Others(m)
  BY <1>8 DEF Others
<1> QED BY <1>4, <1>6, <1>8, <1>9, <1>10

(* Nothing is there of a mesh before it is uploaded.                       *)
LEMMA UploadIsNew ==
  ASSUME NEW m, NEW held, MeshesHold(m, held), NEW mesh \in Meshes, ~ Loaded(m[mesh])
  PROVE  (MeshStaging \cup MeshObjects(mesh)) \cap held = {}
<1>1. SUFFICES ASSUME NEW x \in held, x \in MeshStaging \cup MeshObjects(mesh) PROVE FALSE
  OBVIOUS
<1>2. x[1] \in MeshKinds
  BY <1>1, MeshStagingIs, MeshObjectsAre
<1>3. PICK other \in Meshes : Loaded(m[other]) /\ x \in MeshObjects(other)
  BY <1>1, <1>2 DEF MeshesHold
<1>4. x[1] \in {"mesh buffer", "mesh memory"} /\ x[2][1] = other
  BY <1>3, MeshObjectsAre
<1>5. x \in MeshObjects(mesh)
  BY <1>1, <1>4, MeshStagingIs
<1>6. x[2][1] = mesh
  BY <1>5, MeshObjectsAre
<1> QED BY <1>3, <1>4, <1>6

(* A mesh's buffers uploaded: the table holds.                             *)
LEMMA UploadHolds ==
  ASSUME NEW m, NEW held, MeshesHold(m, held), NEW mesh \in Meshes, ~ Loaded(m[mesh]), NEW n, NEW other,
         \A x \in Meshes \ {mesh} : n[x] = m[x],
         IF Loaded(n[mesh]) THEN other = held \cup MeshObjects(mesh) ELSE other = held
  PROVE  MeshesHold(n, other)
<1>1. held \subseteq other
  OBVIOUS
<1>2. ASSUME NEW x \in other, x[1] \in MeshKinds
      PROVE  \E y \in Meshes : Loaded(n[y]) /\ x \in MeshObjects(y)
  <2>1. CASE x \in held
    <3>1. PICK y \in Meshes : Loaded(m[y]) /\ x \in MeshObjects(y)
      BY <1>2, <2>1 DEF MeshesHold
    <3>2. n[y] = m[y]
      BY <3>1
    <3> QED BY <3>1, <3>2
  <2>2. CASE x \notin held
    BY <1>2, <2>2
  <2> QED BY <2>1, <2>2
<1>3. ASSUME NEW y \in Meshes, Loaded(n[y]) PROVE MeshObjects(y) \subseteq other
  <2>1. CASE y = mesh
    BY <1>3, <2>1
  <2>2. CASE y # mesh
    <3>1. Loaded(m[y])
      BY <1>3, <2>2
    <3> QED BY <1>1, <3>1 DEF MeshesHold
  <2> QED BY <2>1, <2>2
<1> QED BY <1>2, <1>3 DEF MeshesHold

(* The same objects of the materials of meshes, and the same meshes with   *)
(* materials.                                                              *)
LEMMA AssetsOfSame ==
  ASSUME NEW m, NEW held, AssetsHold(m, held), NEW n, \A mesh \in Meshes : n[mesh].textured = m[mesh].textured,
         NEW other, SameOf(AssetKinds, held, other)
  PROVE  AssetsHold(n, other)
<1>1. AssetsHold(m, other)
  BY AssetsSame
<1> QED BY <1>1 DEF AssetsHold

(* Mesh objects are of a frame's kinds.                                    *)
LEMMA MeshKindsFrame ==
  /\ MeshKinds \subseteq FrameKinds /\ MeshKinds \subseteq KnownKinds
  /\ MeshKinds \cap ShadowKinds = {} /\ MeshKinds \cap UiKinds = {} /\ MeshKinds \cap PrepareKinds = {}
  /\ MeshKinds \cap AssetKinds = {} /\ MeshKinds \cap PipelineKinds = {}
<1>1. MeshKinds \subseteq FrameKinds /\ MeshKinds \subseteq KnownKinds
  BY DEF FrameKinds, KnownKinds
<1> QED BY <1>1, KindsOfPartsDiffer

(* A mesh was uploaded, or failed to be.                                   *)
MeshLoads(s, mesh, t) ==
  InFrame(t) /\ \A other \in Meshes \ {mesh} : t.m[other] = s.m[other]

(* Uploading a mesh leaves it resident with its buffers, or failed         *)
(* without.                                                                *)
LEMMA UploadMeshKeeps ==
  ASSUME currentFrame \in FrameSlots, NEW s, InFrame(s), NEW mesh \in Meshes, s.m[mesh].state = "pending",
         NEW t \in UploadMesh(s, mesh)
  PROVE  MeshLoads(s, mesh, t)
<1>1. IsSystem(s) /\ Clean(s.d) /\ Owned(s.d, s.r, s.m) /\ DeviceHolds(s.d.held)
  BY DEF InFrame, FrameHolds
<1>2. PICK d, r, m, held : d = s.d /\ r = s.r /\ m = s.m /\ held = s.d.held
  OBVIOUS
<1>3. PICK o \in UploadMeshPrimitive(d, mesh) :
        t = [s EXCEPT !.d = o.d, !.m[mesh].state = IF o.ok THEN "resident" ELSE "failed"]
  BY <1>2 DEF UploadMesh
<1>4. PICK state : state = IF o.ok THEN "resident" ELSE "failed"
  OBVIOUS
<1>5. PICK n : StateIs(m, mesh, state, n)
  BY DEF StateIs
<1>6. PICK e : e = o.d
  OBVIOUS
<1>7. t = [s EXCEPT !.d = e, !.m[mesh].state = state]
  BY <1>3, <1>4, <1>6, Zenon
<1>8. OthersIn(s, e, n, t)
  BY <1>1, <1>2, <1>5, <1>7 DEF OthersIn, StateIs, IsSystem
<1>9. IsSystem(t) /\ t.d = e /\ t.r = r /\ t.m = n
  BY <1>1, <1>2, <1>8, OthersInFields
<1>10. ~ Loaded(m[mesh])
  BY <1>2 DEF Loaded
<1>11. MeshTable(m) /\ MeshesHold(m, held) /\ AssetsHold(m, held) /\ MatOwns(r.materials, d, Others(m))
       /\ (\A other \in Meshes : m[other].textured => r.materials.ready)
  BY <1>1, <1>2 DEF Owned
<1>12. (MeshStaging \cup MeshObjects(mesh)) \cap held = {}
  BY <1>10, <1>11, UploadIsNew
<1>13. CommandPool \in d.held
  BY <1>1, <1>2 DEF DeviceHolds, DeviceObjects
<1>14. MeshMade(d, o, MeshObjects(mesh))
  <2>1. (MeshStaging \cup MeshObjects(mesh)) \cap d.held = {} /\ Clean(d)
    BY <1>1, <1>2, <1>12
  <2> QED BY <1>13, <2>1, UploadPrimitiveOwns
<1>15. Becomes(d, e, MeshKinds, Works) /\ o.ok \in BOOLEAN
       /\ (o.ok => e.held = held \cup MeshObjects(mesh)) /\ (~ o.ok => e.held = held)
  BY <1>2, <1>6, <1>14 DEF MeshMade
<1>16. state \in {"failed", "resident"} /\ (o.ok <=> state = "resident")
  BY <1>4, <1>15
<1>17. /\ MeshTable(n) /\ n[mesh].state = state
       /\ \A other \in Meshes : n[other].textured = m[other].textured /\ n[other].images = m[other].images
       /\ \A other \in Meshes \ {mesh} : n[other] = m[other]
       /\ Others(n) = Others(m)
  BY <1>5, <1>10, <1>11, <1>16, StateChanges
<1>18. MeshesHold(n, e.held)
  <2>1. PICK other : other = e.held
    OBVIOUS
  <2>2. IF Loaded(n[mesh]) THEN other = held \cup MeshObjects(mesh) ELSE other = held
    BY <1>15, <1>16, <1>17, <2>1 DEF Loaded
  <2> QED BY <1>10, <1>11, <1>17, <2>1, <2>2, UploadHolds
<1>19. AssetsHold(n, e.held)
  <2>1. SameOf(AssetKinds, d.held, e.held)
    BY <1>15, MeshKindsFrame, BecomesSame
  <2>2. PICK other : other = e.held
    OBVIOUS
  <2>3. SameOf(AssetKinds, held, other)
    BY <1>2, <2>1, <2>2
  <2> QED BY <1>11, <1>17, <2>2, <2>3, AssetsOfSame
<1>20. MatOwns(r.materials, e, Others(n))
  <2>1. SameOf(PrepareKinds, d.held, e.held)
    BY <1>15, MeshKindsFrame, BecomesSame
  <2>2. e.work[OneTime] \subseteq d.work[OneTime]
    BY <1>15, SlotsAreWorks DEF Becomes
  <2>3. PICK mat, others : mat = r.materials /\ others = Others(m)
    OBVIOUS
  <2>4. MatOwns(mat, e, others)
    BY <1>11, <2>1, <2>2, <2>3, MatSame
  <2> QED BY <1>17, <2>3, <2>4
<1>21. Owned(e, r, n)
  <2>1. Owned(d, r, m)
    BY <1>1, <1>2
  <2>2. \A other \in Meshes : n[other].textured => r.materials.ready
    BY <1>11, <1>17
  <2> QED BY <1>15, <1>17, <1>18, <1>19, <1>20, <2>1, <2>2, MeshKindsFrame, OwnedStays
<1>22. PipelinesHold(t.r.attempted, t.d.held)
  <2>1. PICK attempted, other : attempted = r.attempted /\ other = e.held
    OBVIOUS
  <2>2. SameOf(PipelineKinds, d.held, e.held)
    BY <1>15, MeshKindsFrame, BecomesSame
  <2>3. PipelinesHold(attempted, held) /\ SameOf(PipelineKinds, held, other)
    BY <1>2, <2>1, <2>2 DEF InFrame, FrameHolds
  <2> QED BY <1>9, <2>1, <2>3, PipelinesSame
<1>23. Outlasts(s.m, t.m)
  <2>1. \A turns : ~ InUse(m[mesh], turns)
    BY <1>2 DEF InUse
  <2> QED BY <1>2, <1>9, <1>17, <2>1 DEF Outlasts
<1>24. Becomes(s.d, t.d, MeshKinds, FrameSlots)
  BY <1>2, <1>9, <1>15, SlotsAreWorks, BecomesWider
<1>25. Owned(t.d, t.r, t.m) /\ t.r.shadows.device /\ t.r.materials.device
       /\ \A slot \in FrameSlots \ {currentFrame} : t.r.ui.retained[slot] = s.r.ui.retained[slot]
  BY <1>2, <1>9, <1>21 DEF InFrame
<1>26. InFrame(t)
  BY <1>9, <1>22, <1>23, <1>24, <1>25, MeshKindsFrame, FrameKeeps
<1> QED BY <1>2, <1>9, <1>17, <1>26 DEF MeshLoads

(* Those after the first n of these meshes are still to be uploaded.       *)
StillPending(s, items, last, n) ==
  InFrame(s) /\ \A i \in 1 .. last : i > n => s.m[items[i]].state = "pending"

(* processMeshUploadQueue                                                  *)
LEMMA UploadMeshesKeeps ==
  ASSUME currentFrame \in FrameSlots, NEW s, InFrame(s), NEW t \in UploadMeshes(s)
  PROVE  InFrame(t)
<1>1. CASE ~ Exists(s.d, "mesh")
  BY <1>1 DEF UploadMeshes
<1>2. CASE Exists(s.d, "mesh")
  <2>1. PICK pending : pending = In(s, "pending")
    OBVIOUS
  <2>2. IsFiniteSet(pending) /\ pending \subseteq Meshes /\ \A mesh \in pending : s.m[mesh].state = "pending"
    BY <2>1, ResourcesAssumption, FS_Subset DEF In
  <2>3. PICK items, last, outcomes : items = SetToSeq(pending) /\ last = Len(items) /\ outcomes = {s}
    OBVIOUS
  <2>4. InOrder(items, pending, last)
    BY <2>2, <2>3, SetInOrder
  <2>5. last \in Nat
    BY <2>4 DEF InOrder
  <2>6. PICK f : IsRun(f, "upload", 0, outcomes, items, last) /\ t \in f[last]
    <3>1. t \in InTurn({s}, items, UploadMesh)
      BY <1>2, <2>1, <2>3 DEF UploadMeshes
    <3>2. Len(items) \in Nat
      BY <2>3, <2>5
    <3> QED BY <2>3, <3>1, <3>2, UploadRun
  <2> DEFINE G == [n \in 0 .. last |-> {x \in Reached(f, last) : StillPending(x, items, last, n)}]
  <2>7. ASSUME NEW x \in outcomes \cap Reached(f, last) PROVE x \in G[0]
    <3>1. x = s
      BY <2>3
    <3>2. StillPending(s, items, last, 0)
      BY <2>2, <2>4 DEF StillPending, InOrder
    <3>3. 0 \in 0 .. last
      BY <2>5
    <3> QED BY <3>1, <3>2, <3>3
  <2>8. ASSUME NEW n \in 1 .. last, NEW x \in f[n - 1] \cap G[n - 1],
               NEW q \in Stage("upload", 0, x, items[n]) \cap Reached(f, last)
        PROVE  q \in G[n]
    <3>1. n - 1 \in 0 .. last /\ n \in 0 .. last /\ n > n - 1
      BY <2>5
    <3>2. StillPending(x, items, last, n - 1)
      BY <3>1
    <3>3. PICK mesh : mesh = items[n]
      OBVIOUS
    <3>4. mesh \in Meshes /\ x.m[mesh].state = "pending" /\ InFrame(x)
      BY <2>2, <2>4, <3>1, <3>2, <3>3 DEF StillPending, InOrder
    <3>5. q \in UploadMesh(x, mesh)
      BY <2>8, <3>3 DEF Stage
    <3>6. MeshLoads(x, mesh, q)
      BY <3>4, <3>5, UploadMeshKeeps
    <3>7. ASSUME NEW i \in 1 .. last, i > n PROVE q.m[items[i]].state = "pending"
      <4>1. i # n /\ i > n - 1
        BY <2>5, <3>7
      <4>2. items[i] # mesh /\ items[i] \in Meshes
        BY <2>2, <2>4, <3>3, <4>1 DEF InOrder
      <4>3. x.m[items[i]].state = "pending"
        BY <3>2, <4>1 DEF StillPending
      <4> QED BY <3>6, <4>2, <4>3 DEF MeshLoads
    <3>8. StillPending(q, items, last, n)
      BY <3>6, <3>7 DEF StillPending, MeshLoads
    <3> QED BY <3>1, <3>8
  <2>9. ASSUME NEW x \in G[last] PROVE InFrame(x)
    BY <2>5 DEF StillPending
  <2> HIDE DEF G
  <2>10. Climbs("upload", 0, outcomes, items, last, f, G)
    BY <2>7, <2>8 DEF Climbs
  <2>11. f[last] \subseteq G[last]
    BY <2>5, <2>6, <2>10, RunClimbs
  <2> QED BY <2>6, <2>9, <2>11
<1> QED BY <1>1, <1>2

(* A state with the same fields is in the frame.                           *)
LEMMA SameKeeps ==
  ASSUME NEW s, InFrame(s), NEW t, IsSystem(t), t.d = s.d, t.m = s.m, t.r = s.r
  PROVE  InFrame(t)
BY DEF InFrame, FrameHolds

(* processDynamicMeshUpdates: the slot's vertices are in no work.          *)
LEMMA UpdateMeshesKeeps ==
  ASSUME currentFrame \in FrameSlots, NEW s, InFrame(s), NEW posed, NEW t \in {UpdateMeshes(s, posed)}
  PROVE  InFrame(t)
<1>1. IsSystem(s) /\ Clean(s.d) /\ Owned(s.d, s.r, s.m)
  BY DEF InFrame, FrameHolds
<1>2. PICK objects : objects = {MeshMemory(Vertices(mesh, currentFrame)) :
                                mesh \in posed \cap Dynamic \cap In(s, "resident")}
  OBVIOUS
<1>3. PICK d, e : d = s.d /\ e = Rewrite(d, objects)
  OBVIOUS
<1>4. t = [s EXCEPT !.d = e]
  BY <1>2, <1>3 DEF UpdateMeshes
<1>5. objects \subseteq d.held
  <2>1. SUFFICES ASSUME NEW x \in objects PROVE x \in d.held
    OBVIOUS
  <2>2. PICK mesh \in Dynamic \cap In(s, "resident") : x = MeshMemory(Vertices(mesh, currentFrame))
    BY <1>2, <2>1
  <2>3. mesh \in Meshes /\ Loaded(s.m[mesh])
    BY <2>2 DEF In, Loaded
  <2>4. MeshObjects(mesh) \subseteq s.d.held
    BY <1>1, <2>3 DEF Owned, MeshesHold
  <2>5. x \in MeshObjects(mesh)
    BY <2>2 DEF MeshObjects, VertexObjects, VertexSlots, BuffersOf
  <2> QED BY <1>3, <2>4, <2>5
<1>6. objects \cap Busy(d) = {}
  <2>1. ASSUME NEW x \in objects PROVE x \in SlotMemory(currentFrame)
    BY <1>2, <2>1 DEF SlotMemory, BuffersOf
  <2> QED BY <1>3, <2>1, OwnMemoryIdle
<1>7. e = d
  BY <1>1, <1>3, <1>5, <1>6, RewriteIsClean
<1>8. IsSystem(t) /\ t.d = s.d /\ t.m = s.m /\ t.r = s.r
  BY <1>1, <1>3, <1>4, <1>7 DEF IsSystem
<1> QED BY <1>8, SameKeeps

(* Nothing differs but what is prepared.                                   *)
SameButPrepared(s, t) ==
  /\ IsSystem(t) /\ t.d = s.d /\ t.m = s.m
  /\ t.r.shadows = s.r.shadows /\ t.r.ui = s.r.ui /\ t.r.materials = s.r.materials
  /\ t.r.attempted = s.r.attempted

(* What marking a feature as prepared sets.                                *)
LEMMA PreparesIs ==
  ASSUME NEW s, IsSystem(s), NEW what, NEW condition \in BOOLEAN, NEW t \in {Prepares(s, what, condition)}
  PROVE  /\ SameButPrepared(s, t) /\ (what \in t.r.prepared <=> condition)
         /\ \A x : x # what => (x \in t.r.prepared <=> x \in s.r.prepared)
<1>1. PICK p : p = IF condition THEN s.r.prepared \cup {what} ELSE s.r.prepared \ {what}
  OBVIOUS
<1>2. PICK q : q = [s.r EXCEPT !.prepared = p]
  OBVIOUS
<1>3. t = [s EXCEPT !.r = q]
  BY <1>1, <1>2 DEF Prepares
<1>4. DOMAIN s.r = {"shadows", "ui", "materials", "attempted", "prepared"}
  BY DEF IsSystem, IsRenderer, NoRenderer
<1>5. /\ DOMAIN q = DOMAIN s.r /\ q.prepared = p /\ q.shadows = s.r.shadows /\ q.ui = s.r.ui
      /\ q.materials = s.r.materials /\ q.attempted = s.r.attempted
  BY <1>2, <1>4
<1>6. t.r = q /\ t.d = s.d /\ t.m = s.m /\ DOMAIN t = DOMAIN s
  BY <1>3 DEF IsSystem
<1>7. SameButPrepared(s, t)
  BY <1>5, <1>6 DEF SameButPrepared, IsSystem, IsRenderer
<1> QED BY <1>1, <1>5, <1>6, <1>7

(* Marking features keeps the frame.                                       *)
LEMMA SameButPreparedKeeps ==
  ASSUME NEW s, InFrame(s), NEW t, SameButPrepared(s, t)
  PROVE  InFrame(t)
BY DEF InFrame, FrameHolds, Owned, SameButPrepared

(* Pipelines are of a frame's kinds.                                       *)
LEMMA PipelineKindsFrame ==
  /\ PipelineKinds \subseteq FrameKinds /\ PipelineKinds \subseteq KnownKinds
  /\ PipelineKinds \cap ShadowKinds = {} /\ PipelineKinds \cap UiKinds = {} /\ PipelineKinds \cap PrepareKinds = {}
  /\ PipelineKinds \cap AssetKinds = {} /\ PipelineKinds \cap MeshKinds = {}
<1>1. PipelineKinds \subseteq FrameKinds /\ PipelineKinds \subseteq KnownKinds
  BY DEF FrameKinds, KnownKinds
<1> QED BY <1>1, KindsOfPartsDiffer

(* Attempting a pipeline keeps the frame.                                  *)
LEMMA AttemptKeeps ==
  ASSUME currentFrame \in FrameSlots, NEW s, InFrame(s), NEW t, AttemptLeaves(s, t)
  PROVE  InFrame(t)
<1>1. /\ IsSystem(t) /\ Becomes(s.d, t.d, PipelineKinds, Works) /\ PipelinesHold(t.r.attempted, t.d.held)
      /\ t.m = s.m /\ t.r.shadows = s.r.shadows /\ t.r.ui = s.r.ui /\ t.r.materials = s.r.materials
  BY DEF AttemptLeaves, Gains, SameParts
<1>2. Owned(s.d, s.r, s.m) /\ s.r.shadows.device /\ s.r.materials.device
  BY DEF InFrame
<1>3. Owned(t.d, t.r, t.m)
  <2>1. PICK d, r, m, e, q : d = s.d /\ r = s.r /\ m = s.m /\ e = t.d /\ q = t.r
    OBVIOUS
  <2>2. Owned(d, r, m) /\ Becomes(d, e, PipelineKinds, Works) /\ q.shadows = r.shadows /\ q.ui = r.ui
        /\ q.materials = r.materials /\ OneTime \in Works
    BY <1>1, <1>2, <2>1, SlotsAreWorks
  <2>3. Owned(e, q, m)
    BY <2>2, PipelineKindsFrame, OwnedStays
  <2> QED BY <1>1, <2>1, <2>3
<1>4. Becomes(s.d, t.d, PipelineKinds, FrameSlots)
  BY <1>1, SlotsAreWorks, BecomesWider
<1>5. Outlasts(s.m, t.m)
  BY <1>1, OutlastsItself
<1> QED BY <1>1, <1>2, <1>3, <1>4, <1>5, PipelineKindsFrame, FrameKeeps

(* What a frame with shadows, with materials, with reflections needs.      *)
MapsReady(s) ==
  "shadows" \in s.r.prepared => s.r.shadows.coreReady /\ s.r.shadows.resolution # 0
ShadowsReady(s) ==
  /\ MapsReady(s)
  /\ "shadows" \in s.r.prepared => Exists(s.d, "box shadowed") /\ Exists(s.d, "mesh shadowed")

(* Shadow objects are of a frame's kinds.                                  *)
LEMMA ShadowKindsFrame ==
  /\ ShadowKinds \subseteq FrameKinds /\ ShadowKinds \subseteq KnownKinds
  /\ ShadowKinds \cap UiKinds = {} /\ ShadowKinds \cap PrepareKinds = {}
  /\ ShadowKinds \cap AssetKinds = {} /\ ShadowKinds \cap MeshKinds = {} /\ ShadowKinds \cap PipelineKinds = {}
<1>1. ShadowKinds \subseteq FrameKinds /\ ShadowKinds \subseteq KnownKinds
  BY DEF FrameKinds, KnownKinds
<1> QED BY <1>1, KindsOfPartsDiffer

MapsIn(r, v, p, q) == q = [r EXCEPT !.shadows = v, !.prepared = p]

(* Preparing the shadow maps keeps the frame, and the maps are there if so *)
(* marked.                                                                 *)
LEMMA MapsPreparedKeeps ==
  ASSUME currentFrame \in FrameSlots, NEW s, InFrame(s), NEW f, f.resolution \in Nat, NEW t \in MapsPrepared(s, f)
  PROVE  InFrame(t) /\ MapsReady(t)
<1>1. IsSystem(s) /\ Clean(s.d) /\ Owned(s.d, s.r, s.m)
  BY DEF InFrame, FrameHolds
<1>2. PICK d, r, m, shadows, resolution :
        d = s.d /\ r = s.r /\ m = s.m /\ shadows = s.r.shadows /\ resolution = f.resolution
  OBVIOUS
<1>3. PICK o \in PrepareMaps(shadows, d, currentFrame, resolution) :
        t = [d |-> o.d, m |-> m,
             r |-> [r EXCEPT !.shadows = o.s,
                             !.prepared = IF o.ok THEN @ \cup {"shadows"} ELSE @ \ {"shadows"}]]
  BY <1>2 DEF MapsPrepared
<1>4. ShadowsOwn(shadows, Of(ShadowKinds, d.held)) /\ MapUniformMemory(currentFrame) \notin Busy(d) /\ resolution \in Nat
  <2>1. MapUniformMemory(currentFrame) \in SlotMemory(currentFrame)
    BY DEF SlotMemory
  <2> QED BY <1>1, <1>2, <2>1, OwnMemoryIdle DEF Owned
<1>5. ShadowsPrepared(shadows, d, o, resolution)
  <2>1. Clean(d)
    BY <1>1, <1>2
  <2> QED BY <1>3, <1>4, <2>1, PrepareMapsOwns
<1>6. PICK e, v, p : e = o.d /\ v = o.s /\ p = IF o.ok THEN r.prepared \cup {"shadows"} ELSE r.prepared \ {"shadows"}
  OBVIOUS
<1>7. PICK q : MapsIn(r, v, p, q)
  BY DEF MapsIn
<1>8. t = [d |-> e, m |-> m, r |-> q]
  BY <1>3, <1>6, <1>7 DEF MapsIn
<1>9. DOMAIN r = {"shadows", "ui", "materials", "attempted", "prepared"} /\ IsMaterials(r.materials)
  BY <1>1, <1>2 DEF IsSystem, IsRenderer, NoRenderer
<1>10. /\ DOMAIN q = DOMAIN r /\ q.prepared = p /\ q.shadows = v /\ q.ui = r.ui
       /\ q.materials = r.materials /\ q.attempted = r.attempted
  BY <1>7, <1>9 DEF MapsIn
<1>11. t.d = e /\ t.m = m /\ t.r = q /\ DOMAIN t = {"d", "m", "r"}
  BY <1>8
<1>12. IsSystem(t)
  BY <1>9, <1>10, <1>11 DEF IsSystem, IsRenderer, NoRenderer
<1>13. Becomes(d, e, ShadowKinds, Works) /\ ShadowsOwn(v, Of(ShadowKinds, e.held)) /\ v.device = shadows.device
       /\ o.ok \in BOOLEAN /\ (o.ok => v.resolution = resolution /\ v.coreReady /\ resolution # 0)
  BY <1>5, <1>6 DEF ShadowsPrepared
<1>14. Owned(e, q, m)
  <2>1. Owned(d, r, m) /\ OneTime \in Works /\ ShadowsOwn(q.shadows, Of(ShadowKinds, e.held))
    BY <1>1, <1>2, <1>10, <1>13, SlotsAreWorks
  <2> QED BY <1>10, <1>13, <2>1, ShadowKindsFrame, OwnedStays
<1>15. PipelinesHold(q.attempted, e.held)
  <2>1. SameOf(PipelineKinds, d.held, e.held)
    BY <1>13, ShadowKindsFrame, BecomesSame
  <2>2. PICK attempted, held, other : attempted = r.attempted /\ held = d.held /\ other = e.held
    OBVIOUS
  <2>3. PipelinesHold(attempted, held) /\ SameOf(PipelineKinds, held, other)
    BY <1>2, <2>1, <2>2 DEF InFrame, FrameHolds
  <2> QED BY <1>10, <2>2, <2>3, PipelinesSame
<1>16. Becomes(s.d, t.d, ShadowKinds, FrameSlots)
  BY <1>2, <1>11, <1>13, SlotsAreWorks, BecomesWider
<1>17. s.r.shadows.device /\ s.r.materials.device
  BY DEF InFrame
<1>18. Outlasts(s.m, t.m)
  BY <1>2, <1>11, OutlastsItself
<1>19. /\ Owned(t.d, t.r, t.m) /\ PipelinesHold(t.r.attempted, t.d.held) /\ t.r.shadows.device /\ t.r.materials.device
       /\ \A slot \in FrameSlots \ {currentFrame} : t.r.ui.retained[slot] = s.r.ui.retained[slot]
  BY <1>2, <1>10, <1>11, <1>13, <1>14, <1>15, <1>17
<1>20. InFrame(t)
  BY <1>12, <1>16, <1>18, <1>19, ShadowKindsFrame, FrameKeeps
<1>21. MapsReady(t)
  BY <1>6, <1>10, <1>11, <1>13 DEF MapsReady
<1> QED BY <1>20, <1>21

(* Preparing the receivers keeps the frame, and their pipelines are there  *)
(* if so marked.                                                           *)
LEMMA ReceiversKeep ==
  ASSUME currentFrame \in FrameSlots, NEW s, InFrame(s), MapsReady(s), "shadows" \in s.r.prepared, NEW t \in PrepareReceivers(s)
  PROVE  InFrame(t) /\ ShadowsReady(t)
<1>1. PICK u \in Attempt(s, "receivers", CreateReceivers) :
        t \in {Prepares(u, "shadows", Exists(u.d, "box shadowed") /\ Exists(u.d, "mesh shadowed"))}
  BY DEF PrepareReceivers
<1>2. ReceiverLayout \in s.d.held /\ FrameHolds(s)
  <2>1. ShadowsOwn(s.r.shadows, Of(ShadowKinds, s.d.held))
    BY DEF InFrame, Owned
  <2>2. s.r.shadows.coreReady
    BY DEF MapsReady
  <2>3. CoreObjects \subseteq s.d.held
    BY <2>1, <2>2, OwnShadows
  <2> QED BY <2>3 DEF CoreObjects, InFrame
<1>3. AttemptLeaves(s, u)
  BY <1>1, <1>2, ReceiversAttempt
<1>4. InFrame(u) /\ u.r.shadows = s.r.shadows /\ IsSystem(u)
  BY <1>3, AttemptKeeps DEF AttemptLeaves, SameParts
<1>5. PICK condition \in BOOLEAN : condition = (Exists(u.d, "box shadowed") /\ Exists(u.d, "mesh shadowed"))
  OBVIOUS
<1>6. t \in {Prepares(u, "shadows", condition)}
  BY <1>1, <1>5
<1>7. SameButPrepared(u, t) /\ ("shadows" \in t.r.prepared <=> condition)
  BY <1>4, <1>6, PreparesIs
<1>8. InFrame(t)
  BY <1>4, <1>7, SameButPreparedKeeps
<1>9. t.d = u.d /\ t.r.shadows = s.r.shadows
  BY <1>4, <1>7 DEF SameButPrepared
<1>10. ShadowsReady(t)
  BY <1>5, <1>7, <1>9 DEF ShadowsReady, MapsReady
<1> QED BY <1>8, <1>10

(* prepareDirectionalShadows                                               *)
LEMMA PrepareShadowsKeeps ==
  ASSUME currentFrame \in FrameSlots, NEW s, InFrame(s), NEW f, f.resolution \in Nat, NEW t \in PrepareShadows(s, f)
  PROVE  InFrame(t) /\ ShadowsReady(t)
<1>1. PICK u \in MapsPrepared(s, f) : t \in IF "shadows" \in u.r.prepared THEN PrepareReceivers(u) ELSE {u}
  BY DEF PrepareShadows, OnlyIf
<1>2. InFrame(u) /\ MapsReady(u)
  BY <1>1, MapsPreparedKeeps
<1>3. CASE "shadows" \in u.r.prepared
  BY <1>1, <1>2, <1>3, ReceiversKeep
<1>4. CASE "shadows" \notin u.r.prepared
  BY <1>1, <1>2, <1>4 DEF ShadowsReady, MapsReady
<1> QED BY <1>3, <1>4

(* Material objects are of a frame's kinds.                                *)
LEMMA PrepareKindsFrame ==
  /\ PrepareKinds \subseteq FrameKinds /\ PrepareKinds \subseteq KnownKinds
  /\ PrepareKinds \cap ShadowKinds = {} /\ PrepareKinds \cap UiKinds = {}
  /\ PrepareKinds \cap AssetKinds = {} /\ PrepareKinds \cap MeshKinds = {} /\ PrepareKinds \cap PipelineKinds = {}
<1>1. PrepareKinds \subseteq FrameKinds /\ PrepareKinds \subseteq KnownKinds
  BY DEF FrameKinds, KnownKinds
<1> QED BY <1>1, KindsOfPartsDiffer

(* What is prepared of materials before their pipelines are there.         *)
MaterialsSet(s) ==
  /\ "materials" \in s.r.prepared => s.r.materials.ready
  /\ "environment" \notin s.r.prepared
  /\ s.r.materials.prepared => s.r.materials.shows # NoSky

(* Meshes refer to images only once the materials are ready.               *)
LEMMA OwnedImages ==
  ASSUME NEW d, NEW r, NEW m, Owned(d, r, m)
  PROVE  Others(m) \subseteq Contents /\ (~ r.materials.ready => Others(m) = {})
<1>1. MeshTable(m) /\ \A mesh \in Meshes : m[mesh].textured => r.materials.ready
  BY DEF Owned
<1>2. ~ r.materials.ready => Others(m) = {}
  BY <1>1 DEF MeshTable, Others
<1> QED BY <1>1, <1>2, ImagesAreContents

MaterialsIn(r, n, p, q) == q = [r EXCEPT !.materials = n, !.prepared = p]

(* Preparing the materials keeps the frame, and what is marked is there.   *)
LEMMA MaterialsPreparedKeeps ==
  ASSUME currentFrame \in FrameSlots, NEW s, InFrame(s), ShadowsReady(s), Reflects(s.r.materials),
         NEW f, f.sky \in Skies \cup {NoSky}, NEW cooled, NEW t \in MaterialsPrepared(s, f, cooled)
  PROVE  InFrame(t) /\ ShadowsReady(t) /\ MaterialsSet(t)
<1>1. IsSystem(s) /\ Clean(s.d) /\ Owned(s.d, s.r, s.m) /\ s.r.shadows.device /\ s.r.materials.device
  BY DEF InFrame, FrameHolds
<1>2. PICK d, r, m, mat, others :
        d = s.d /\ r = s.r /\ m = s.m /\ mat = s.r.materials /\ others = Others(s.m)
  OBVIOUS
<1>3. PICK o \in PrepareMaterials(mat, d, currentFrame, f.materials, f.sky, cooled, Exists(d, "sky")) :
        t = Prepares([d |-> o.d, m |-> m, r |-> [r EXCEPT !.materials = o.m, !.prepared = @ \ {"environment"}]],
                     "materials", o.ok)
  BY <1>2 DEF MaterialsPrepared
<1>4. /\ MatOwns(mat, d, others) /\ mat.device /\ others \subseteq Contents /\ (~ mat.ready => others = {})
      /\ \A w \in FrameSlots : FrameMemory(currentFrame) \notin d.work[w]
  <2>1. FrameMemory(currentFrame) \in SlotMemory(currentFrame)
    BY DEF SlotMemory
  <2>2. FrameMemory(currentFrame) \notin Busy(d)
    BY <1>2, <2>1, OwnMemoryIdle
  <2>3. \A w \in FrameSlots : FrameMemory(currentFrame) \notin d.work[w]
    BY <2>2, SlotsAreWorks DEF Busy
  <2> QED BY <1>1, <1>2, <2>3, OwnedImages DEF Owned
<1>5. PreparedWith(d, mat, others, o)
  <2>1. PICK wanted, sky, available : wanted = f.materials /\ sky = f.sky /\ available = Exists(d, "sky")
    OBVIOUS
  <2>2. o \in PrepareMaterials(mat, d, currentFrame, wanted, sky, cooled, available) /\ sky \in Skies \cup {NoSky} /\ Clean(d)
    BY <1>1, <1>2, <1>3, <2>1
  <2> QED BY <1>4, <2>2, PrepareMaterialsOwns
<1>6. ReflectsFor(o.m, f.sky)
  <2>1. PICK wanted, sky, available : wanted = f.materials /\ sky = f.sky /\ available = Exists(d, "sky")
    OBVIOUS
  <2>2. o \in PrepareMaterials(mat, d, currentFrame, wanted, sky, cooled, available) /\ Reflects(mat) /\ mat.device
    BY <1>1, <1>2, <1>3, <2>1
  <2>3. ReflectsFor(o.m, sky)
    BY <2>2, PrepareMaterialsReflects
  <2> QED BY <2>1, <2>3
<1>7. PICK e, n, p : e = o.d /\ n = o.m /\ p = r.prepared \ {"environment"}
  OBVIOUS
<1>8. PICK q : MaterialsIn(r, n, p, q)
  BY DEF MaterialsIn
<1>9. PICK u : u = [d |-> e, m |-> m, r |-> q]
  OBVIOUS
<1>10. t \in {Prepares(u, "materials", o.ok)}
  BY <1>3, <1>7, <1>8, <1>9 DEF MaterialsIn
<1>11. DOMAIN r = {"shadows", "ui", "materials", "attempted", "prepared"}
  BY <1>1, <1>2 DEF IsSystem, IsRenderer, NoRenderer
<1>12. /\ DOMAIN q = DOMAIN r /\ q.prepared = p /\ q.shadows = r.shadows /\ q.ui = r.ui
       /\ q.materials = n /\ q.attempted = r.attempted
  BY <1>8, <1>11 DEF MaterialsIn
<1>13. u.d = e /\ u.m = m /\ u.r = q /\ DOMAIN u = {"d", "m", "r"}
  BY <1>9
<1>14. /\ Becomes(d, e, PrepareKinds, FrameSlots) /\ MatOwns(n, e, others) /\ n.device
       /\ (mat.ready => n.ready) /\ o.ok \in BOOLEAN /\ (o.ok => n.ready)
  BY <1>5, <1>7 DEF PreparedWith, Readier
<1>15. IsSystem(u)
  <2>1. IsMaterials(n)
    BY <1>14 DEF MatOwns, MaterialFlags
  <2> QED BY <1>11, <1>12, <1>13, <2>1 DEF IsSystem, IsRenderer, NoRenderer
<1>16. Owned(e, q, m)
  <2>1. Owned(d, r, m) /\ MatOwns(q.materials, e, Others(m)) /\ \A mesh \in Meshes : m[mesh].textured => q.materials.ready
    BY <1>1, <1>2, <1>12, <1>14 DEF Owned
  <2> QED BY <1>12, <1>14, <2>1, PrepareKindsFrame, OwnedStays
<1>17. PipelinesHold(q.attempted, e.held) /\ SameOf(PipelineKinds, d.held, e.held)
  <2>1. SameOf(PipelineKinds, d.held, e.held)
    BY <1>14, PrepareKindsFrame, BecomesSame
  <2>2. PICK attempted, held, other : attempted = r.attempted /\ held = d.held /\ other = e.held
    OBVIOUS
  <2>3. PipelinesHold(attempted, held) /\ SameOf(PipelineKinds, held, other)
    BY <1>2, <2>1, <2>2 DEF InFrame, FrameHolds
  <2> QED BY <1>12, <2>1, <2>2, <2>3, PipelinesSame
<1>18. Becomes(s.d, u.d, PrepareKinds, FrameSlots) /\ Outlasts(s.m, u.m)
  BY <1>2, <1>13, <1>14, OutlastsItself
<1>19. /\ Owned(u.d, u.r, u.m) /\ PipelinesHold(u.r.attempted, u.d.held) /\ u.r.shadows.device /\ u.r.materials.device
       /\ \A slot \in FrameSlots \ {currentFrame} : u.r.ui.retained[slot] = s.r.ui.retained[slot]
  BY <1>1, <1>2, <1>12, <1>13, <1>14, <1>16, <1>17
<1>20. InFrame(u)
  BY <1>15, <1>18, <1>19, PrepareKindsFrame, FrameKeeps
<1>21. /\ SameButPrepared(u, t) /\ ("materials" \in t.r.prepared <=> o.ok)
       /\ \A x : x # "materials" => (x \in t.r.prepared <=> x \in u.r.prepared)
  BY <1>10, <1>14, <1>15, PreparesIs
<1>22. InFrame(t)
  BY <1>20, <1>21, SameButPreparedKeeps
<1>23. t.r.shadows = r.shadows /\ t.d = e /\ t.r.materials = n /\ ("shadows" \in t.r.prepared <=> "shadows" \in r.prepared)
       /\ "environment" \notin t.r.prepared
  BY <1>7, <1>12, <1>13, <1>21 DEF SameButPrepared
<1>24. ShadowsReady(t)
  <2>1. \A name \in {"box shadowed", "mesh shadowed"} : Pipeline(name)[1] \in PipelineKinds
    BY PipelineObjectsAre1 DEF AllPipelines, ReceiverPipelines
  <2>2. \A name \in {"box shadowed", "mesh shadowed"} : Pipeline(name) \in e.held <=> Pipeline(name) \in d.held
    BY <1>17, <2>1 DEF SameOf
  <2> QED BY <1>2, <1>23, <2>2 DEF ShadowsReady, MapsReady, Exists
<1>25. MaterialsSet(t)
  BY <1>6, <1>7, <1>14, <1>21, <1>23 DEF MaterialsSet, ReflectsFor
<1> QED BY <1>22, <1>24, <1>25

(* The pipelines of a feature, and those that were there.                  *)
PairPrepared(s, what, environment, t) ==
  /\ SameParts(s, t) /\ s.d.held \subseteq t.d.held
  /\ \A x : x # what => (x \in t.r.prepared <=> x \in s.r.prepared)
  /\ what \in t.r.prepared =>
       /\ Exists(t.d, MeshPipeline(FALSE, TRUE, environment))
       /\ "shadows" \in t.r.prepared => Exists(t.d, MeshPipeline(TRUE, TRUE, environment))

(* Preparing a pair of material pipelines keeps the frame.                 *)
LEMMA MeshPipelinesKeep ==
  ASSUME currentFrame \in FrameSlots, NEW s, InFrame(s), NEW environment \in BOOLEAN, NEW what, what # "shadows",
         SetLayouts(MeshPipeline(FALSE, TRUE, environment)) \subseteq s.d.held,
         "shadows" \in s.r.prepared => SetLayouts(MeshPipeline(TRUE, TRUE, environment)) \subseteq s.d.held,
         NEW t \in MeshPipelinesFor(s, what, environment)
  PROVE  InFrame(t) /\ PairPrepared(s, what, environment, t)
<1>1. PICK plain, shadowed : plain = MeshPipeline(FALSE, TRUE, environment) /\ shadowed = MeshPipeline(TRUE, TRUE, environment)
  OBVIOUS
<1>2. PICK outcomes : outcomes = OnlyIf(MeshPipelineAttempted(s, FALSE, environment), "shadows",
                                        LAMBDA u : MeshPipelineAttempted(u, TRUE, environment))
  OBVIOUS
<1>22. PICK b \in outcomes :
        t = Prepares(b, what, /\ Exists(b.d, plain)
                              /\ ("shadows" \notin b.r.prepared \/ Exists(b.d, shadowed)))
  BY <1>1, <1>2 DEF MeshPipelinesFor
<1>23. PICK a \in MeshPipelineAttempted(s, FALSE, environment) :
         b \in IF "shadows" \in a.r.prepared THEN MeshPipelineAttempted(a, TRUE, environment) ELSE {a}
  BY <1>2, <1>22 DEF OnlyIf
<1>3. AttemptLeaves(s, a)
  <2>1. FrameHolds(s) /\ SetLayouts(plain) \subseteq s.d.held
    BY <1>1 DEF InFrame
  <2> QED BY <1>1, <1>23, <2>1, MeshPipelineAttempts
<1>4. InFrame(a) /\ SameParts(s, a) /\ a.r.prepared = s.r.prepared /\ s.d.held \subseteq a.d.held
  BY <1>3, AttemptKeeps DEF AttemptLeaves, Gains
<1>5. AttemptLeaves(a, b)
  <2>1. CASE "shadows" \in a.r.prepared
    <3>1. SetLayouts(shadowed) \subseteq a.d.held /\ FrameHolds(a)
      BY <1>1, <1>4, <2>1 DEF InFrame
    <3>2. b \in MeshPipelineAttempted(a, TRUE, environment)
      BY <1>23, <2>1
    <3> QED BY <1>1, <3>1, <3>2, MeshPipelineAttempts
  <2>2. CASE "shadows" \notin a.r.prepared
    <3>1. b = a /\ FrameHolds(a)
      BY <1>23, <1>4, <2>2 DEF InFrame
    <3> QED BY <3>1, NothingAttempted
  <2> QED BY <2>1, <2>2
<1>6. InFrame(b) /\ SameParts(a, b) /\ b.r.prepared = a.r.prepared /\ a.d.held \subseteq b.d.held /\ IsSystem(b)
  BY <1>4, <1>5, AttemptKeeps DEF AttemptLeaves, Gains
<1>7. PICK condition \in BOOLEAN : condition = (/\ Exists(b.d, plain)
                              /\ ("shadows" \notin b.r.prepared \/ Exists(b.d, shadowed)))
  OBVIOUS
<1>8. t \in {Prepares(b, what, condition)}
  BY <1>22, <1>7
<1>9. /\ SameButPrepared(b, t) /\ (what \in t.r.prepared <=> condition)
      /\ \A x : x # what => (x \in t.r.prepared <=> x \in b.r.prepared)
  BY <1>6, <1>8, PreparesIs
<1>10. InFrame(t)
  BY <1>6, <1>9, SameButPreparedKeeps
<1>11. SameParts(s, t) /\ t.d = b.d /\ s.d.held \subseteq t.d.held
  BY <1>4, <1>6, <1>9 DEF SameParts, SameButPrepared
<1>12. PairPrepared(s, what, environment, t)
  BY <1>1, <1>4, <1>6, <1>7, <1>9, <1>11 DEF PairPrepared
<1> QED BY <1>10, <1>12

(* A material upload's kinds are a frame's.                                *)
LEMMA LoadKindsFrame ==
  /\ LoadKinds \subseteq FrameKinds /\ LoadKinds \subseteq KnownKinds
  /\ LoadKinds \cap ShadowKinds = {} /\ LoadKinds \cap UiKinds = {}
  /\ LoadKinds \cap MeshKinds = {} /\ LoadKinds \cap PipelineKinds = {}
<1>1. LoadKinds \subseteq PrepareKinds \cup AssetKinds
  BY DEF LoadKinds, PrepareKinds
<1>2. AssetKinds \subseteq FrameKinds /\ AssetKinds \subseteq KnownKinds
  BY DEF FrameKinds, KnownKinds
<1> QED BY <1>1, <1>2, PrepareKindsFrame, KindsOfPartsDiffer

(* The materials of a mesh were tried.                                     *)
TriedAs(m, mesh, textured, images, n) ==
  n = [m EXCEPT ![mesh].tried = TRUE, ![mesh].textured = textured, ![mesh].images = images]

MayTry(m, mesh, textured, images, n) ==
  /\ MeshTable(m) /\ m[mesh].state = "resident" /\ ~ m[mesh].tried
  /\ textured \in BOOLEAN /\ images \in SUBSET Contents /\ (~ textured => images = {})
  /\ TriedAs(m, mesh, textured, images, n)
TriedLeaves(m, mesh, textured, images, n) ==
  /\ MeshTable(n) /\ Outlasts(m, n) /\ n[mesh].textured = textured
  /\ \A other \in Meshes \ {mesh} : n[other] = m[other]
  /\ \A other \in Meshes : Loaded(n[other]) <=> Loaded(m[other])
  /\ Others(n) = Others(m) \cup images
(* Recording a material upload changes that mesh alone.                    *)
LEMMA TriedChanges ==
  ASSUME NEW m, NEW mesh \in Meshes, NEW textured, NEW images, NEW n, MayTry(m, mesh, textured, images, n)
  PROVE  TriedLeaves(m, mesh, textured, images, n)
<1>0. /\ MeshTable(m) /\ m[mesh].state = "resident" /\ ~ m[mesh].tried
      /\ textured \in BOOLEAN /\ images \in SUBSET Contents /\ (~ textured => images = {})
      /\ TriedAs(m, mesh, textured, images, n)
  BY DEF MayTry
<1>1. m \in [Meshes -> MeshStates] /\ ~ m[mesh].textured /\ m[mesh].images = {}
  BY <1>0 DEF MeshTable
<1>2. m[mesh] \in MeshStates
  BY <1>1
<1>3. PICK x : x = [m[mesh] EXCEPT !.tried = TRUE, !.textured = textured, !.images = images]
  OBVIOUS
<1>4. /\ x \in MeshStates /\ x.state = m[mesh].state /\ x.textured = textured /\ x.images = images /\ x.tried
      /\ x.wait = m[mesh].wait
  BY <1>0, <1>2, <1>3 DEF MeshStates
<1>5. n = [m EXCEPT ![mesh] = x]
  BY <1>0, <1>1, <1>3 DEF TriedAs
<1>6. n[mesh] = x /\ \A other \in Meshes \ {mesh} : n[other] = m[other]
  BY <1>1, <1>5
<1>7. n \in [Meshes -> MeshStates]
  BY <1>1, <1>4, <1>5
<1>8. \A other \in Meshes : Loaded(n[other]) <=> Loaded(m[other])
  BY <1>4, <1>6 DEF Loaded
<1>9. MeshTable(n)
  <2>1. ASSUME NEW other \in Meshes
        PROVE  /\ n[other].textured => n[other].tried /\ Loaded(n[other])
               /\ ~ n[other].textured => n[other].images = {}
    <3>1. CASE other = mesh
      BY <1>0, <1>4, <1>6, <3>1 DEF Loaded
    <3>2. CASE other # mesh
      BY <1>0, <1>6, <3>2 DEF MeshTable
    <3> QED BY <3>1, <3>2
  <2> QED BY <1>7, <2>1 DEF MeshTable
<1>10. Others(n) = Others(m) \cup images
  <2>1. ASSUME NEW c \in Others(n) PROVE c \in Others(m) \cup images
    <3>1. PICK other \in Meshes : c \in n[other].images
      BY <2>1 DEF Others
    <3>2. CASE other = mesh
      BY <1>4, <1>6, <3>1, <3>2
    <3>3. CASE other # mesh
      BY <1>6, <3>1, <3>3 DEF Others
    <3> QED BY <3>2, <3>3
  <2>2. ASSUME NEW c \in Others(m) PROVE c \in Others(n)
    <3>1. PICK other \in Meshes : c \in m[other].images
      BY <2>2 DEF Others
    <3>2. other # mesh
      BY <1>1, <3>1
    <3> QED BY <1>6, <3>1, <3>2 DEF Others
  <2>3. images \subseteq Others(n)
    BY <1>4, <1>6 DEF Others
  <2> QED BY <2>1, <2>2, <2>3
<1>11. Outlasts(m, n)
  <2>1. SUFFICES ASSUME NEW other \in Meshes, NEW turns \in Nat, InUse(m[other], turns)
                 PROVE  /\ InUse(n[other], turns) /\ (m[other].textured => n[other].textured)
                        /\ m[other].images \subseteq n[other].images
    BY DEF Outlasts
  <2>2. CASE other = mesh
    BY <1>0, <1>1, <1>4, <1>6, <2>2 DEF InUse
  <2>3. CASE other # mesh
    BY <1>6, <2>1, <2>3
  <2> QED BY <2>2, <2>3
<1> QED BY <1>4, <1>6, <1>8, <1>9, <1>10, <1>11 DEF TriedLeaves

(* Only the materials of meshes were loaded.                               *)
MaterialsOnly(s, t) ==
  /\ t.r.prepared = s.r.prepared /\ t.r.shadows = s.r.shadows
  /\ OnlyCounts(s.r.materials, t.r.materials)
  /\ SameOf(PipelineKinds, s.d.held, t.d.held)

(* No change is one of the materials alone.                                *)
LEMMA MaterialsOnlyItself ==
  ASSUME NEW s, IsSystem(s)
  PROVE  MaterialsOnly(s, s)
<1>1. OnlyCounts(s.r.materials, s.r.materials)
  BY CountsOnly DEF IsSystem
<1> QED BY <1>1 DEF MaterialsOnly, SameOf

(* Changes of the materials alone compose.                                 *)
LEMMA MaterialsOnlyThen ==
  ASSUME NEW s, NEW t, NEW u, MaterialsOnly(s, t), MaterialsOnly(t, u)
  PROVE  MaterialsOnly(s, u)
BY DEF MaterialsOnly, SameOf, OnlyCounts

(* A mesh without material has no material objects.                        *)
LEMMA AssetIsNew ==
  ASSUME NEW m, NEW held, AssetsHold(m, held), NEW mesh \in Meshes, ~ m[mesh].textured
  PROVE  AssetAll(mesh) \cap held = {}
<1>1. SUFFICES ASSUME NEW x \in held, x \in AssetAll(mesh) PROVE FALSE
  OBVIOUS
<1>2. x[1] \in AssetKinds /\ x[2] = mesh
  BY <1>1, AssetObjectsAre
<1>3. PICK other \in Meshes : m[other].textured /\ x \in AssetAll(other)
  BY <1>1, <1>2 DEF AssetsHold
<1>4. x[2] = other
  BY <1>3, AssetObjectsAre
<1> QED BY <1>2, <1>3, <1>4

(* A material uploaded or taken back: the table holds.                     *)
LEMMA AssetHolds ==
  ASSUME NEW m, NEW d, AssetsHold(m, d.held), NEW mesh \in Meshes, NEW e, SameAssets(d, e, mesh), NEW n,
         \A other \in Meshes \ {mesh} : n[other] = m[other],
         IF n[mesh].textured THEN AssetAll(mesh) \subseteq e.held ELSE AssetAll(mesh) \cap e.held = {}
  PROVE  AssetsHold(n, e.held)
<1>1. ASSUME NEW x \in e.held, x[1] \in AssetKinds
      PROVE  \E other \in Meshes : n[other].textured /\ x \in AssetAll(other)
  <2>1. CASE x \in AssetAll(mesh)
    BY <1>1, <2>1
  <2>2. CASE x \notin AssetAll(mesh)
    <3>1. x \in d.held
      BY <1>1, <2>2 DEF SameAssets
    <3>2. PICK other \in Meshes : m[other].textured /\ x \in AssetAll(other)
      BY <1>1, <3>1 DEF AssetsHold
    <3>3. n[other] = m[other]
      BY <2>2, <3>2
    <3> QED BY <3>2, <3>3
  <2> QED BY <2>1, <2>2
<1>2. ASSUME NEW other \in Meshes, n[other].textured, NEW x \in AssetAll(other) PROVE x \in e.held
  <2>1. CASE other = mesh
    BY <1>2, <2>1
  <2>2. CASE other # mesh
    <3>1. x \in d.held
      BY <1>2, <2>2 DEF AssetsHold
    <3>2. x[1] \in AssetKinds /\ x \notin AssetAll(mesh)
      BY <1>2, <2>2, AssetObjectsAre, AssetsDiffer
    <3> QED BY <3>1, <3>2 DEF SameAssets
  <2> QED BY <2>1, <2>2
<1> QED BY <1>1, <1>2 DEF AssetsHold

MaterialsNow(r, k, q) == q = [r EXCEPT !.materials = k]
(* What setting the materials sets in the renderer.                        *)
LEMMA MaterialsNowFields ==
  ASSUME NEW r, IsRenderer(r), NEW k, NEW q, MaterialsNow(r, k, q)
  PROVE  /\ IsRenderer(q) /\ q.shadows = r.shadows /\ q.ui = r.ui /\ q.materials = k /\ q.attempted = r.attempted
         /\ q.prepared = r.prepared
BY DEF MaterialsNow, IsRenderer, NoRenderer

(* uploadAsset keeps the frame.                                            *)
LEMMA AssetUploadKeeps ==
  ASSUME currentFrame \in FrameSlots, NEW s, InFrame(s), NEW mesh \in Meshes, s.m[mesh].state = "resident",
         ~ s.m[mesh].tried, NEW o \in UploadAsset(s.r.materials, s.d, mesh, Maps[mesh]), NEW n,
         TriedAs(s.m, mesh, o.ok, o.images, n), NEW t, {"d", "r", "m"} \subseteq DOMAIN t, t.d = o.d, t.m = n,
         MaterialsNow(s.r, o.m, t.r)
  PROVE  InFrame(t) /\ MaterialsOnly(s, t)
<1>1. /\ IsSystem(s) /\ Clean(s.d) /\ Owned(s.d, s.r, s.m) /\ s.r.shadows.device /\ s.r.materials.device
      /\ PipelinesHold(s.r.attempted, s.d.held)
  BY DEF InFrame, FrameHolds
<1>2. PICK d, r, m, mat, others, maps, e, q :
        /\ d = s.d /\ r = s.r /\ m = s.m /\ mat = s.r.materials /\ others = Others(s.m) /\ maps = Maps[mesh]
        /\ e = o.d /\ q = t.r
  OBVIOUS
<1>3. MeshTable(m) /\ ~ m[mesh].textured /\ AssetsHold(m, d.held) /\ MeshesHold(m, d.held) /\ MatOwns(mat, d, others)
  BY <1>1, <1>2 DEF Owned, MeshTable
<1>4. AssetUploaded(d, mat, mesh, others, o)
  <2>1. others \subseteq Contents
    BY <1>1, <1>2, OwnedImages
  <2>2. AssetAll(mesh) \cap d.held = {}
    BY <1>3, AssetIsNew
  <2>3. maps \in Seq(Contents)
    BY <1>2, ResourcesAssumption
  <2>4. o \in UploadAsset(mat, d, mesh, maps) /\ Clean(d) /\ mat.device
    BY <1>1, <1>2
  <2> QED BY <1>3, <2>1, <2>2, <2>3, <2>4, UploadAssetOwns
<1>5. /\ Becomes(d, e, LoadKinds, FrameSlots) /\ SameAssets(d, e, mesh) /\ OnlyCounts(mat, o.m)
      /\ o.ok \in BOOLEAN /\ o.images \subseteq Contents /\ MatOwns(o.m, e, others \cup o.images)
      /\ IF o.ok THEN AssetAll(mesh) \subseteq e.held /\ mat.ready
         ELSE AssetAll(mesh) \cap e.held = {} /\ o.images = {}
  BY <1>2, <1>4 DEF AssetUploaded
<1>6. /\ MeshTable(n) /\ Outlasts(m, n) /\ n[mesh].textured = o.ok
      /\ \A other \in Meshes \ {mesh} : n[other] = m[other]
      /\ \A other \in Meshes : Loaded(n[other]) <=> Loaded(m[other])
      /\ Others(n) = others \cup o.images
  <2>1. PICK textured, images : textured = o.ok /\ images = o.images
    OBVIOUS
  <2>2. MayTry(m, mesh, textured, images, n)
    BY <1>2, <1>3, <1>5, <2>1 DEF MayTry
  <2>3. TriedLeaves(m, mesh, textured, images, n)
    BY <2>2, TriedChanges
  <2> QED BY <1>2, <2>1, <2>3 DEF TriedLeaves
<1>7. /\ IsRenderer(q) /\ q.shadows = r.shadows /\ q.ui = r.ui /\ q.materials = o.m /\ q.attempted = r.attempted
      /\ q.prepared = r.prepared
  <2>1. IsRenderer(r) /\ MaterialsNow(r, o.m, q)
    BY <1>1, <1>2 DEF IsSystem
  <2> QED BY <2>1, MaterialsNowFields
<1>8. IsSystem(t) /\ t.d = e /\ t.r = q /\ t.m = n
  BY <1>2, <1>5, <1>7 DEF IsSystem, OnlyCounts
<1>9. MeshesHold(n, e.held)
  <2>1. SameOf(MeshKinds, d.held, e.held)
    BY <1>5, LoadKindsFrame, BecomesSame
  <2>2. PICK held, other : held = d.held /\ other = e.held
    OBVIOUS
  <2>3. MeshesHold(m, other)
    BY <1>3, <2>1, <2>2, MeshesSame
  <2>4. MeshesHold(n, other)
    BY <1>6, <2>3 DEF MeshesHold
  <2> QED BY <2>2, <2>4
<1>10. AssetsHold(n, e.held)
  BY <1>3, <1>5, <1>6, AssetHolds
<1>11. \A other \in Meshes : n[other].textured => q.materials.ready
  <2>1. \A other \in Meshes : m[other].textured => mat.ready
    BY <1>1, <1>2 DEF Owned
  <2> QED BY <1>5, <1>6, <1>7, <2>1 DEF OnlyCounts
<1>12. Owned(e, q, n)
  <2>1. Owned(d, r, m) /\ MatOwns(q.materials, e, Others(n))
    BY <1>1, <1>2, <1>5, <1>6, <1>7
  <2>2. /\ LoadKinds \subseteq KnownKinds /\ LoadKinds \cap ShadowKinds = {} /\ LoadKinds \cap UiKinds = {}
        /\ q.shadows = r.shadows /\ q.ui = r.ui
    BY <1>7, LoadKindsFrame
  <2>3. Becomes(d, e, LoadKinds, FrameSlots) /\ MeshTable(n)
    BY <1>5, <1>6
  <2> QED BY <1>9, <1>10, <1>11, <2>1, <2>2, <2>3, OwnedStays
<1>13. PipelinesHold(q.attempted, e.held) /\ SameOf(PipelineKinds, d.held, e.held)
  <2>1. SameOf(PipelineKinds, d.held, e.held)
    BY <1>5, LoadKindsFrame, BecomesSame
  <2>2. PICK attempted, held, other : attempted = r.attempted /\ held = d.held /\ other = e.held
    OBVIOUS
  <2>3. PipelinesHold(attempted, held) /\ SameOf(PipelineKinds, held, other)
    BY <1>1, <1>2, <2>1, <2>2
  <2>4. PipelinesHold(attempted, other)
    BY <2>3, PipelinesSame
  <2> QED BY <1>7, <2>1, <2>2, <2>4
<1>14. Becomes(s.d, t.d, LoadKinds, FrameSlots) /\ Outlasts(s.m, t.m)
  BY <1>2, <1>5, <1>6, <1>8
<1>15. /\ Owned(t.d, t.r, t.m) /\ PipelinesHold(t.r.attempted, t.d.held) /\ t.r.shadows.device /\ t.r.materials.device
       /\ \A slot \in FrameSlots \ {currentFrame} : t.r.ui.retained[slot] = s.r.ui.retained[slot]
  BY <1>1, <1>2, <1>5, <1>7, <1>8, <1>12, <1>13 DEF OnlyCounts
<1>16. InFrame(t)
  BY <1>8, <1>14, <1>15, LoadKindsFrame, FrameKeeps
<1> QED BY <1>2, <1>5, <1>7, <1>8, <1>13, <1>16 DEF MaterialsOnly

(* The material of a drawn mesh is tried once and keeps the frame.         *)
LEMMA MaterialUploadedKeeps ==
  ASSUME currentFrame \in FrameSlots, NEW s, InFrame(s), NEW mesh, NEW t \in MaterialUploaded(s, mesh)
  PROVE  InFrame(t) /\ MaterialsOnly(s, t)
<1>1. CASE s.stop \/ mesh \notin In(s, "resident") \/ s.m[mesh].tried
  <2>1. t = s
    BY <1>1 DEF MaterialUploaded
  <2>2. IsSystem(s)
    BY DEF InFrame, FrameHolds
  <2> QED BY <2>1, <2>2, MaterialsOnlyItself
<1>2. CASE ~ (s.stop \/ mesh \notin In(s, "resident") \/ s.m[mesh].tried)
  <2>1. mesh \in Meshes /\ s.m[mesh].state = "resident" /\ ~ s.m[mesh].tried
    BY <1>2 DEF In
  <2>2. PICK o \in UploadAsset(s.r.materials, s.d, mesh, Maps[mesh]) :
          t = [d |-> o.d, r |-> [s.r EXCEPT !.materials = o.m], stop |-> ~ o.ok,
               m |-> [s.m EXCEPT ![mesh].tried = TRUE, ![mesh].textured = o.ok, ![mesh].images = o.images]]
    BY <1>2 DEF MaterialUploaded
  <2>3. PICK n : TriedAs(s.m, mesh, o.ok, o.images, n)
    BY DEF TriedAs
  <2>4. PICK q : MaterialsNow(s.r, o.m, q)
    BY DEF MaterialsNow
  <2>5. PICK stop : stop = ~ o.ok
    OBVIOUS
  <2>6. t = [d |-> o.d, r |-> q, stop |-> stop, m |-> n]
    BY <2>2, <2>3, <2>4, <2>5 DEF TriedAs, MaterialsNow
  <2>7. {"d", "r", "m"} \subseteq DOMAIN t /\ t.d = o.d /\ t.m = n /\ t.r = q
    BY <2>6
  <2>8. MaterialsNow(s.r, o.m, t.r)
    BY <2>4, <2>7
  <2> QED BY <2>1, <2>2, <2>3, <2>7, <2>8, AssetUploadKeeps
<1> QED BY <1>1, <1>2

(* uploadMaterials of the meshes a frame draws                             *)
LEMMA UploadMaterialsKeeps ==
  ASSUME currentFrame \in FrameSlots, NEW s, InFrame(s), NEW draws, Len(draws) \in Nat, NEW t \in UploadMaterials(s, draws)
  PROVE  InFrame(t) /\ MaterialsOnly(s, t)
<1>1. PICK start, last : start = [d |-> s.d, r |-> s.r, m |-> s.m, stop |-> FALSE] /\ last = Len(draws)
  OBVIOUS
<1>2. PICK v : v \in InTurn({start}, draws, MaterialUploaded) /\ t = [d |-> v.d, r |-> v.r, m |-> v.m]
  BY <1>1 DEF UploadMaterials
<1>3. PICK f : IsRun(f, "materials", 0, {start}, draws, last) /\ v \in f[last]
  BY <1>1, <1>2, MaterialsRun
<1>4. IsSystem(s)
  BY DEF InFrame, FrameHolds
<1>5. start.d = s.d /\ start.r = s.r /\ start.m = s.m /\ IsSystem(start)
  BY <1>1, <1>4 DEF IsSystem
<1> DEFINE G == {x \in Reached(f, last) : InFrame(x) /\ MaterialsOnly(s, x)}
<1>6. \A x \in {start} \cap Reached(f, last) : x \in G
  <2>1. InFrame(start)
    BY <1>5, SameKeeps
  <2>2. MaterialsOnly(s, start)
    <3>1. MaterialsOnly(s, s)
      BY <1>4, MaterialsOnlyItself
    <3> QED BY <1>5, <3>1 DEF MaterialsOnly
  <2> QED BY <2>1, <2>2
<1>7. ASSUME NEW n \in 1 .. last, NEW x \in f[n - 1] \cap G, NEW q \in Stage("materials", 0, x, draws[n]) \cap Reached(f, last)
      PROVE  q \in G
  <2>1. PICK mesh : mesh = draws[n]
    OBVIOUS
  <2>2. q \in MaterialUploaded(x, mesh)
    BY <1>7, <2>1 DEF Stage
  <2>3. InFrame(q) /\ MaterialsOnly(x, q)
    BY <2>2, MaterialUploadedKeeps
  <2>4. MaterialsOnly(s, q)
    BY <2>3, MaterialsOnlyThen
  <2> QED BY <2>3, <2>4
<1> HIDE DEF G
<1>8. f[last] \subseteq G
  BY <1>1, <1>3, <1>6, <1>7, RunKeeps
<1>9. InFrame(v) /\ MaterialsOnly(s, v)
  BY <1>3, <1>8 DEF G
<1>10. t.d = v.d /\ t.r = v.r /\ t.m = v.m /\ IsSystem(t)
  <2>1. IsSystem(v)
    BY <1>9 DEF InFrame, FrameHolds
  <2> QED BY <1>2, <2>1 DEF IsSystem
<1>11. InFrame(t)
  BY <1>9, <1>10, SameKeeps
<1> QED BY <1>9, <1>10, <1>11 DEF MaterialsOnly

-----------------------------------------------------------------------------
(* What a frame with materials, with reflections needs.                    *)
PairThere(s, environment) ==
  /\ Exists(s.d, MeshPipeline(FALSE, TRUE, environment))
  /\ "shadows" \in s.r.prepared => Exists(s.d, MeshPipeline(TRUE, TRUE, environment))
MaterialsReady(s) ==
  "materials" \in s.r.prepared => s.r.materials.ready /\ PairThere(s, FALSE)
EnvironmentReady(s) ==
  "environment" \in s.r.prepared => s.r.materials.shows # NoSky /\ PairThere(s, TRUE)
FrameReady(s) ==
  InFrame(s) /\ ShadowsReady(s) /\ MaterialsReady(s) /\ EnvironmentReady(s)

(* Nothing changed that decides about what a frame needs.                  *)
Leaves(s, t) ==
  /\ t.r.prepared = s.r.prepared /\ t.r.shadows = s.r.shadows
  /\ t.r.materials.ready = s.r.materials.ready /\ t.r.materials.shows = s.r.materials.shows
  /\ SameOf(PipelineKinds, s.d.held, t.d.held)

(* The names of the material pipelines.                                    *)
LEMMA MeshPipelineNames ==
  \A shadowed \in BOOLEAN, environment \in BOOLEAN : MeshPipeline(shadowed, TRUE, environment) \in AllPipelines
BY DEF MeshPipeline, AllPipelines, MeshPipelines

(* Pipelines stay when no pipeline object changes.                         *)
LEMMA PipelinesStay ==
  ASSUME NEW held, NEW other, SameOf(PipelineKinds, held, other)
  PROVE  \A name \in AllPipelines : Pipeline(name) \in held => Pipeline(name) \in other
<1>1. SUFFICES ASSUME NEW name \in AllPipelines, Pipeline(name) \in held PROVE Pipeline(name) \in other
  OBVIOUS
<1>2. Pipeline(name)[1] \in PipelineKinds
  BY PipelineObjectsAre1
<1> QED BY <1>1, <1>2 DEF SameOf

(* A frame stays ready when what it is marked with stays.                  *)
LEMMA ReadyStays ==
  ASSUME NEW s, FrameReady(s), NEW t, InFrame(t), Leaves(s, t)
  PROVE  FrameReady(t)
<1>1. \A name \in AllPipelines : Exists(s.d, name) => Exists(t.d, name)
  <2>1. PICK held, other : held = s.d.held /\ other = t.d.held
    OBVIOUS
  <2>2. \A name \in AllPipelines : Pipeline(name) \in held => Pipeline(name) \in other
    BY <2>1, PipelinesStay DEF Leaves
  <2> QED BY <2>1, <2>2 DEF Exists
<1>2. "box shadowed" \in AllPipelines /\ "mesh shadowed" \in AllPipelines
  BY DEF AllPipelines, ReceiverPipelines
<1>3. ShadowsReady(t)
  BY <1>1, <1>2 DEF FrameReady, ShadowsReady, MapsReady, Leaves
<1>4. \A environment \in BOOLEAN : PairThere(s, environment) => PairThere(t, environment)
  BY <1>1, MeshPipelineNames DEF PairThere, Leaves
<1> QED BY <1>3, <1>4 DEF FrameReady, MaterialsReady, EnvironmentReady, Leaves

(* The descriptor set layouts that the pipelines of meshes are made from.  *)
LEMMA PairLayouts ==
  /\ SetLayouts(MeshPipeline(FALSE, TRUE, FALSE)) \subseteq MaterialsCore
  /\ SetLayouts(MeshPipeline(TRUE, TRUE, FALSE)) \subseteq MaterialsCore \cup CoreObjects
  /\ SetLayouts(MeshPipeline(FALSE, TRUE, TRUE)) \subseteq MaterialsCore \cup EnvironmentAll
  /\ SetLayouts(MeshPipeline(TRUE, TRUE, TRUE)) \subseteq MaterialsCore \cup EnvironmentAll \cup CoreObjects
<1>1. /\ MeshPipeline(FALSE, TRUE, FALSE) = "mesh textured" /\ MeshPipeline(TRUE, TRUE, FALSE) = "mesh textured shadowed"
      /\ MeshPipeline(FALSE, TRUE, TRUE) = "mesh environment" /\ MeshPipeline(TRUE, TRUE, TRUE) = "mesh environment shadowed"
  BY DEF MeshPipeline
<1>2. EmptyLayout \in MaterialsCore /\ MaterialLayout \in MaterialsCore
  BY DEF MaterialsCore
<1>3. ReceiverLayout \in CoreObjects /\ EnvironmentLayout \in EnvironmentAll
  BY DEF CoreObjects, EnvironmentAll
<1>4. SetLayouts("mesh textured") \subseteq {EmptyLayout, MaterialLayout}
  BY DEF SetLayouts
<1>5. SetLayouts("mesh textured shadowed") \subseteq {ReceiverLayout, MaterialLayout}
  BY DEF SetLayouts
<1>6. SetLayouts("mesh environment") \subseteq {EmptyLayout, MaterialLayout, EnvironmentLayout}
  BY DEF SetLayouts
<1>7. SetLayouts("mesh environment shadowed") \subseteq {ReceiverLayout, MaterialLayout, EnvironmentLayout}
  BY DEF SetLayouts
<1>8. SetLayouts(MeshPipeline(FALSE, TRUE, FALSE)) \subseteq MaterialsCore
  BY <1>1, <1>2, <1>4
<1>9. SetLayouts(MeshPipeline(TRUE, TRUE, FALSE)) \subseteq MaterialsCore \cup CoreObjects
  BY <1>1, <1>2, <1>3, <1>5
<1>10. SetLayouts(MeshPipeline(FALSE, TRUE, TRUE)) \subseteq MaterialsCore \cup EnvironmentAll
  BY <1>1, <1>2, <1>3, <1>6
<1>11. SetLayouts(MeshPipeline(TRUE, TRUE, TRUE)) \subseteq MaterialsCore \cup EnvironmentAll \cup CoreObjects
  BY <1>1, <1>2, <1>3, <1>7
<1> QED BY <1>8, <1>9, <1>10, <1>11

(* The set layouts of a pair of pipelines exist when its features are      *)
(* prepared.                                                               *)
LEMMA PairMayBeMade ==
  ASSUME NEW d, NEW r, NEW m, Owned(d, r, m), r.materials.ready, NEW environment \in BOOLEAN,
         environment => r.materials.shows # NoSky
  PROVE  /\ SetLayouts(MeshPipeline(FALSE, TRUE, environment)) \subseteq d.held
         /\ r.shadows.coreReady => SetLayouts(MeshPipeline(TRUE, TRUE, environment)) \subseteq d.held
<1>1. MaterialsCore \subseteq d.held /\ (r.materials.shows # NoSky => EnvironmentAll \subseteq d.held)
  BY DEF Owned, MatOwns, CoreHolds, EnvironmentHolds
<1>2. r.shadows.coreReady => CoreObjects \subseteq d.held
  <2>1. PICK s, held : s = r.shadows /\ held = d.held
    OBVIOUS
  <2>2. ShadowsOwn(s, Of(ShadowKinds, held))
    BY <2>1 DEF Owned
  <2> QED BY <2>1, <2>2, OwnShadows
<1>3. CASE environment = FALSE
  BY <1>1, <1>2, <1>3, PairLayouts
<1>4. CASE environment = TRUE
  BY <1>1, <1>2, <1>4, PairLayouts
<1> QED BY <1>3, <1>4

(* Pipelines that are there stay while others are made.                    *)
LEMMA MoreIsReady ==
  ASSUME NEW s, NEW t, SameParts(s, t), s.d.held \subseteq t.d.held,
         "shadows" \in t.r.prepared <=> "shadows" \in s.r.prepared
  PROVE  /\ ShadowsReady(s) => ShadowsReady(t)
         /\ \A environment : PairThere(s, environment) => PairThere(t, environment)
<1>1. \A name : Exists(s.d, name) => Exists(t.d, name)
  BY DEF Exists
<1>2. ShadowsReady(s) => ShadowsReady(t)
  BY <1>1 DEF ShadowsReady, MapsReady, SameParts
<1>3. \A environment : PairThere(s, environment) => PairThere(t, environment)
  BY <1>1 DEF PairThere
<1> QED BY <1>2, <1>3

(* Before and after the pipelines for materials are prepared.              *)
MaterialsBegin(s) == InFrame(s) /\ ShadowsReady(s) /\ MaterialsSet(s)
MaterialsPair(s) == MaterialsBegin(s) /\ MaterialsReady(s)

(* The pair of pipelines for materials.                                    *)
LEMMA MaterialPipelinesKeep ==
  ASSUME currentFrame \in FrameSlots, NEW s, MaterialsBegin(s), "materials" \in s.r.prepared,
         NEW t \in MeshPipelinesFor(s, "materials", FALSE)
  PROVE  MaterialsPair(t)
<1>1. InFrame(s) /\ ShadowsReady(s) /\ MaterialsSet(s) /\ s.r.materials.ready
  BY DEF MaterialsBegin, MaterialsSet
<1>2. /\ SetLayouts(MeshPipeline(FALSE, TRUE, FALSE)) \subseteq s.d.held
      /\ "shadows" \in s.r.prepared => SetLayouts(MeshPipeline(TRUE, TRUE, FALSE)) \subseteq s.d.held
  <2>1. PICK d, r, m, environment : d = s.d /\ r = s.r /\ m = s.m /\ environment = FALSE
    OBVIOUS
  <2>2. Owned(d, r, m) /\ r.materials.ready /\ environment \in BOOLEAN /\ (environment => r.materials.shows # NoSky)
    BY <1>1, <2>1 DEF InFrame
  <2>3. /\ SetLayouts(MeshPipeline(FALSE, TRUE, environment)) \subseteq d.held
        /\ r.shadows.coreReady => SetLayouts(MeshPipeline(TRUE, TRUE, environment)) \subseteq d.held
    BY <2>2, PairMayBeMade
  <2> QED BY <1>1, <2>1, <2>3 DEF ShadowsReady, MapsReady
<1>3. PICK what, environment : what = "materials" /\ environment = FALSE
  OBVIOUS
<1>4. InFrame(t) /\ PairPrepared(s, what, environment, t)
  <2>1. /\ SetLayouts(MeshPipeline(FALSE, TRUE, environment)) \subseteq s.d.held
        /\ "shadows" \in s.r.prepared => SetLayouts(MeshPipeline(TRUE, TRUE, environment)) \subseteq s.d.held
        /\ environment \in BOOLEAN /\ what # "shadows" /\ t \in MeshPipelinesFor(s, what, environment)
    BY <1>2, <1>3
  <2> QED BY <1>1, <2>1, MeshPipelinesKeep
<1>5. /\ SameParts(s, t) /\ s.d.held \subseteq t.d.held
      /\ \A x : x # "materials" => (x \in t.r.prepared <=> x \in s.r.prepared)
      /\ "materials" \in t.r.prepared => PairThere(t, FALSE)
  BY <1>3, <1>4 DEF PairPrepared, PairThere
<1>6. ("shadows" \in t.r.prepared <=> "shadows" \in s.r.prepared) /\ ("environment" \in t.r.prepared <=> "environment" \in s.r.prepared)
  BY <1>5
<1>7. ShadowsReady(t)
  BY <1>1, <1>5, <1>6, MoreIsReady
<1>8. MaterialsSet(t) /\ MaterialsReady(t)
  BY <1>1, <1>5, <1>6 DEF MaterialsSet, MaterialsReady, SameParts
<1> QED BY <1>4, <1>7, <1>8 DEF MaterialsPair, MaterialsBegin

(* The pair of pipelines for reflections completes a frame.                *)
LEMMA ReflectionsKeep ==
  ASSUME currentFrame \in FrameSlots, NEW s, MaterialsPair(s), "materials" \in s.r.prepared, NEW t \in PrepareReflections(s)
  PROVE  FrameReady(t)
<1>1. InFrame(s) /\ ShadowsReady(s) /\ MaterialsSet(s) /\ MaterialsReady(s) /\ s.r.materials.ready
  BY DEF MaterialsPair, MaterialsBegin, MaterialsSet
<1>2. CASE ~ s.r.materials.prepared
  BY <1>1, <1>2 DEF PrepareReflections, FrameReady, EnvironmentReady, MaterialsSet
<1>3. CASE s.r.materials.prepared
  <2>1. s.r.materials.shows # NoSky /\ t \in MeshPipelinesFor(s, "environment", TRUE)
    BY <1>1, <1>3 DEF PrepareReflections, MaterialsSet
  <2>2. /\ SetLayouts(MeshPipeline(FALSE, TRUE, TRUE)) \subseteq s.d.held
        /\ "shadows" \in s.r.prepared => SetLayouts(MeshPipeline(TRUE, TRUE, TRUE)) \subseteq s.d.held
    <3>1. PICK d, r, m, environment : d = s.d /\ r = s.r /\ m = s.m /\ environment = TRUE
      OBVIOUS
    <3>2. Owned(d, r, m) /\ r.materials.ready /\ environment \in BOOLEAN /\ (environment => r.materials.shows # NoSky)
      BY <1>1, <2>1, <3>1 DEF InFrame
    <3>3. /\ SetLayouts(MeshPipeline(FALSE, TRUE, environment)) \subseteq d.held
          /\ r.shadows.coreReady => SetLayouts(MeshPipeline(TRUE, TRUE, environment)) \subseteq d.held
      BY <3>2, PairMayBeMade
    <3> QED BY <1>1, <3>1, <3>3 DEF ShadowsReady, MapsReady
  <2>3. PICK what, environment : what = "environment" /\ environment = TRUE
    OBVIOUS
  <2>4. InFrame(t) /\ PairPrepared(s, what, environment, t)
    <3>1. /\ SetLayouts(MeshPipeline(FALSE, TRUE, environment)) \subseteq s.d.held
          /\ "shadows" \in s.r.prepared => SetLayouts(MeshPipeline(TRUE, TRUE, environment)) \subseteq s.d.held
          /\ environment \in BOOLEAN /\ what # "shadows" /\ t \in MeshPipelinesFor(s, what, environment)
      BY <2>1, <2>2, <2>3
    <3> QED BY <1>1, <3>1, MeshPipelinesKeep
  <2>5. /\ SameParts(s, t) /\ s.d.held \subseteq t.d.held
        /\ \A x : x # "environment" => (x \in t.r.prepared <=> x \in s.r.prepared)
        /\ "environment" \in t.r.prepared => PairThere(t, TRUE)
    BY <2>3, <2>4 DEF PairPrepared, PairThere
  <2>6. ("shadows" \in t.r.prepared <=> "shadows" \in s.r.prepared) /\ ("materials" \in t.r.prepared <=> "materials" \in s.r.prepared)
    BY <2>5
  <2>7. ShadowsReady(t) /\ (PairThere(s, FALSE) => PairThere(t, FALSE))
    BY <1>1, <2>5, <2>6, MoreIsReady
  <2>8. MaterialsReady(t) /\ EnvironmentReady(t)
    BY <1>1, <2>1, <2>5, <2>6, <2>7 DEF MaterialsReady, EnvironmentReady, SameParts
  <2> QED BY <2>4, <2>7, <2>8 DEF FrameReady
<1> QED BY <1>2, <1>3

(* prepareMaterialTextures                                                 *)
LEMMA PrepareMaterialTexturesKeeps ==
  ASSUME currentFrame \in FrameSlots, NEW s, InFrame(s), ShadowsReady(s), Reflects(s.r.materials),
         NEW f, f.sky \in Skies \cup {NoSky}, Len(f.draws) \in Nat, NEW cooled,
         NEW t \in PrepareMaterialTextures(s, f, cooled)
  PROVE  FrameReady(t)
<1>1. PICK first : first = MaterialsPrepared(s, f, cooled)
  OBVIOUS
<1>2. PICK second : second = OnlyIf(first, "materials", LAMBDA u : MeshPipelinesFor(u, "materials", FALSE))
  OBVIOUS
<1>3. PICK third : third = OnlyIf(second, "materials", PrepareReflections)
  OBVIOUS
<1>4. t \in OnlyIf(third, "materials", LAMBDA u : UploadMaterials(u, f.draws))
  BY <1>1, <1>2, <1>3 DEF PrepareMaterialTextures
<1>5. PICK c \in third : IF "materials" \in c.r.prepared THEN t \in UploadMaterials(c, f.draws) ELSE t = c
  BY <1>4 DEF OnlyIf
<1>6. PICK b \in second : IF "materials" \in b.r.prepared THEN c \in PrepareReflections(b) ELSE c = b
  BY <1>3 DEF OnlyIf
<1>7. PICK a \in first : IF "materials" \in a.r.prepared THEN b \in MeshPipelinesFor(a, "materials", FALSE) ELSE b = a
  BY <1>2 DEF OnlyIf
<1>8. MaterialsBegin(a)
  BY <1>1, MaterialsPreparedKeeps DEF MaterialsBegin
<1>9. MaterialsPair(b)
  <2>1. CASE "materials" \in a.r.prepared
    BY <1>7, <1>8, <2>1, MaterialPipelinesKeep
  <2>2. CASE "materials" \notin a.r.prepared
    BY <1>7, <1>8, <2>2 DEF MaterialsPair, MaterialsReady
  <2> QED BY <2>1, <2>2
<1>10. FrameReady(c)
  <2>1. CASE "materials" \in b.r.prepared
    BY <1>6, <1>9, <2>1, ReflectionsKeep
  <2>2. CASE "materials" \notin b.r.prepared
    BY <1>6, <1>9, <2>2 DEF MaterialsPair, MaterialsBegin, MaterialsSet, FrameReady, EnvironmentReady
  <2> QED BY <2>1, <2>2
<1>11. CASE "materials" \in c.r.prepared
  <2>1. PICK draws : draws = f.draws
    OBVIOUS
  <2>2. t \in UploadMaterials(c, draws) /\ Len(draws) \in Nat /\ InFrame(c)
    BY <1>5, <1>10, <1>11, <2>1 DEF FrameReady
  <2>3. InFrame(t) /\ MaterialsOnly(c, t)
    BY <2>2, UploadMaterialsKeeps
  <2>4. Leaves(c, t)
    BY <2>3 DEF MaterialsOnly, Leaves, OnlyCounts
  <2> QED BY <1>10, <2>3, <2>4, ReadyStays
<1>12. CASE "materials" \notin c.r.prepared
  BY <1>5, <1>10, <1>12
<1> QED BY <1>11, <1>12

(* Interface objects are of a frame's kinds.                               *)
LEMMA UiKindsFrame ==
  /\ UiKinds \subseteq FrameKinds /\ UiKinds \subseteq KnownKinds
  /\ UiKinds \cap ShadowKinds = {} /\ UiKinds \cap PrepareKinds = {}
  /\ UiKinds \cap AssetKinds = {} /\ UiKinds \cap MeshKinds = {} /\ UiKinds \cap PipelineKinds = {}
<1>1. UiKinds \subseteq FrameKinds /\ UiKinds \subseteq KnownKinds
  BY DEF FrameKinds, KnownKinds
<1> QED BY <1>1, KindsOfPartsDiffer

(* Interface objects are no pixels of materials.                           *)
LEMMA UiAndPixelsDiffer == \A k \in UiKinds : k \notin PixelKinds
<1>1. PixelKinds \subseteq PrepareKinds
  BY DEF PrepareKinds
<1> QED BY <1>1, UiKindsFrame

(* Textures that work in flight refers to are retained by its slot.        *)
LEMMA TexturesInFlight ==
  ASSUME currentFrame \in FrameSlots, NEW s, InFrame(s)
  PROVE  TexturesAreHeld(s.r.ui, currentFrame, Busy(s.d))
<1>1. PICK u, held : u = s.r.ui /\ held = s.d.held
  OBVIOUS
<1>2. SUFFICES ASSUME NEW t, NEW x \in TextureObjects(t), x \in Busy(s.d)
               PROVE  \E other \in FrameSlots \ {currentFrame} : t \in u.retained[other]
  BY <1>1 DEF TexturesAreHeld
<1>3. x[1] \in UiKinds /\ x[2] = t /\ x[1] \notin PixelKinds
  BY <1>2, UiKindsAre, TextureObjectsAre, UiAndPixelsDiffer
<1>4. x \in held /\ \/ \E n \in s.r.materials.pending : x \in UploadWork(n)
                    \/ \E slot \in FrameSlots \ {currentFrame} : x \in s.d.work[slot]
  BY <1>1, <1>2, BusyIs
<1>5. PICK slot \in FrameSlots \ {currentFrame} : x \in s.d.work[slot]
  BY <1>3, <1>4, PixelObjectsAre
<1>6. UiHolds(u, held)
  BY <1>1 DEF InFrame, Owned
<1>7. t \in Textures
  <2>1. x \notin PipelineObjects /\ x \notin GeometryObjects
    BY <1>2, UiSortsDiffer
  <2>2. PICK other \in u.textures : x \in TextureObjects(other)
    BY <1>3, <1>4, <1>6, <2>1 DEF UiHolds
  <2>3. other = t
    BY <1>3, <2>2, TextureObjectsAre
  <2> QED BY <1>6, <2>2, <2>3 DEF UiHolds, UiStates
<1>8. WorkIsKept(s.d.work[slot], slot, Distance(slot, currentFrame), u, s.m)
  BY <1>1 DEF InFrame, WorksStay
<1>9. t \in u.retained[slot]
  BY <1>2, <1>5, <1>7, <1>8 DEF WorkIsKept
<1> QED BY <1>9

(* What a frame with an interface needs.                                   *)
InterfaceReady(s, draws) ==
  s.r.ui.ready[currentFrame] /\ draws # <<>> =>
    GeometryOf(currentFrame) \subseteq s.d.held /\ \A i \in 1 .. Len(draws) : draws[i] \in s.r.ui.retained[currentFrame]
Drawable(s, f) == FrameReady(s) /\ InterfaceReady(s, f.interface)

UiNow(s, e, v, t) == t = [s EXCEPT !.d = e, !.r.ui = v]
(* What setting the interface sets.                                        *)
LEMMA UiNowFields ==
  ASSUME NEW s, IsSystem(s), NEW e, NEW v, NEW t, UiNow(s, e, v, t)
  PROVE  /\ IsSystem(t) /\ t.d = e /\ t.m = s.m /\ t.r.ui = v
         /\ t.r.shadows = s.r.shadows /\ t.r.materials = s.r.materials
         /\ t.r.attempted = s.r.attempted /\ t.r.prepared = s.r.prepared
<1>1. PICK r, q : r = s.r /\ q = [r EXCEPT !.ui = v]
  OBVIOUS
<1>2. DOMAIN r = {"shadows", "ui", "materials", "attempted", "prepared"}
  BY <1>1 DEF IsSystem, IsRenderer, NoRenderer
<1>3. /\ DOMAIN q = DOMAIN r /\ q.ui = v /\ q.shadows = r.shadows /\ q.materials = r.materials
      /\ q.attempted = r.attempted /\ q.prepared = r.prepared
  BY <1>1, <1>2
<1>4. t = [s EXCEPT !.d = e, !.r = q]
  BY <1>1 DEF UiNow
<1>5. DOMAIN t = DOMAIN s /\ t.d = e /\ t.r = q /\ t.m = s.m
  BY <1>4 DEF IsSystem
<1> QED BY <1>1, <1>2, <1>3, <1>5 DEF IsSystem, IsRenderer, NoRenderer

(* Preparing the interface keeps the frame ready.                          *)
LEMMA InterfaceDrawn ==
  ASSUME currentFrame \in FrameSlots, NEW s, FrameReady(s), NEW draws \in Seq(Textures), NEW size \in Nat,
         draws # <<>> => size > 0, NEW o \in PrepareUi(s.r.ui, s.d, currentFrame, draws, size, shown),
         NEW t, UiNow(s, o.d, o.u, t)
  PROVE  FrameReady(t) /\ InterfaceReady(t, draws)
<1>1. /\ InFrame(s) /\ IsSystem(s) /\ Clean(s.d) /\ Owned(s.d, s.r, s.m) /\ s.r.shadows.device /\ s.r.materials.device
      /\ PipelinesHold(s.r.attempted, s.d.held)
  BY DEF FrameReady, InFrame, FrameHolds
<1>2. PICK d, r, m, u, e, v : d = s.d /\ r = s.r /\ m = s.m /\ u = s.r.ui /\ e = o.d /\ v = o.u
  OBVIOUS
<1>3. UiPrepared(d, u, currentFrame, draws, o)
  <2>1. GeometryOf(currentFrame) \cap Busy(d) = {}
    <3>1. GeometryOf(currentFrame) \subseteq SlotMemory(currentFrame)
      BY DEF SlotMemory
    <3> QED BY <1>1, <1>2, <3>1, OwnMemoryIdle
  <2>2. TexturesAreHeld(u, currentFrame, Busy(d))
    BY <1>1, <1>2, TexturesInFlight
  <2>3. UiHolds(u, d.held) /\ Clean(d)
    BY <1>1, <1>2 DEF Owned
  <2>4. PICK shows : shows = shown
    OBVIOUS
  <2>5. o \in PrepareUi(u, d, currentFrame, draws, size, shows)
    BY <1>2, <2>4
  <2> QED BY <2>1, <2>2, <2>3, <2>5, PrepareUiOwns
<1>4. /\ Becomes(d, e, UiKinds, Works) /\ UiHolds(v, e.held)
      /\ SameForOthers(u, v, currentFrame)
      /\ v.ready[currentFrame] /\ draws # <<>> =>
           GeometryOf(currentFrame) \subseteq e.held /\ \A i \in 1 .. Len(draws) : draws[i] \in v.retained[currentFrame]
  BY <1>2, <1>3 DEF UiPrepared
<1>5. /\ IsSystem(t) /\ t.d = e /\ t.m = m /\ t.r.ui = v
      /\ t.r.shadows = r.shadows /\ t.r.materials = r.materials
      /\ t.r.attempted = r.attempted /\ t.r.prepared = r.prepared
  <2>1. UiNow(s, e, v, t)
    BY <1>2
  <2> QED BY <1>1, <1>2, <2>1, UiNowFields
<1>6. PICK q : q = t.r
  OBVIOUS
<1>7. Owned(e, q, m)
  <2>1. Owned(d, r, m) /\ q.shadows = r.shadows /\ UiHolds(q.ui, e.held) /\ q.materials = r.materials /\ OneTime \in Works
    BY <1>1, <1>2, <1>4, <1>5, <1>6, SlotsAreWorks
  <2>2. \A mesh \in Meshes : m[mesh].textured => q.materials.ready
    BY <2>1 DEF Owned
  <2> QED BY <1>4, <2>1, <2>2, UiKindsFrame, OwnedStays
<1>8. PipelinesHold(r.attempted, e.held) /\ SameOf(PipelineKinds, d.held, e.held)
  <2>1. SameOf(PipelineKinds, d.held, e.held)
    BY <1>4, UiKindsFrame, BecomesSame
  <2>2. PICK attempted, held, other : attempted = r.attempted /\ held = d.held /\ other = e.held
    OBVIOUS
  <2>3. PipelinesHold(attempted, held) /\ SameOf(PipelineKinds, held, other)
    BY <1>1, <1>2, <2>1, <2>2
  <2>4. PipelinesHold(attempted, other)
    BY <2>3, PipelinesSame
  <2> QED BY <2>1, <2>2, <2>4
<1>9. Becomes(s.d, t.d, UiKinds, FrameSlots)
  BY <1>2, <1>4, <1>5, SlotsAreWorks DEF Becomes
<1>10. /\ Owned(t.d, t.r, t.m) /\ PipelinesHold(t.r.attempted, t.d.held) /\ t.r.shadows.device /\ t.r.materials.device
       /\ \A slot \in FrameSlots \ {currentFrame} : t.r.ui.retained[slot] = s.r.ui.retained[slot]
  BY <1>1, <1>2, <1>4, <1>5, <1>6, <1>7, <1>8 DEF SameForOthers
<1>11. Outlasts(s.m, t.m)
  BY <1>2, <1>5, OutlastsItself
<1>12. InFrame(t)
  BY <1>1, <1>5, <1>9, <1>10, <1>11, UiKindsFrame, FrameKeeps
<1>13. Leaves(s, t)
  BY <1>2, <1>5, <1>8 DEF Leaves
<1>14. FrameReady(t)
  BY <1>12, <1>13, ReadyStays
<1> QED BY <1>4, <1>5, <1>14 DEF InterfaceReady

(* VulkanUiRenderer::prepare                                               *)
LEMMA PrepareInterfaceKeeps ==
  ASSUME currentFrame \in FrameSlots, NEW s, FrameReady(s), NEW f, f.interface \in Seq(Textures), f.size \in Nat,
         f.interface # <<>> => f.size > 0, NEW t \in PrepareInterface(s, f)
  PROVE  Drawable(t, f)
<1>1. PICK draws, size : draws = f.interface /\ size = f.size
  OBVIOUS
<1>2. PICK o \in PrepareUi(s.r.ui, s.d, currentFrame, draws, size, shown) : t = [s EXCEPT !.d = o.d, !.r.ui = o.u]
  BY <1>1 DEF PrepareInterface
<1>3. UiNow(s, o.d, o.u, t) /\ draws \in Seq(Textures) /\ size \in Nat /\ (draws # <<>> => size > 0)
  BY <1>1, <1>2 DEF UiNow
<1>4. FrameReady(t) /\ InterfaceReady(t, draws)
  BY <1>2, <1>3, InterfaceDrawn
<1> QED BY <1>1, <1>4 DEF Drawable

(* The fence of a slot was waited for.                                     *)
FenceWaited(d, slot, e) == e = [d EXCEPT !.work[slot] = {}]

(* After a slot's fence its work is over and the driver clean.             *)
LEMMA FenceIsClean ==
  ASSUME NEW d, Clean(d), NEW slot \in Works, NEW e, FenceWaited(d, slot, e), NEW kinds
  PROVE  Becomes(d, e, kinds, Works) /\ e.held = d.held /\ e.work[slot] = {}
<1>1. /\ d = [alive |-> d.held, held |-> d.held, work |-> d.work, misuses |-> {}, refusals |-> d.refusals]
      /\ d.work = [w \in Works |-> d.work[w]] /\ Busy(d) \subseteq d.held /\ d.refusals \in Nat
  BY DEF Clean, Plain, Driver
<1>2. PICK held, work, refusals : held = d.held /\ work = d.work /\ refusals = d.refusals
  OBVIOUS
<1>3. PICK later : later = [work EXCEPT ![slot] = {}]
  OBVIOUS
<1>4. d = [alive |-> held, held |-> held, work |-> work, misuses |-> {}, refusals |-> refusals]
  BY <1>1, <1>2
<1>5. e = [d EXCEPT !.work = later]
  BY <1>2, <1>3 DEF FenceWaited
<1>6. e = [alive |-> held, held |-> held, work |-> later, misuses |-> {}, refusals |-> refusals]
  BY <1>4, <1>5
<1>7. e.held = held /\ e.work = later /\ e.refusals = refusals
  BY <1>6
<1>8. /\ later = [w \in Works |-> later[w]] /\ later[slot] = {}
      /\ \A w \in Works : later[w] \subseteq work[w]
  BY <1>1, <1>2, <1>3
<1>9. Busy(e) \subseteq held
  <2>1. Busy(e) \subseteq Busy(d)
    BY <1>2, <1>7, <1>8 DEF Busy
  <2> QED BY <1>1, <1>2, <2>1
<1>10. Clean(e)
  <2>1. e = Plain(e.held, e.work, e.refusals)
    BY <1>6, <1>7 DEF Plain, Driver
  <2> QED BY <1>1, <1>2, <1>7, <1>8, <1>9, <2>1 DEF Clean
<1>11. e.refusals >= d.refusals
  BY <1>1, <1>2, <1>7
<1> QED BY <1>2, <1>7, <1>8, <1>10, <1>11 DEF Becomes

-----------------------------------------------------------------------------
(* Before anything was created.                                            *)
Blank(d, r, m) ==
  d.held = {} /\ r = NoRenderer /\ m = [mesh \in Meshes |-> NoMesh]
BackendIs(d, r, m, ready, current) ==
  /\ Clean(d) /\ IsRenderer(r) /\ Owned(d, r, m)
  /\ IF Instance \in d.held THEN DeviceHolds(d.held) ELSE Blank(d, r, m) /\ ~ ready
  /\ IF ready THEN Dressed(d, r) ELSE Undressed(d, r)
  /\ WorksStay(d, r.ui, m, current)
BackendInv == BackendIs(driver, renderer, meshes, isReady, currentFrame)

(* beginFrame starts, after the fence, from a renderer in its frame.       *)
LEMMA BeginsInFrame ==
  ASSUME currentFrame \in FrameSlots, BackendInv, isReady, NEW e, FenceWaited(driver, currentFrame, e),
         NEW s, s = [d |-> e, r |-> renderer, m |-> meshes]
  PROVE  InFrame(s)
<1>1. s.d = e /\ s.r = renderer /\ s.m = meshes /\ {"d", "r", "m"} \subseteq DOMAIN s
  OBVIOUS
<1>2. /\ Clean(driver) /\ IsRenderer(renderer) /\ Owned(driver, renderer, meshes) /\ DeviceHolds(driver.held)
      /\ ChainHolds(driver.held) /\ PipelinesHold(renderer.attempted, driver.held)
      /\ renderer.shadows.device /\ renderer.materials.device
      /\ WorksStay(driver, renderer.ui, meshes, currentFrame)
  BY DEF BackendInv, BackendIs, Dressed
<1>3. PICK kinds : kinds = {}
  OBVIOUS
<1>4. Becomes(driver, e, kinds, Works) /\ e.held = driver.held /\ e.work[currentFrame] = {}
  <2>1. currentFrame \in Works
    BY SlotsAreWorks
  <2> QED BY <1>2, <2>1, FenceIsClean
<1>5. Owned(e, renderer, meshes)
  <2>1. \A mesh \in Meshes : meshes[mesh].textured => renderer.materials.ready
    BY <1>2 DEF Owned
  <2>2. kinds \subseteq KnownKinds /\ kinds \cap ShadowKinds = {} /\ kinds \cap UiKinds = {} /\ kinds \cap PrepareKinds = {}
        /\ kinds \cap MeshKinds = {} /\ kinds \cap AssetKinds = {} /\ OneTime \in Works
    BY <1>3, SlotsAreWorks
  <2> QED BY <1>2, <1>4, <2>1, <2>2, OwnedStays
<1>6. WorksStay(e, renderer.ui, meshes, currentFrame)
  <2>1. SUFFICES ASSUME NEW slot \in FrameSlots
                 PROVE  WorkIsKept(e.work[slot], slot, Distance(slot, currentFrame), renderer.ui, meshes)
    BY DEF WorksStay
  <2>2. PICK u, m, w, x, turns : u = renderer.ui /\ m = meshes /\ w = driver.work[slot] /\ x = e.work[slot]
                                 /\ turns = Distance(slot, currentFrame)
    OBVIOUS
  <2>3. turns \in Nat /\ WorkIsKept(w, slot, turns, u, m) /\ x \subseteq w /\ Outlasts(m, m)
    BY <1>2, <1>4, <2>2, DistanceIs, SlotsAreWorks, OutlastsItself DEF WorksStay, Becomes
  <2>4. WorkIsKept(x, slot, turns, u, m)
    BY <2>3, WorkKeeps
  <2> QED BY <2>2, <2>4
<1>7. IsMaterials(renderer.materials)
  BY <1>2 DEF Owned, MatOwns, MaterialFlags
<1>8. FrameHolds(s)
  BY <1>1, <1>2, <1>4, <1>7 DEF FrameHolds, IsSystem, Becomes
<1> QED BY <1>1, <1>2, <1>4, <1>5, <1>6, <1>8 DEF InFrame

(* Everything a frame needs was prepared.                                  *)
LEMMA PreparedKeeps ==
  ASSUME currentFrame \in FrameSlots, BackendInv, isReady, Reflects(renderer.materials), NEW f \in Requests,
         f.interface # <<>> => f.size > 0, NEW cooled, NEW posed, NEW s \in Prepared(f, cooled, posed)
  PROVE  Drawable(s, f)
<1>1. PICK c \in Each(Each(MeshesPrepared(posed), LAMBDA t : PrepareShadows(t, f)),
                      LAMBDA t : PrepareMaterialTextures(t, f, cooled)) : s \in PrepareInterface(c, f)
  BY DEF Prepared, Each
<1>2. PICK b \in Each(MeshesPrepared(posed), LAMBDA t : PrepareShadows(t, f)) : c \in PrepareMaterialTextures(b, f, cooled)
  BY <1>1 DEF Each
<1>3. PICK a \in MeshesPrepared(posed) : b \in PrepareShadows(a, f)
  BY <1>2 DEF Each
<1>4. PICK start : start = [System EXCEPT !.d.work[currentFrame] = {}]
  OBVIOUS
<1>5. PICK y \in Each(RetireMeshes(start), UploadMeshes) : a = UpdateMeshes(y, posed)
  BY <1>3, <1>4 DEF MeshesPrepared
<1>6. PICK x \in RetireMeshes(start) : y \in UploadMeshes(x)
  BY <1>5 DEF Each
<1>7. InFrame(start) /\ IsSystem(start) /\ start.r = renderer
  <2>1. PICK e : FenceWaited(driver, currentFrame, e)
    BY DEF FenceWaited
  <2>2. start = [d |-> e, r |-> renderer, m |-> meshes]
    BY <1>4, <2>1 DEF System, FenceWaited
  <2>3. InFrame(start)
    BY <2>1, <2>2, BeginsInFrame
  <2> QED BY <2>2, <2>3 DEF InFrame, FrameHolds
<1>8. InFrame(x) /\ InFrame(y)
  <2>1. InFrame(x)
    BY <1>6, <1>7, RetireMeshesKeeps
  <2> QED BY <1>6, <2>1, UploadMeshesKeeps
<1>9. InFrame(a)
  BY <1>5, <1>8, UpdateMeshesKeeps
<1>10. InFrame(b) /\ ShadowsReady(b)
  <2>1. f.resolution \in Nat
    BY DEF Requests
  <2> QED BY <1>3, <1>9, <2>1, PrepareShadowsKeeps
<1>11. Reflects(b.r.materials)
  <2>1. SameReflections(start, x)
    <3>1. PICK gone : gone = {mesh \in In(start, "retired") : start.m[mesh].wait = 0}
      OBVIOUS
    <3>2. x \in DestroyMeshes(start, gone)
      BY <1>6, <3>1 DEF RetireMeshes
    <3>3. gone \in SUBSET Meshes /\ IsFiniteSet(Meshes)
      BY <3>1, ResourcesAssumption DEF In
    <3>4. IsFiniteSet(gone)
      BY <3>3, FS_Subset
    <3> QED BY <1>7, <3>2, <3>4, DestroyMeshesSame
  <2>2. SameReflections(x, y)
    BY <1>6, <2>1, SameIsSystem, UploadMeshesSame
  <2>3. SameReflections(y, a)
    <3>1. IsSystem(y)
      BY <2>2, SameIsSystem
    <3>2. PICK d : a = [y EXCEPT !.d = d]
      BY <1>5 DEF UpdateMeshes
    <3>3. a.r = y.r /\ {"d", "r", "m"} \subseteq DOMAIN a
      BY <3>1, <3>2 DEF IsSystem
    <3> QED BY <3>1, <3>3, AlikeItself DEF SameReflections, IsSystem
  <2>4. SameReflections(a, b)
    BY <1>3, <2>3, SameIsSystem, PrepareShadowsSame
  <2>5. SameReflections(start, b)
    BY <2>1, <2>2, <2>3, <2>4, SameThen
  <2>6. Alike(start.r.materials, b.r.materials)
    BY <2>5 DEF SameReflections
  <2> QED BY <1>7, <2>6, AlikeReflects
<1>12. FrameReady(c)
  <2>1. f.sky \in Skies \cup {NoSky} /\ Len(f.draws) \in Nat
    BY DEF Requests
  <2> QED BY <1>2, <1>10, <1>11, <2>1, PrepareMaterialTexturesKeeps
<1>13. f.interface \in Seq(Textures) /\ f.size \in Nat
  BY DEF Requests, Textures
<1> QED BY <1>1, <1>12, <1>13, PrepareInterfaceKeeps

(* What a command buffer of the current slot may refer to.                 *)
OwnKinds == {"shadow uniform memory", "material frame memory", "command buffer", "ui vertices", "ui indices"}
SharedKinds == MeshKinds \cup TextureKinds \cup AssetKinds \cup ImageKinds
Recordable(s, x) ==
  /\ x \in s.d.held
  /\ \A other \in FrameSlots \ {currentFrame} : x \notin SlotMemory(other)
  /\ \A t \in Textures : x \in TextureObjects(t) => t \in s.r.ui.retained[currentFrame]
  /\ \A mesh \in Meshes : x \in MeshObjects(mesh) => s.m[mesh].state = "resident"
  /\ \A mesh \in Meshes : x \in AssetAll(mesh) => s.m[mesh].state = "resident" /\ s.m[mesh].textured
  /\ \A n \in Contents : x \in ImageObjects(n) =>
       \E mesh \in Meshes : n \in s.m[mesh].images /\ s.m[mesh].state = "resident"

(* Work on recordable objects is held and outlives its submission.         *)
LEMMA AllRecordable ==
  ASSUME NEW s, NEW work, \A x \in work : Recordable(s, x), NEW turns \in Nat
  PROVE  work \subseteq s.d.held /\ WorkIsKept(work, currentFrame, turns, s.r.ui, s.m)
<1>1. work \subseteq s.d.held
  BY DEF Recordable
<1>2. \A other \in FrameSlots \ {currentFrame} : work \cap SlotMemory(other) = {}
  BY DEF Recordable
<1>3. \A t \in Textures : work \cap TextureObjects(t) # {} => t \in s.r.ui.retained[currentFrame]
  BY DEF Recordable
<1>4. \A mesh \in Meshes : work \cap MeshObjects(mesh) # {} => InUse(s.m[mesh], turns)
  BY DEF Recordable, InUse
<1>5. \A mesh \in Meshes : work \cap AssetAll(mesh) # {} => InUse(s.m[mesh], turns) /\ s.m[mesh].textured
  BY DEF Recordable, InUse
<1>6. \A n \in Contents : work \cap ImageObjects(n) # {} =>
        \E mesh \in Meshes : n \in s.m[mesh].images /\ InUse(s.m[mesh], turns)
  BY DEF Recordable, InUse
<1> QED BY <1>1, <1>2, <1>3, <1>4, <1>5, <1>6 DEF WorkIsKept

(* The memory a frame writes is its slot's.                                *)
LEMMA SlotMemoryIs ==
  ASSUME NEW slot, NEW x \in SlotMemory(slot)
  PROVE  \/ x[1] \in OwnKinds /\ x[2] = slot
         \/ x[1] \in MeshKinds /\ \E mesh \in Dynamic : x[2] = Vertices(mesh, slot)
<1>1. \/ x \in {MapUniformMemory(slot), FrameMemory(slot), CommandBuffer(slot)} \/ x \in GeometryOf(slot)
      \/ x \in BuffersOf({Vertices(mesh, slot) : mesh \in Dynamic})
  BY DEF SlotMemory
<1>2. CASE x \in {MapUniformMemory(slot), FrameMemory(slot), CommandBuffer(slot)}
  <2>1. CASE x = MapUniformMemory(slot)
    BY <2>1 DEF MapUniformMemory, OwnKinds
  <2>2. CASE x = FrameMemory(slot)
    BY <2>2 DEF FrameMemory, OwnKinds
  <2>3. CASE x = CommandBuffer(slot)
    BY <2>3 DEF CommandBuffer, OwnKinds
  <2> QED BY <1>2, <2>1, <2>2, <2>3
<1>3. CASE x \in GeometryOf(slot)
  BY <1>3, GeometryObjectsAre DEF OwnKinds, Geometry
<1>4. CASE x \in BuffersOf({Vertices(mesh, slot) : mesh \in Dynamic})
  <2>1. PICK mesh \in Dynamic : x = MeshBuffer(Vertices(mesh, slot)) \/ x = MeshMemory(Vertices(mesh, slot))
    BY <1>4 DEF BuffersOf
  <2>2. x[1] \in MeshKinds /\ x[2] = Vertices(mesh, slot)
    <3>1. CASE x = MeshBuffer(Vertices(mesh, slot))
      BY <3>1 DEF MeshBuffer, MeshKinds
    <3>2. CASE x = MeshMemory(Vertices(mesh, slot))
      BY <3>2 DEF MeshMemory, MeshKinds
    <3> QED BY <2>1, <3>1, <3>2
  <2> QED BY <2>2
<1> QED BY <1>1, <1>2, <1>3, <1>4

(* Objects that several frames use, by kind and name.                      *)
LEMMA SharedAre ==
  /\ \A t : \A x \in TextureObjects(t) : x[1] \in TextureKinds /\ x[2] = t
  /\ \A mesh : \A x \in MeshObjects(mesh) : x[1] \in MeshKinds /\ x[2][1] = mesh
  /\ \A mesh : \A x \in AssetAll(mesh) : x[1] \in AssetKinds /\ x[2] = mesh
  /\ \A n : \A x \in ImageObjects(n) : x[1] \in ImageKinds /\ x[2] = n
BY TextureObjectsAre, MeshObjectsAre, AssetObjectsAre, ImageObjectsAre

(* The kinds that several frames use are disjoint.                         *)
LEMMA SharedKindsDiffer ==
  /\ MeshKinds \cap TextureKinds = {} /\ MeshKinds \cap AssetKinds = {} /\ MeshKinds \cap ImageKinds = {}
  /\ TextureKinds \cap AssetKinds = {} /\ TextureKinds \cap ImageKinds = {} /\ AssetKinds \cap ImageKinds = {}
  /\ OwnKinds \cap MeshKinds = {} /\ OwnKinds \cap TextureKinds = {} /\ OwnKinds \cap AssetKinds = {}
  /\ OwnKinds \cap ImageKinds = {}
<1>1. TextureKinds = {"ui image", "ui image memory", "ui view", "ui set"}
  BY DEF TextureKinds
<1>2. /\ MeshKinds = {"mesh buffer", "mesh memory", "mesh staging", "mesh staging memory", "single time command"}
      /\ AssetKinds = {"asset pool", "asset sets", "asset uniforms", "asset uniform memory"}
      /\ ImageKinds = {"material image", "material image memory", "material view"}
      /\ OwnKinds = {"shadow uniform memory", "material frame memory", "command buffer", "ui vertices", "ui indices"}
  BY DEF MeshKinds, AssetKinds, ImageKinds, OwnKinds
<1> QED BY <1>1, <1>2

(* Objects that belong to nobody in particular, or to the slot.            *)
LEMMA FixedRecordable ==
  ASSUME NEW s, NEW x \in s.d.held, x[1] \notin SharedKinds, x[1] \in OwnKinds => x[2] = currentFrame
  PROVE  Recordable(s, x)
<1>1. ASSUME NEW other \in FrameSlots \ {currentFrame}, x \in SlotMemory(other) PROVE FALSE
  BY <1>1, SlotMemoryIs DEF SharedKinds
<1>2. \A t : x \notin TextureObjects(t)
  BY SharedAre DEF SharedKinds
<1>3. \A mesh : x \notin MeshObjects(mesh) /\ x \notin AssetAll(mesh)
  BY SharedAre DEF SharedKinds
<1>4. \A n : x \notin ImageObjects(n)
  BY SharedAre DEF SharedKinds
<1> QED BY <1>1, <1>2, <1>3, <1>4 DEF Recordable

(* The buffers of a resident mesh may be recorded.                         *)
LEMMA MeshRecordable ==
  ASSUME currentFrame \in FrameSlots, NEW s, MeshesHold(s.m, s.d.held), NEW mesh \in Meshes,
         s.m[mesh].state = "resident", NEW x \in DrawnBuffers(mesh)
  PROVE  Recordable(s, x)
<1>1. PICK slot : slot = IF mesh \in Dynamic THEN currentFrame ELSE 0
  OBVIOUS
<1>2. PICK p : (x = MeshBuffer(p) \/ x = MeshMemory(p)) /\ (p = Indices(mesh) \/ p = Vertices(mesh, slot))
  BY <1>1 DEF DrawnBuffers, BuffersOf
<1>3. x \in MeshObjects(mesh)
  <2>1. slot \in VertexSlots(mesh)
    BY <1>1 DEF VertexSlots
  <2> QED BY <1>2, <2>1 DEF MeshObjects, VertexObjects, BuffersOf
<1>4. x \in s.d.held
  BY <1>3 DEF MeshesHold, Loaded
<1>5. x[1] \in MeshKinds /\ x[2][1] = mesh
  BY <1>3, SharedAre
<1>6. x[2] = p
  <2>1. CASE x = MeshBuffer(p)
    BY <2>1 DEF MeshBuffer
  <2>2. CASE x = MeshMemory(p)
    BY <2>2 DEF MeshMemory
  <2> QED BY <1>2, <2>1, <2>2
<1>7. ASSUME NEW other \in FrameSlots \ {currentFrame}, x \in SlotMemory(other) PROVE FALSE
  <2>1. PICK m2 \in Dynamic : x[2] = Vertices(m2, other)
    BY <1>5, <1>7, SlotMemoryIs, SharedKindsDiffer
  <2>2. p = Vertices(m2, other)
    BY <1>6, <2>1
  <2>3. p # Indices(mesh)
    BY <2>2 DEF Indices, Vertices
  <2>4. p = Vertices(mesh, slot)
    BY <1>2, <2>3
  <2>5. mesh = m2 /\ slot = other
    BY <2>2, <2>4 DEF Vertices
  <2> QED BY <1>1, <1>7, <2>1, <2>5
<1>8. \A t : x \notin TextureObjects(t)
  BY <1>5, SharedAre, SharedKindsDiffer
<1>9. \A other : x \notin AssetAll(other)
  BY <1>5, SharedAre, SharedKindsDiffer
<1>10. \A n : x \notin ImageObjects(n)
  BY <1>5, SharedAre, SharedKindsDiffer
<1>11. \A other \in Meshes : x \in MeshObjects(other) => s.m[other].state = "resident"
  BY <1>5, SharedAre
<1> QED BY <1>4, <1>7, <1>8, <1>9, <1>10, <1>11 DEF Recordable

(* The material of a resident mesh may be recorded.                        *)
LEMMA AssetRecordable ==
  ASSUME NEW s, AssetsHold(s.m, s.d.held), NEW mesh \in Meshes,
         s.m[mesh].state = "resident", s.m[mesh].textured, NEW x \in AssetAll(mesh)
  PROVE  Recordable(s, x)
<1>1. x \in s.d.held /\ x[1] \in AssetKinds /\ x[2] = mesh
  BY SharedAre DEF AssetsHold
<1>2. \A other : x \notin SlotMemory(other)
  BY <1>1, SlotMemoryIs, SharedKindsDiffer
<1>3. \A t : x \notin TextureObjects(t)
  BY <1>1, SharedAre, SharedKindsDiffer
<1>4. \A other : x \notin MeshObjects(other)
  BY <1>1, SharedAre, SharedKindsDiffer
<1>5. \A n : x \notin ImageObjects(n)
  BY <1>1, SharedAre, SharedKindsDiffer
<1>6. \A other : x \in AssetAll(other) => other = mesh
  BY <1>1, SharedAre
<1> QED BY <1>1, <1>2, <1>3, <1>4, <1>5, <1>6 DEF Recordable

(* An image in the stock or of a resident mesh may be recorded.            *)
LEMMA ImageRecordable ==
  ASSUME NEW s, NEW n, NEW x \in ImageObjects(n), x \in s.d.held,
         n \in Contents => \E mesh \in Meshes : n \in s.m[mesh].images /\ s.m[mesh].state = "resident"
  PROVE  Recordable(s, x)
<1>1. x[1] \in ImageKinds /\ x[2] = n
  BY SharedAre
<1>2. \A other : x \notin SlotMemory(other)
  BY <1>1, SlotMemoryIs, SharedKindsDiffer
<1>3. \A t : x \notin TextureObjects(t)
  BY <1>1, SharedAre, SharedKindsDiffer
<1>4. \A other : x \notin MeshObjects(other) /\ x \notin AssetAll(other)
  BY <1>1, SharedAre, SharedKindsDiffer
<1>5. \A k : x \in ImageObjects(k) => k = n
  BY <1>1, SharedAre
<1> QED BY <1>1, <1>2, <1>3, <1>4, <1>5 DEF Recordable

(* A texture retained for the slot may be recorded.                        *)
LEMMA TextureRecordable ==
  ASSUME NEW s, NEW t, t \in s.r.ui.retained[currentFrame], NEW x \in TextureObjects(t), x \in s.d.held
  PROVE  Recordable(s, x)
<1>1. x[1] \in TextureKinds /\ x[2] = t
  BY SharedAre
<1>2. \A other : x \notin SlotMemory(other)
  BY <1>1, SlotMemoryIs, SharedKindsDiffer
<1>3. \A other : x \in TextureObjects(other) => other = t
  BY <1>1, SharedAre
<1>4. \A other : x \notin MeshObjects(other) /\ x \notin AssetAll(other)
  BY <1>1, SharedAre, SharedKindsDiffer
<1>5. \A k : x \notin ImageObjects(k)
  BY <1>1, SharedAre, SharedKindsDiffer
<1> QED BY <1>1, <1>2, <1>3, <1>4, <1>5 DEF Recordable

(* The shared kinds belong to their parts.                                 *)
LEMMA SharedKindsAreParts ==
  /\ TextureKinds \subseteq UiKinds /\ ImageKinds \subseteq PrepareKinds
  /\ PipelineKindsOfUi \subseteq UiKinds /\ Geometry \subseteq UiKinds
<1>1. TextureKinds \subseteq UiKinds
  BY DEF TextureKinds, UiKinds
<1>2. ImageKinds \subseteq PrepareKinds
  BY DEF PrepareKinds, PixelKinds
<1>3. PipelineKindsOfUi \subseteq UiKinds
  BY DEF PipelineKindsOfUi, UiKinds
<1>4. Geometry \subseteq UiKinds
  BY DEF Geometry, UiKinds
<1> QED BY <1>1, <1>2, <1>3, <1>4

(* The kinds of slot memory belong to their parts.                         *)
LEMMA OwnKindsAreParts ==
  /\ OwnKinds \cap ShadowKinds = {"shadow uniform memory"}
  /\ OwnKinds \cap CoreKinds = {"material frame memory"} /\ OwnKinds \cap EnvironmentKinds = {}
  /\ OwnKinds \cap DeviceKinds = {"command buffer"}
  /\ OwnKinds \cap ChainKinds = {} /\ OwnKinds \cap PipelineKinds = {}
  /\ OwnKinds \cap PipelineKindsOfUi = {}
<1>1. OwnKinds = {"shadow uniform memory", "material frame memory", "command buffer", "ui vertices", "ui indices"}
  BY DEF OwnKinds
<1>2. OwnKinds \cap ShadowKinds = {"shadow uniform memory"}
  BY <1>1 DEF ShadowKinds
<1>3. OwnKinds \cap CoreKinds = {"material frame memory"} /\ OwnKinds \cap EnvironmentKinds = {}
  BY <1>1 DEF CoreKinds, EnvironmentKinds
<1>4. OwnKinds \cap DeviceKinds = {"command buffer"}
  BY <1>1 DEF DeviceKinds
<1>5. OwnKinds \cap ChainKinds = {}
  BY <1>1 DEF ChainKinds
<1>6. OwnKinds \cap PipelineKinds = {}
  BY <1>1 DEF PipelineKinds, AllPipelines, PlainPipelines, ReceiverPipelines, MeshPipelines
<1>7. OwnKinds \cap PipelineKindsOfUi = {}
  BY <1>1 DEF PipelineKindsOfUi
<1> QED BY <1>2, <1>3, <1>4, <1>5, <1>6, <1>7

(* Kinds of objects that all slots use, and those that are of one slot.    *)
LEMMA FixedKinds ==
  ASSUME NEW k
  PROVE  /\ k \in PipelineKinds \cup ChainKinds => k \notin SharedKinds /\ k \notin OwnKinds
         /\ k \in DeviceKinds => k \notin SharedKinds /\ (k \in OwnKinds => k = "command buffer")
         /\ k \in ShadowKinds => k \notin SharedKinds /\ (k \in OwnKinds => k = "shadow uniform memory")
         /\ k \in CoreKinds => k \notin SharedKinds /\ (k \in OwnKinds => k = "material frame memory")
         /\ k \in EnvironmentKinds => k \notin SharedKinds /\ k \notin OwnKinds
         /\ k \in PipelineKindsOfUi => k \notin SharedKinds /\ k \notin OwnKinds
         /\ k \in Geometry => k \notin SharedKinds
<1>1. k \in PipelineKinds \cup ChainKinds => k \notin SharedKinds /\ k \notin OwnKinds
  BY KindsOfPartsDiffer, SharedKindsAreParts, OwnKindsAreParts DEF SharedKinds
<1>2. k \in DeviceKinds => k \notin SharedKinds /\ (k \in OwnKinds => k = "command buffer")
  BY KindsOfPartsDiffer, SharedKindsAreParts, OwnKindsAreParts DEF SharedKinds
<1>3. k \in ShadowKinds => k \notin SharedKinds /\ (k \in OwnKinds => k = "shadow uniform memory")
  BY KindsOfPartsDiffer, SharedKindsAreParts, OwnKindsAreParts DEF SharedKinds
<1>4. k \in CoreKinds \cup EnvironmentKinds => k \notin SharedKinds
  <2>1. k \in CoreKinds \cup EnvironmentKinds => k \in PrepareKinds /\ k \notin ImageKinds
    BY MaterialKindsDiffer DEF PrepareKinds, PixelKinds
  <2> QED BY <2>1, KindsOfPartsDiffer, SharedKindsAreParts DEF SharedKinds
<1>5. k \in PipelineKindsOfUi \cup Geometry => k \notin SharedKinds
  <2>1. k \in PipelineKindsOfUi \cup Geometry => k \in UiKinds /\ k \notin TextureKinds
    BY KindsOfUiDiffer, SharedKindsAreParts
  <2> QED BY <2>1, KindsOfPartsDiffer, SharedKindsAreParts DEF SharedKinds
<1> QED BY <1>1, <1>2, <1>3, <1>4, <1>5, OwnKindsAreParts

(* What every command buffer refers to.                                    *)
LEMMA BaseRecordable ==
  ASSUME currentFrame \in FrameSlots, NEW s, InFrame(s), NEW image \in Images
  PROVE  /\ \A x \in {CommandBuffer(currentFrame), Swapchain, SwapView(image), SwapTarget(image), RenderPass} :
              Recordable(s, x)
         /\ \A x \in DepthObjects \cup SyncOf(currentFrame) : Recordable(s, x)
<1>1. ASSUME NEW x \in ChainObjects PROVE Recordable(s, x)
  <2>1. x \in s.d.held
    BY DEF InFrame, FrameHolds, ChainHolds
  <2>2. x[1] \in ChainKinds
    BY ChainObjectsAre
  <2>3. x[1] \notin SharedKinds /\ x[1] \notin OwnKinds
    BY <2>2, FixedKinds
  <2> QED BY <2>1, <2>3, FixedRecordable
<1>2. Recordable(s, CommandBuffer(currentFrame))
  <2>1. PICK x : x = CommandBuffer(currentFrame)
    OBVIOUS
  <2>2. x \in s.d.held
    BY <2>1 DEF InFrame, FrameHolds, DeviceHolds, DeviceObjects, CommandBuffers
  <2>3. x[1] \in DeviceKinds /\ x[2] = currentFrame
    BY <2>1 DEF CommandBuffer, DeviceKinds
  <2>4. x[1] \notin SharedKinds
    BY <2>3, FixedKinds
  <2>5. Recordable(s, x)
    BY <2>2, <2>3, <2>4, FixedRecordable
  <2> QED BY <2>1, <2>5
<1>3. ASSUME NEW x \in SyncOf(currentFrame) PROVE Recordable(s, x)
  <2>1. x \in s.d.held
    BY DEF InFrame, FrameHolds, DeviceHolds, DeviceObjects
  <2>2. x[1] \in DeviceKinds /\ x[2] = currentFrame
    BY SyncsAre
  <2>3. x[1] \notin SharedKinds
    BY <2>2, FixedKinds
  <2> QED BY <2>1, <2>2, <2>3, FixedRecordable
<1>4. {Swapchain, SwapView(image), SwapTarget(image), RenderPass} \subseteq ChainObjects /\ DepthObjects \subseteq ChainObjects
  BY DEF ChainObjects
<1> QED BY <1>1, <1>2, <1>3, <1>4

(* A pipeline that exists may be recorded.                                 *)
LEMMA PipelineRecordable ==
  ASSUME NEW s, InFrame(s), NEW name \in AllPipelines, Exists(s.d, name)
  PROVE  Recordable(s, Pipeline(name)) /\ Recordable(s, Layout(name))
<1>1. PICK p, l : p = Pipeline(name) /\ l = Layout(name)
  OBVIOUS
<1>2. p \in s.d.held /\ l \in s.d.held
  BY <1>1 DEF InFrame, FrameHolds, PipelinesHold, Exists
<1>3. p[1] \in PipelineKinds /\ l[1] \in PipelineKinds
  BY <1>1, PipelineObjectsAre1
<1>4. p[1] \notin SharedKinds /\ p[1] \notin OwnKinds /\ l[1] \notin SharedKinds /\ l[1] \notin OwnKinds
  BY <1>3, FixedKinds
<1>5. Recordable(s, p) /\ Recordable(s, l)
  BY <1>2, <1>4, FixedRecordable
<1> QED BY <1>1, <1>5

(* With shadows prepared, their objects may be recorded.                   *)
LEMMA ShadowWorkRecordable ==
  ASSUME currentFrame \in FrameSlots, NEW s, InFrame(s), ShadowsReady(s), "shadows" \in s.r.prepared
  PROVE  \A x \in ShadowWork(currentFrame) : Recordable(s, x)
<1>1. ShadowsOwn(s.r.shadows, Of(ShadowKinds, s.d.held))
  BY DEF InFrame, Owned
<1>2. s.r.shadows.coreReady /\ s.r.shadows.resolution # 0
  BY DEF ShadowsReady, MapsReady
<1>3. CoreObjects \subseteq s.d.held /\ MapObjects \subseteq s.d.held
  BY <1>1, <1>2, OwnShadows
<1>4. ASSUME NEW x \in CoreObjects PROVE Recordable(s, x)
  <2>1. x[1] \in ShadowKinds /\ x[1] # "shadow uniform memory"
    BY CoreObjectsAre, ShadowKindsAre
  <2>2. x[1] \notin SharedKinds /\ x[1] \notin OwnKinds
    BY <2>1, FixedKinds
  <2> QED BY <1>3, <2>2, FixedRecordable
<1>5. ASSUME NEW x \in SlotMade(currentFrame) PROVE Recordable(s, x)
  <2>1. x \in MapObjects
    BY MapObjectsAre
  <2>2. x[1] \in ShadowKinds /\ x[2] = currentFrame
    BY <2>1, ShadowKindsAre, SlotObjectsOf
  <2>3. x[1] \notin SharedKinds
    BY <2>2, FixedKinds
  <2> QED BY <1>3, <2>1, <2>2, <2>3, FixedRecordable
<1>6. ShadowWork(currentFrame) \subseteq SlotMade(currentFrame) \cup CoreObjects
  BY DEF ShadowWork, SlotMade, CoreObjects
<1> QED BY <1>4, <1>5, <1>6

(* A stored image is held whole.                                           *)
LEMMA StoredImagesHeld ==
  ASSUME NEW m, NEW d, NEW others, MatOwns(m, d, others), NEW n \in Stored(m) \cup others
  PROVE  ImageObjects(n) \subseteq d.held
<1>1. PICK kept : kept = Stored(m) \cup m.pending \cup others
  OBVIOUS
<1>2. Stock(d.held, kept, m.pending, m.used) /\ n \in kept /\ n \notin m.pending
  BY <1>1 DEF MatOwns
<1>3. Image(n) \in d.held /\ ImageMemory(n) \in d.held /\ ImageView(n) \in d.held
  BY <1>2 DEF Stock
<1> QED BY <1>3 DEF ImageObjects

(* What a material draw binds may be recorded.                             *)
LEMMA AssetWorkRecordable ==
  ASSUME currentFrame \in FrameSlots, NEW s, InFrame(s), NEW mesh \in Meshes,
         s.m[mesh].state = "resident", s.m[mesh].textured
  PROVE  \A x \in AssetWork(mesh, ImagesOf(s, mesh), currentFrame) : Recordable(s, x)
<1>1. PICK m, others, images : m = s.r.materials /\ others = Others(s.m) /\ images = s.m[mesh].images
  OBVIOUS
<1>2. MatOwns(m, s.d, others) /\ AssetsHold(s.m, s.d.held) /\ m.ready
  BY <1>1 DEF InFrame, Owned
<1>3. m.defaults = Defaults /\ MaterialsCore \subseteq s.d.held
  BY <1>2 DEF MatOwns, CoreHolds
<1>4. \A x \in AssetAll(mesh) : Recordable(s, x)
  BY <1>2, AssetRecordable
<1>5. ASSUME NEW x \in {FrameBuffer(currentFrame), FrameMemory(currentFrame)} PROVE Recordable(s, x)
  <2>1. x \in MaterialsCore
    BY DEF MaterialsCore
  <2>2. x[1] \in CoreKinds
    BY <2>1, CoreOfMaterials
  <2>3. x[2] = currentFrame
    <3>1. CASE x = FrameBuffer(currentFrame)
      BY <3>1 DEF FrameBuffer
    <3>2. CASE x = FrameMemory(currentFrame)
      BY <3>2 DEF FrameMemory
    <3> QED BY <3>1, <3>2
  <2>4. x[1] \notin SharedKinds
    BY <2>2, FixedKinds
  <2> QED BY <1>3, <2>1, <2>3, <2>4, FixedRecordable
<1>6. ASSUME NEW n \in images \cup Defaults, NEW x \in ImageObjects(n) PROVE Recordable(s, x)
  <2>1. n \in Stored(m) \cup others
    BY <1>1, <1>3, <1>6 DEF Stored, Others
  <2>2. x \in s.d.held
    BY <1>2, <1>6, <2>1, StoredImagesHeld
  <2>3. n \in Contents => \E other \in Meshes : n \in s.m[other].images /\ s.m[other].state = "resident"
    BY <1>1, <1>6, MaterialAssumption
  <2> QED BY <1>6, <2>2, <2>3, ImageRecordable
<1>7. ASSUME NEW x \in AssetWork(mesh, images, currentFrame)
      PROVE  \/ x \in AssetAll(mesh) \/ x \in {FrameBuffer(currentFrame), FrameMemory(currentFrame)}
             \/ \E n \in images \cup Defaults : x \in ImageObjects(n)
  BY <1>7 DEF AssetWork, AssetAll
<1>8. \A x \in AssetWork(mesh, images, currentFrame) : Recordable(s, x)
  BY <1>4, <1>5, <1>6, <1>7
<1> QED BY <1>1, <1>8 DEF ImagesOf

(* With the environment prepared, what it binds may be recorded.           *)
LEMMA EnvironmentWorkRecordable ==
  ASSUME NEW s, InFrame(s), EnvironmentReady(s), "environment" \in s.r.prepared, Reflects(s.r.materials)
  PROVE  \A x \in EnvironmentWork(s.r.materials) : Recordable(s, x)
<1>1. PICK m, others : m = s.r.materials /\ others = Others(s.m)
  OBVIOUS
<1>2. MatOwns(m, s.d, others) /\ m.shows # NoSky /\ m.written = m.shows
  BY <1>1 DEF InFrame, Owned, EnvironmentReady, Reflects
<1>3. m.brdf /\ EnvironmentAll \subseteq s.d.held /\ m.shows \in Skies
  BY <1>2 DEF MatOwns, EnvironmentHolds
<1>4. ASSUME NEW x \in EnvironmentAll PROVE Recordable(s, x)
  <2>1. x[1] \in EnvironmentKinds
    BY CoreOfMaterials
  <2>2. x[1] \notin SharedKinds /\ x[1] \notin OwnKinds
    BY <2>1, FixedKinds
  <2> QED BY <1>3, <2>2, FixedRecordable
<1>5. ASSUME NEW n \in {m.shows, BrdfTable}, NEW x \in ImageObjects(n) PROVE Recordable(s, x)
  <2>1. n \in Stored(m) \cup others
    BY <1>2, <1>3 DEF Stored
  <2>2. x \in s.d.held
    BY <1>2, <1>5, <2>1, StoredImagesHeld
  <2>3. n \notin Contents
    BY <1>3, MaterialAssumption
  <2> QED BY <1>5, <2>2, <2>3, ImageRecordable
<1>6. ASSUME NEW x \in EnvironmentWork(m)
      PROVE  x \in EnvironmentAll \/ \E n \in {m.shows, BrdfTable} : x \in ImageObjects(n)
  BY <1>2, <1>6 DEF EnvironmentWork, EnvironmentAll
<1> QED BY <1>1, <1>4, <1>5, <1>6

(* What the interface binds may be recorded.                               *)
LEMMA UiWorkRecordable ==
  ASSUME currentFrame \in FrameSlots, NEW s, InFrame(s), NEW draws \in Seq(Textures), InterfaceReady(s, draws)
  PROVE  \A x \in UiWork(s.r.ui, currentFrame, draws) : Recordable(s, x)
<1>1. UiHolds(s.r.ui, s.d.held)
  BY DEF InFrame, Owned
<1>2. SUFFICES ASSUME NEW x \in UiWork(s.r.ui, currentFrame, draws) PROVE Recordable(s, x)
  OBVIOUS
<1>3. s.r.ui.ready[currentFrame] /\ draws # <<>>
  BY <1>2 DEF UiWork
<1>4. /\ x \in {UiPipeline, UiLayout, UiSampler, UiDescriptors} \/ x \in GeometryOf(currentFrame)
         \/ \E i \in 1 .. Len(draws) : x \in TextureObjects(draws[i])
  BY <1>2, <1>3 DEF UiWork
<1>5. CASE x \in {UiPipeline, UiLayout, UiSampler, UiDescriptors}
  <2>1. s.r.ui.device
    BY <1>1, <1>3 DEF UiHolds, NoUi
  <2>2. x \in PipelineObjects
    BY <1>5 DEF PipelineObjects
  <2>3. x \in s.d.held
    BY <1>1, <2>1, <2>2 DEF UiHolds
  <2>4. x[1] \in PipelineKindsOfUi
    BY <2>2, PipelineObjectsAre
  <2>5. x[1] \notin SharedKinds /\ x[1] \notin OwnKinds
    BY <2>4, FixedKinds
  <2> QED BY <2>3, <2>5, FixedRecordable
<1>6. CASE x \in GeometryOf(currentFrame)
  <2>1. x \in s.d.held
    BY <1>3, <1>6 DEF InterfaceReady
  <2>2. x[1] \in Geometry /\ x[2] = currentFrame
    BY <1>6, GeometryObjectsAre
  <2>3. x[1] \notin SharedKinds
    BY <2>2, FixedKinds
  <2> QED BY <2>1, <2>2, <2>3, FixedRecordable
<1>7. CASE \E i \in 1 .. Len(draws) : x \in TextureObjects(draws[i])
  <2>1. PICK i \in 1 .. Len(draws) : x \in TextureObjects(draws[i])
    BY <1>7
  <2>2. PICK t : t = draws[i]
    OBVIOUS
  <2>3. t \in s.r.ui.retained[currentFrame]
    BY <1>3, <2>2 DEF InterfaceReady
  <2>4. x \in s.d.held
    BY <1>1, <2>1, <2>2, <2>3 DEF UiHolds
  <2> QED BY <2>1, <2>2, <2>3, <2>4, TextureRecordable
<1> QED BY <1>4, <1>5, <1>6, <1>7

(* The pipeline a world mesh is drawn with exists.                         *)
LEMMA WorldPipelineThere ==
  ASSUME NEW s, FrameReady(s), NEW shadowed \in BOOLEAN, NEW textured \in BOOLEAN, NEW environment \in BOOLEAN,
         shadowed => "shadows" \in s.r.prepared, textured => "materials" \in s.r.prepared,
         environment => textured /\ "environment" \in s.r.prepared,
         Exists(s.d, "mesh"), NEW name, name = MeshPipeline(shadowed, textured, environment)
  PROVE  name \in AllPipelines /\ Exists(s.d, name)
<1>1. CASE environment
  <2>1. PairThere(s, TRUE) /\ environment = TRUE /\ textured = TRUE
    BY <1>1 DEF FrameReady, EnvironmentReady
  <2>2. name = MeshPipeline(shadowed, TRUE, TRUE)
    BY <2>1
  <2>3. Exists(s.d, MeshPipeline(FALSE, TRUE, TRUE)) /\ (shadowed => Exists(s.d, MeshPipeline(TRUE, TRUE, TRUE)))
    BY <2>1 DEF PairThere
  <2>4. shadowed = TRUE \/ shadowed = FALSE
    OBVIOUS
  <2>5. name \in AllPipelines
    BY <2>2, MeshPipelineNames
  <2> QED BY <2>2, <2>3, <2>4, <2>5
<1>2. CASE textured /\ ~ environment
  <2>1. PairThere(s, FALSE) /\ environment = FALSE /\ textured = TRUE
    BY <1>2 DEF FrameReady, MaterialsReady
  <2>2. name = MeshPipeline(shadowed, TRUE, FALSE)
    BY <2>1
  <2>3. Exists(s.d, MeshPipeline(FALSE, TRUE, FALSE)) /\ (shadowed => Exists(s.d, MeshPipeline(TRUE, TRUE, FALSE)))
    BY <2>1 DEF PairThere
  <2>4. shadowed = TRUE \/ shadowed = FALSE
    OBVIOUS
  <2>5. name \in AllPipelines
    BY <2>2, MeshPipelineNames
  <2> QED BY <2>2, <2>3, <2>4, <2>5
<1>3. CASE ~ textured /\ ~ environment
  <2>1. name = IF shadowed THEN "mesh shadowed" ELSE "mesh"
    BY <1>3 DEF MeshPipeline
  <2>2. shadowed => Exists(s.d, "mesh shadowed")
    BY DEF FrameReady, ShadowsReady
  <2>3. "mesh shadowed" \in AllPipelines /\ "mesh" \in AllPipelines
    BY DEF AllPipelines, PlainPipelines, ReceiverPipelines
  <2> QED BY <2>1, <2>2, <2>3
<1> QED BY <1>1, <1>2, <1>3

(* Everything that drawing a mesh records may be recorded.                 *)
LEMMA MeshWorkRecordable ==
  ASSUME currentFrame \in FrameSlots, NEW s, FrameReady(s), Reflects(s.r.materials), Exists(s.d, "mesh"),
         NEW mesh \in Meshes, NEW world \in BOOLEAN, NEW x \in MeshWork(s, mesh, world)
  PROVE  Recordable(s, x)
<1>1. PICK shadowed : shadowed = (world /\ "shadows" \in s.r.prepared)
  OBVIOUS
<1>2. PICK textured : textured = (world /\ "materials" \in s.r.prepared /\ s.m[mesh].textured)
  OBVIOUS
<1>3. PICK environment : environment = (textured /\ "environment" \in s.r.prepared)
  OBVIOUS
<1>4. PICK name : name = MeshPipeline(shadowed, textured, environment)
  OBVIOUS
<1>5. s.m[mesh].state = "resident"
  BY DEF MeshWork, In
<1>6. \/ x = Pipeline(name) \/ x = Layout(name) \/ x \in DrawnBuffers(mesh)
      \/ textured /\ x \in AssetWork(mesh, ImagesOf(s, mesh), currentFrame)
      \/ environment /\ x \in EnvironmentWork(s.r.materials)
  BY <1>1, <1>2, <1>3, <1>4 DEF MeshWork
<1>7. InFrame(s) /\ EnvironmentReady(s)
  BY DEF FrameReady
<1>8. name \in AllPipelines /\ Exists(s.d, name)
  <2>1. shadowed \in BOOLEAN /\ textured \in BOOLEAN /\ environment \in BOOLEAN
    <3>1. s.m[mesh].textured \in BOOLEAN
      BY <1>7 DEF InFrame, Owned, MeshTable, MeshStates
    <3> QED BY <1>1, <1>2, <1>3, <3>1
  <2>2. /\ shadowed => "shadows" \in s.r.prepared
        /\ textured => "materials" \in s.r.prepared
        /\ environment => textured /\ "environment" \in s.r.prepared
    BY <1>1, <1>2, <1>3
  <2> QED BY <1>4, <2>1, <2>2, WorldPipelineThere
<1>9. Recordable(s, Pipeline(name)) /\ Recordable(s, Layout(name))
  BY <1>7, <1>8, PipelineRecordable
<1>10. ASSUME x \in DrawnBuffers(mesh) PROVE Recordable(s, x)
  <2>1. MeshesHold(s.m, s.d.held)
    BY <1>7 DEF InFrame, Owned
  <2> QED BY <1>5, <1>10, <2>1, MeshRecordable
<1>11. ASSUME textured, x \in AssetWork(mesh, ImagesOf(s, mesh), currentFrame) PROVE Recordable(s, x)
  <2>1. s.m[mesh].textured
    BY <1>2, <1>11
  <2> QED BY <1>5, <1>7, <1>11, <2>1, AssetWorkRecordable
<1>12. ASSUME environment, x \in EnvironmentWork(s.r.materials) PROVE Recordable(s, x)
  <2>1. "environment" \in s.r.prepared
    BY <1>3, <1>12
  <2> QED BY <1>7, <1>12, <2>1, EnvironmentWorkRecordable
<1> QED BY <1>6, <1>9, <1>10, <1>11, <1>12

(* Everything the shadow pass records may be recorded.                     *)
LEMMA ShadowPassRecordable ==
  ASSUME currentFrame \in FrameSlots, NEW s, FrameReady(s), NEW f, f.draws \in Seq(Meshes),
         NEW x \in ShadowPassWork(s, f)
  PROVE  Recordable(s, x)
<1>1. InFrame(s) /\ ShadowsReady(s) /\ "shadows" \in s.r.prepared
  BY DEF FrameReady, ShadowPassWork
<1>2. \/ x \in ShadowWork(currentFrame)
      \/ \E i \in DOMAIN f.draws : f.draws[i] \in In(s, "resident") /\ x \in DrawnBuffers(f.draws[i])
  BY <1>1 DEF ShadowPassWork
<1>3. ASSUME NEW i \in DOMAIN f.draws, f.draws[i] \in In(s, "resident"), x \in DrawnBuffers(f.draws[i])
      PROVE  Recordable(s, x)
  <2>1. PICK mesh : mesh = f.draws[i]
    OBVIOUS
  <2>2. mesh \in Meshes /\ s.m[mesh].state = "resident"
    BY <1>3, <2>1 DEF In
  <2>3. MeshesHold(s.m, s.d.held)
    BY <1>1 DEF InFrame, Owned
  <2> QED BY <1>3, <2>1, <2>2, <2>3, MeshRecordable
<1> QED BY <1>1, <1>2, <1>3, ShadowWorkRecordable

(* The pipelines but those of meshes.                                      *)
Painting(s) ==
  {n \in PlainPipelines \ {"box", "mesh"} : Exists(s.d, n)}
    \cup (IF Exists(s.d, "box") THEN {IF "shadows" \in s.r.prepared THEN "box shadowed" ELSE "box"} ELSE {})

(* The pipelines a frame paints with exist.                                *)
LEMMA PaintingThere ==
  ASSUME NEW s, FrameReady(s), NEW name \in Painting(s)
  PROVE  Recordable(s, Pipeline(name)) /\ Recordable(s, Layout(name))
<1>1. name \in AllPipelines /\ Exists(s.d, name)
  <2>1. CASE name \in {n \in PlainPipelines \ {"box", "mesh"} : Exists(s.d, n)}
    BY <2>1 DEF AllPipelines
  <2>2. CASE Exists(s.d, "box") /\ name = IF "shadows" \in s.r.prepared THEN "box shadowed" ELSE "box"
    <3>1. "box shadowed" \in AllPipelines /\ "box" \in AllPipelines
      BY DEF AllPipelines, PlainPipelines, ReceiverPipelines
    <3>2. "shadows" \in s.r.prepared => Exists(s.d, "box shadowed")
      BY DEF FrameReady, ShadowsReady
    <3> QED BY <2>2, <3>1, <3>2
  <2> QED BY <2>1, <2>2 DEF Painting
<1> QED BY <1>1, PipelineRecordable DEF FrameReady

(* recordCommandBuffer refers to what exists and stays.                    *)
LEMMA RecordedStays ==
  ASSUME currentFrame \in FrameSlots, NEW f \in Requests, NEW s, Drawable(s, f), Reflects(s.r.materials),
         NEW image \in Images, NEW turns \in Nat, NEW work, work = Recorded(s, f, image)
  PROVE  work \subseteq s.d.held /\ WorkIsKept(work, currentFrame, turns, s.r.ui, s.m)
<1>1. SUFFICES ASSUME NEW x \in work PROVE Recordable(s, x)
  BY <1>1, AllRecordable
<1>2. FrameReady(s) /\ InFrame(s) /\ InterfaceReady(s, f.interface)
  BY DEF Drawable, FrameReady
<1>3. f.draws \in Seq(Meshes) /\ f.view \subseteq Meshes /\ f.interface \in Seq(Textures)
  BY DEF Requests, Textures
<1>4. PICK base : base = {CommandBuffer(currentFrame), Swapchain, SwapView(image), SwapTarget(image), RenderPass}
  OBVIOUS
<1>5. PICK others : others = Painting(s)
  OBVIOUS
<1>6. PICK world : world = {f.draws[i] : i \in DOMAIN f.draws}
  OBVIOUS
<1>7. work = base \cup DepthObjects \cup SyncOf(currentFrame)
        \cup {Pipeline(n) : n \in others} \cup {Layout(n) : n \in others}
        \cup ShadowPassWork(s, f)
        \cup (IF Exists(s.d, "mesh")
              THEN (UNION {MeshWork(s, mesh, TRUE) : mesh \in world})
                     \cup UNION {MeshWork(s, mesh, FALSE) : mesh \in f.view}
              ELSE {})
        \cup UiWork(s.r.ui, currentFrame, f.interface)
  BY <1>4, <1>5, <1>6 DEF Recorded, Painting
<1>8. \/ x \in base \/ x \in DepthObjects \cup SyncOf(currentFrame)
      \/ \E n \in others : x = Pipeline(n) \/ x = Layout(n)
      \/ x \in ShadowPassWork(s, f)
      \/ Exists(s.d, "mesh") /\ \E mesh \in world : x \in MeshWork(s, mesh, TRUE)
      \/ Exists(s.d, "mesh") /\ \E mesh \in f.view : x \in MeshWork(s, mesh, FALSE)
      \/ x \in UiWork(s.r.ui, currentFrame, f.interface)
  BY <1>1, <1>7
<1>9. ASSUME x \in base \/ x \in DepthObjects \cup SyncOf(currentFrame) PROVE Recordable(s, x)
  BY <1>2, <1>4, <1>9, BaseRecordable
<1>10. ASSUME NEW n \in others, x = Pipeline(n) \/ x = Layout(n) PROVE Recordable(s, x)
  BY <1>2, <1>5, <1>10, PaintingThere
<1>11. ASSUME x \in ShadowPassWork(s, f) PROVE Recordable(s, x)
  BY <1>2, <1>3, <1>11, ShadowPassRecordable
<1>12. ASSUME Exists(s.d, "mesh"), NEW mesh \in world, x \in MeshWork(s, mesh, TRUE) PROVE Recordable(s, x)
  <2>1. mesh \in Meshes
    BY <1>3, <1>6
  <2>2. TRUE \in BOOLEAN
    OBVIOUS
  <2> QED BY <1>2, <1>12, <2>1, <2>2, MeshWorkRecordable
<1>13. ASSUME Exists(s.d, "mesh"), NEW mesh \in f.view, x \in MeshWork(s, mesh, FALSE) PROVE Recordable(s, x)
  <2>1. mesh \in Meshes /\ FALSE \in BOOLEAN
    BY <1>3
  <2> QED BY <1>2, <1>13, <2>1, MeshWorkRecordable
<1>14. ASSUME x \in UiWork(s.r.ui, currentFrame, f.interface) PROVE Recordable(s, x)
  BY <1>2, <1>3, <1>14, UiWorkRecordable
<1> QED BY <1>8, <1>9, <1>10, <1>11, <1>12, <1>13, <1>14

(* The frame that is drawn, and the invariant.                             *)
FrameIs(d, r, m, ready, current, work) ==
  /\ ready /\ d.work[current] = {} /\ work \subseteq d.held
  /\ WorkIsKept(work, current, FramesInFlight, r.ui, m)
FrameInv == frame # NoFrame => FrameIs(driver, renderer, meshes, isReady, currentFrame, recorded)
KInv ==
  /\ game \in Games /\ isReady \in BOOLEAN /\ shown \subseteq Sources /\ currentFrame \in FrameSlots
  /\ BackendInv /\ FrameInv

(* A renderer in its frame is a good backend.                              *)
LEMMA InFrameIsBackend ==
  ASSUME NEW s, InFrame(s)
  PROVE  BackendIs(s.d, s.r, s.m, TRUE, currentFrame)
<1>1. Clean(s.d) /\ IsRenderer(s.r) /\ Owned(s.d, s.r, s.m)
  BY DEF InFrame, FrameHolds, IsSystem
<1>2. DeviceHolds(s.d.held) /\ Instance \in s.d.held
  BY DEF InFrame, FrameHolds, DeviceHolds, DeviceObjects
<1>3. Dressed(s.d, s.r)
  BY DEF InFrame, FrameHolds, Dressed
<1>4. WorksStay(s.d, s.r.ui, s.m, currentFrame)
  BY DEF InFrame
<1> QED BY <1>1, <1>2, <1>3, <1>4 DEF BackendIs

(* Dressed or undressed, chain and pipelines have no object beyond their   *)
(* own.                                                                    *)
LEMMA PlainlyThere ==
  ASSUME NEW d, NEW r, Dressed(d, r) \/ Undressed(d, r)
  PROVE  PlainlyChain(d.held) /\ PlainlyPipelines(d.held)
<1>1. CASE Dressed(d, r)
  <2>1. ChainHolds(d.held) /\ PipelinesHold(r.attempted, d.held)
    BY <1>1 DEF Dressed
  <2>2. PlainlyChain(d.held)
    BY <2>1 DEF ChainHolds, PlainlyChain
  <2>3. PlainlyPipelines(d.held)
    BY <2>1 DEF PipelinesHold, PlainlyPipelines
  <2> QED BY <2>2, <2>3
<1>2. CASE Undressed(d, r)
  BY <1>2 DEF Undressed, PlainlyChain, PlainlyPipelines
<1> QED BY <1>1, <1>2

(* A backend with a device may be cleared.                                 *)
LEMMA BackendStands ==
  ASSUME NEW d, NEW r, NEW m, NEW ready \in BOOLEAN, NEW current, BackendIs(d, r, m, ready, current),
         Instance \in d.held, NEW s, s = [d |-> d, r |-> r, m |-> m]
  PROVE  Stands(s) /\ DeviceHolds(s.d.held) /\ Surface \in s.d.held
<1>1. s.d = d /\ s.r = r /\ s.m = m /\ {"d", "r", "m"} \subseteq DOMAIN s
  OBVIOUS
<1>2. Clean(d) /\ IsRenderer(r) /\ Owned(d, r, m) /\ DeviceHolds(d.held) /\ (Dressed(d, r) \/ Undressed(d, r))
  BY DEF BackendIs
<1>3. IsMaterials(r.materials)
  BY <1>2 DEF Owned, MatOwns, MaterialFlags
<1>4. IsSystem(s)
  BY <1>1, <1>2, <1>3 DEF IsSystem
<1>5. Device \in d.held /\ Surface \in d.held
  BY <1>2 DEF DeviceHolds, DeviceObjects
<1>6. PlainlyChain(d.held) /\ PlainlyPipelines(d.held)
  BY <1>2, PlainlyThere
<1> QED BY <1>1, <1>2, <1>4, <1>5, <1>6 DEF Stands

(* Without submitted work nothing must stay.                               *)
LEMMA NothingWorks ==
  ASSUME NEW d, Busy(d) = {}, NEW u, NEW m, NEW current
  PROVE  WorksStay(d, u, m, current)
<1>1. SUFFICES ASSUME NEW slot \in FrameSlots
               PROVE  WorkIsKept(d.work[slot], slot, Distance(slot, current), u, m)
  BY DEF WorksStay
<1>2. PICK w, turns : w = d.work[slot] /\ turns = Distance(slot, current)
  OBVIOUS
<1>3. w = {}
  BY <1>2, SlotsAreWorks DEF Busy
<1>4. WorkIsKept(w, slot, turns, u, m)
  BY <1>3, NothingIsKept
<1> QED BY <1>2, <1>4

(* ... and has another swapchain, or none.                                 *)
LEMMA RecreatedIsBackend ==
  ASSUME NEW s, Stands(s), DeviceHolds(s.d.held), Surface \in s.d.held, NEW o \in Recreated(s), NEW current
  PROVE  BackendIs(o.d, o.r, o.m, o.ready, current) /\ o.ready \in BOOLEAN /\ o.m = s.m
<1>1. RecreatedWith(s, o)
  BY RecreatedOwns
<1>2. Clean(o.d) /\ Busy(o.d) = {} /\ IsRenderer(o.r) /\ Owned(o.d, o.r, o.m)
  BY <1>1 DEF RecreatedWith, Rests
<1>3. DeviceHolds(o.d.held)
  BY <1>1, ChainSame DEF RecreatedWith
<1>4. Instance \in o.d.held
  BY <1>3 DEF DeviceHolds, DeviceObjects
<1>5. WorksStay(o.d, o.r.ui, o.m, current)
  BY <1>2, NothingWorks
<1>6. IF o.ready THEN Dressed(o.d, o.r) ELSE Undressed(o.d, o.r)
  BY <1>1 DEF RecreatedWith
<1> QED BY <1>1, <1>2, <1>3, <1>4, <1>5, <1>6 DEF BackendIs, RecreatedWith

(* A renderer in its frame stands on its device.                           *)
LEMMA InFrameStands ==
  ASSUME NEW s, InFrame(s)
  PROVE  Stands(s) /\ DeviceHolds(s.d.held) /\ Surface \in s.d.held
<1>1. IsSystem(s) /\ Clean(s.d) /\ Owned(s.d, s.r, s.m) /\ DeviceHolds(s.d.held)
  BY DEF InFrame, FrameHolds
<1>2. Device \in s.d.held /\ Surface \in s.d.held
  BY <1>1 DEF DeviceHolds, DeviceObjects
<1>3. Dressed(s.d, s.r)
  BY DEF InFrame, FrameHolds, Dressed
<1>4. PlainlyChain(s.d.held) /\ PlainlyPipelines(s.d.held)
  BY <1>3, PlainlyThere
<1> QED BY <1>1, <1>2, <1>4 DEF Stands

(* A frame that was prepared is recorded.                                  *)
LEMMA RecordsKeeps ==
  ASSUME currentFrame \in FrameSlots, NEW f \in Requests, NEW s, Drawable(s, f), Reflects(s.r.materials),
         isReady, Records(s, f), UNCHANGED currentFrame
  PROVE  BackendInv' /\ FrameInv'
<1>1. InFrame(s)
  BY DEF Drawable, FrameReady
<1>2. driver' = s.d
  <2>1. CommandBuffer(currentFrame) \in s.d.held
    BY <1>1 DEF InFrame, FrameHolds, DeviceHolds, DeviceObjects, CommandBuffers
  <2>2. CommandBuffer(currentFrame) \notin Busy(s.d)
    BY <1>1, OwnMemoryIdle DEF SlotMemory
  <2>3. Clean(s.d)
    BY <1>1 DEF InFrame, FrameHolds
  <2>4. PICK objects : objects = {CommandBuffer(currentFrame)}
    OBVIOUS
  <2>5. Rewrite(s.d, objects) = s.d
    BY <2>1, <2>2, <2>3, <2>4, RewriteIsClean
  <2> QED BY <2>4, <2>5 DEF Records
<1>3. renderer' = s.r /\ meshes' = s.m /\ isReady' = TRUE /\ currentFrame' = currentFrame
  BY DEF Records
<1>4. BackendInv'
  <2>1. BackendIs(s.d, s.r, s.m, TRUE, currentFrame)
    BY <1>1, InFrameIsBackend
  <2> QED BY <1>2, <1>3, <2>1 DEF BackendInv
<1>5. FrameInv'
  <2>1. PICK image \in Images : recorded' = Recorded(s, f, image)
    BY DEF Records
  <2>2. FramesInFlight \in Nat
    BY DriverAssumption
  <2>3. recorded' \subseteq s.d.held /\ WorkIsKept(recorded', currentFrame, FramesInFlight, s.r.ui, s.m)
    BY <2>1, <2>2, RecordedStays
  <2>4. s.d.work[currentFrame] = {}
    BY <1>1 DEF InFrame
  <2>5. FrameIs(s.d, s.r, s.m, TRUE, currentFrame, recorded')
    BY <2>3, <2>4 DEF FrameIs
  <2> QED BY <1>2, <1>3, <2>5 DEF FrameInv
<1> QED BY <1>4, <1>5

(* A frame that is skipped keeps the invariant.                            *)
LEMMA SkipsKeeps ==
  ASSUME NEW s, InFrame(s), isReady, frame = NoFrame, Skips(s), UNCHANGED currentFrame
  PROVE  BackendInv' /\ FrameInv'
<1>1. driver' = s.d /\ renderer' = s.r /\ meshes' = s.m /\ isReady' = TRUE /\ currentFrame' = currentFrame /\ frame' = NoFrame
  BY DEF Skips
<1>2. BackendIs(s.d, s.r, s.m, TRUE, currentFrame)
  BY InFrameIsBackend
<1> QED BY <1>1, <1>2 DEF BackendInv, FrameInv, NoFrame

(* A frame that recreates the swapchain keeps the invariant.               *)
LEMMA RebuildsKeeps ==
  ASSUME NEW s, InFrame(s), frame = NoFrame, Rebuilds(s), UNCHANGED currentFrame
  PROVE  BackendInv' /\ FrameInv' /\ isReady' \in BOOLEAN
<1>1. PICK o \in Recreated(s) : driver' = o.d /\ renderer' = o.r /\ meshes' = o.m /\ isReady' = o.ready
  BY DEF Rebuilds
<1>2. currentFrame' = currentFrame /\ frame' = NoFrame
  BY DEF Rebuilds, NoFrame
<1>3. Stands(s) /\ DeviceHolds(s.d.held) /\ Surface \in s.d.held
  BY InFrameStands
<1>4. BackendIs(o.d, o.r, o.m, o.ready, currentFrame) /\ o.ready \in BOOLEAN
  BY <1>3, RecreatedIsBackend
<1> QED BY <1>1, <1>2, <1>4 DEF BackendInv, FrameInv, NoFrame

(* beginFrame                                                              *)
LEMMA BeginFrameKeeps ==
  ASSUME KInv, RInv, NEW f \in game.requests, NEW cooled, NEW posed, BeginFrame(f, cooled, posed), game' = game
  PROVE  KInv'
<1>1. PICK s \in Prepared(f, cooled, posed) : Records(s, f) \/ Skips(s) \/ Rebuilds(s)
  BY DEF BeginFrame
<1>2. isReady /\ frame = NoFrame /\ UNCHANGED <<shown, currentFrame>>
  BY DEF BeginFrame, Begins
<1>3. f \in Requests /\ (f.interface # <<>> => f.size > 0)
  BY GamesAssumption DEF KInv
<1>4. Drawable(s, f)
  BY <1>1, <1>2, <1>3, PreparedKeeps DEF KInv, RInv
<1>5. Reflects(s.r.materials)
  <2>1. Len(f.draws) \in Nat
    BY <1>3 DEF Requests
  <2>2. ReflectsIn(s, f.sky)
    BY <1>1, <1>2, <2>1, PreparedReflects DEF RInv
  <2> QED BY <2>2 DEF ReflectsIn
<1>6. InFrame(s) /\ currentFrame \in FrameSlots
  BY <1>4 DEF Drawable, FrameReady, KInv
<1>7. BackendInv' /\ FrameInv' /\ isReady' \in BOOLEAN
  <2>1. CASE Records(s, f)
    <3>1. isReady' = isReady
      BY <2>1 DEF Records
    <3> QED BY <1>2, <1>3, <1>4, <1>5, <1>6, <2>1, <3>1, RecordsKeeps
  <2>2. CASE Skips(s)
    <3>1. isReady' = isReady
      BY <2>2 DEF Skips
    <3> QED BY <1>2, <1>6, <2>2, <3>1, SkipsKeeps
  <2>3. CASE Rebuilds(s)
    BY <1>2, <1>6, <2>3, RebuildsKeeps
  <2> QED BY <1>1, <2>1, <2>2, <2>3
<1> QED BY <1>2, <1>7 DEF KInv

(* Meshes that are used for some turns are used for others.                *)
Passes(m, turns, n, later) ==
  \A mesh \in Meshes : InUse(m[mesh], turns) =>
    /\ InUse(n[mesh], later) /\ (m[mesh].textured => n[mesh].textured) /\ m[mesh].images \subseteq n[mesh].images
(* Work stays good when meshes pass from one account to the next.          *)
LEMMA WorkPasses ==
  ASSUME NEW w, NEW slot, NEW turns, NEW u, NEW m, WorkIsKept(w, slot, turns, u, m),
         NEW n, NEW later, Passes(m, turns, n, later)
  PROVE  WorkIsKept(w, slot, later, u, n)
<1>1. \A other \in FrameSlots \ {slot} : w \cap SlotMemory(other) = {}
  BY DEF WorkIsKept
<1>2. \A t \in Textures : w \cap TextureObjects(t) # {} => t \in u.retained[slot]
  BY DEF WorkIsKept
<1>3. \A mesh \in Meshes : w \cap MeshObjects(mesh) # {} => InUse(n[mesh], later)
  BY DEF WorkIsKept, Passes
<1>4. \A mesh \in Meshes : w \cap AssetAll(mesh) # {} => InUse(n[mesh], later) /\ n[mesh].textured
  BY DEF WorkIsKept, Passes
<1>5. \A c \in Contents : w \cap ImageObjects(c) # {} => \E mesh \in Meshes : c \in n[mesh].images /\ InUse(n[mesh], later)
  <2>1. SUFFICES ASSUME NEW c \in Contents, w \cap ImageObjects(c) # {}
                 PROVE  \E mesh \in Meshes : c \in n[mesh].images /\ InUse(n[mesh], later)
    OBVIOUS
  <2>2. PICK mesh \in Meshes : c \in m[mesh].images /\ InUse(m[mesh], turns)
    BY <2>1 DEF WorkIsKept
  <2>3. c \in n[mesh].images /\ InUse(n[mesh], later)
    BY <2>2 DEF Passes
  <2> QED BY <2>3
<1> QED BY <1>1, <1>2, <1>3, <1>4, <1>5 DEF WorkIsKept

(* Other states of the same meshes.                                        *)
SameMeshes(m, n) ==
  /\ MeshTable(n)
  /\ \A mesh \in Meshes : /\ Loaded(n[mesh]) <=> Loaded(m[mesh])
                          /\ n[mesh].textured = m[mesh].textured /\ n[mesh].images = m[mesh].images
(* Owning depends on the meshes' loaded states, materials and images.      *)
LEMMA SameMeshesOwned ==
  ASSUME NEW d, NEW r, NEW m, Owned(d, r, m), NEW n, SameMeshes(m, n)
  PROVE  Owned(d, r, n)
<1>1. Others(n) = Others(m)
  BY DEF Others, SameMeshes
<1>2. PICK others : others = Others(m)
  OBVIOUS
<1>3. MatOwns(r.materials, d, others)
  BY <1>2 DEF Owned
<1>4. MeshesHold(n, d.held)
  <2>1. MeshesHold(m, d.held)
    BY DEF Owned
  <2> QED BY <2>1 DEF MeshesHold, SameMeshes
<1>5. AssetsHold(n, d.held)
  <2>1. AssetsHold(m, d.held)
    BY DEF Owned
  <2> QED BY <2>1 DEF AssetsHold, SameMeshes
<1>6. \A mesh \in Meshes : n[mesh].textured => r.materials.ready
  BY DEF Owned, SameMeshes
<1>7. ShadowsOwn(r.shadows, Of(ShadowKinds, d.held)) /\ UiHolds(r.ui, d.held) /\ (\A x \in d.held : x[1] \in KnownKinds)
  BY DEF Owned
<1>8. MeshTable(n)
  BY DEF SameMeshes
<1> QED BY <1>1, <1>2, <1>3, <1>4, <1>5, <1>6, <1>7, <1>8 DEF Owned

(* A good backend stays one when only the table of meshes moves on.        *)
LEMMA SameMeshesBackend ==
  ASSUME NEW d, NEW r, NEW m, NEW ready, NEW current, BackendIs(d, r, m, ready, current), Instance \in d.held,
         NEW n, SameMeshes(m, n), NEW next, WorksStay(d, r.ui, n, next)
  PROVE  BackendIs(d, r, n, ready, next)
<1>1. Owned(d, r, n)
  BY SameMeshesOwned DEF BackendIs
<1> QED BY <1>1 DEF BackendIs

(* A frame slot's turns are fewer than the frames in flight.               *)
LEMMA WorksPass ==
  ASSUME NEW current \in FrameSlots, NEW d, NEW u, NEW m, WorksStay(d, u, m, current), NEW n,
         \A turns \in 0 .. FramesInFlight : Passes(m, turns, n, turns)
  PROVE  WorksStay(d, u, n, current)
<1>1. SUFFICES ASSUME NEW slot \in FrameSlots
               PROVE  WorkIsKept(d.work[slot], slot, Distance(slot, current), u, n)
  BY DEF WorksStay
<1>2. PICK w, turns : w = d.work[slot] /\ turns = Distance(slot, current)
  OBVIOUS
<1>3. WorkIsKept(w, slot, turns, u, m)
  BY <1>2 DEF WorksStay
<1>4. turns \in 0 .. FramesInFlight
  BY <1>2, DistanceIs, DriverAssumption
<1>5. WorkIsKept(w, slot, turns, u, n)
  BY <1>3, <1>4, WorkPasses
<1> QED BY <1>2, <1>5

(* Between frames, a change of the table of meshes keeps the invariant.    *)
LEMMA MeshesPassBackend ==
  ASSUME KInv, isReady, NEW n, SameMeshes(meshes, n), \A turns \in 0 .. FramesInFlight : Passes(meshes, turns, n, turns),
         meshes' = n, UNCHANGED <<game, driver, renderer, isReady, shown, currentFrame, frame, recorded>>
  PROVE  KInv'
<1>1. PICK d, r, m, current : d = driver /\ r = renderer /\ m = meshes /\ current = currentFrame
  OBVIOUS
<1>2. BackendIs(d, r, m, isReady, current) /\ Instance \in d.held /\ current \in FrameSlots
  BY <1>1 DEF KInv, BackendInv, BackendIs
<1>3. WorksStay(d, r.ui, n, current)
  <2>1. PICK u : u = r.ui
    OBVIOUS
  <2>2. WorksStay(d, u, m, current)
    BY <1>2, <2>1 DEF BackendIs
  <2>3. WorksStay(d, u, n, current)
    BY <1>1, <1>2, <2>2, WorksPass
  <2> QED BY <2>1, <2>3
<1>4. BackendIs(d, r, n, isReady, current)
  BY <1>1, <1>2, <1>3, SameMeshesBackend
<1>5. BackendInv'
  BY <1>1, <1>4 DEF BackendInv
<1>6. FrameInv'
  <2>1. SUFFICES ASSUME frame # NoFrame PROVE FrameIs(d, r, n, isReady, current, recorded)
    BY <1>1, <2>1 DEF FrameInv, NoFrame
  <2>2. FrameIs(d, r, m, isReady, current, recorded)
    BY <1>1, <2>1 DEF KInv, FrameInv
  <2>3. PICK w, u : w = recorded /\ u = r.ui
    OBVIOUS
  <2>4. FramesInFlight \in 0 .. FramesInFlight
    BY DriverAssumption
  <2>5. WorkIsKept(w, current, FramesInFlight, u, m)
    BY <2>2, <2>3 DEF FrameIs
  <2>6. Passes(m, FramesInFlight, n, FramesInFlight)
    BY <1>1, <2>4
  <2>7. WorkIsKept(w, current, FramesInFlight, u, n)
    BY <2>5, <2>6, WorkPasses
  <2> QED BY <2>2, <2>3, <2>7 DEF FrameIs
<1> QED BY <1>5, <1>6 DEF KInv

(* registerMeshResource                                                    *)
LEMMA RegisterKeeps ==
  ASSUME KInv, NEW mesh \in Meshes, Register(mesh), game' = game
  PROVE  KInv'
<1>1. PICK n : n = meshes'
  OBVIOUS
<1>2. PICK m : m = meshes
  OBVIOUS
<1>3. MeshTable(m)
  BY <1>2 DEF KInv, BackendInv, BackendIs, Owned
<1>4. n = [m EXCEPT ![mesh] = [NoMesh EXCEPT !.state = "pending"]] /\ m[mesh].state \in {"absent", "failed"} /\ isReady
  BY <1>1, <1>2 DEF Register
<1>5. ~ m[mesh].textured /\ m[mesh].images = {} /\ ~ Loaded(m[mesh])
  BY <1>3, <1>4 DEF MeshTable, Loaded
<1>6. PICK fresh : fresh = [NoMesh EXCEPT !.state = "pending"]
  OBVIOUS
<1>7. fresh \in MeshStates /\ fresh.textured = FALSE /\ fresh.images = {} /\ ~ Loaded(fresh)
  BY <1>6 DEF NoMesh, MeshStates, Loaded
<1>8. n \in [Meshes -> MeshStates] /\ n[mesh] = fresh /\ \A other \in Meshes \ {mesh} : n[other] = m[other]
  BY <1>3, <1>4, <1>6, <1>7 DEF MeshTable
<1>9. m[mesh].textured = FALSE
  BY <1>3, <1>5 DEF MeshTable, MeshStates
<1>10. SameMeshes(m, n)
  <2>1. MeshTable(n)
    BY <1>3, <1>7, <1>8 DEF MeshTable
  <2>2. ASSUME NEW other \in Meshes
        PROVE  /\ Loaded(n[other]) <=> Loaded(m[other])
               /\ n[other].textured = m[other].textured /\ n[other].images = m[other].images
    <3>1. CASE other = mesh
      BY <1>5, <1>7, <1>8, <1>9, <3>1
    <3>2. CASE other # mesh
      BY <1>8, <3>2
    <3> QED BY <3>1, <3>2
  <2> QED BY <2>1, <2>2 DEF SameMeshes
<1>11. ASSUME NEW turns \in 0 .. FramesInFlight PROVE Passes(m, turns, n, turns)
  <2>1. ~ InUse(m[mesh], turns)
    BY <1>4 DEF InUse
  <2> QED BY <1>8, <2>1 DEF Passes
<1>12. UNCHANGED <<game, driver, renderer, isReady, shown, currentFrame, frame, recorded>>
  BY DEF Register
<1> QED BY <1>1, <1>2, <1>4, <1>10, <1>11, <1>12, MeshesPassBackend

(* releaseMeshResource                                                     *)
LEMMA ReleaseKeeps ==
  ASSUME KInv, NEW mesh \in Meshes, Release(mesh), game' = game
  PROVE  KInv'
<1>1. PICK n : n = meshes'
  OBVIOUS
<1>2. PICK m : m = meshes
  OBVIOUS
<1>3. MeshTable(m) /\ m[mesh] \in MeshStates
  BY <1>2 DEF KInv, BackendInv, BackendIs, Owned, MeshTable
<1>4. PICK left : left = IF m[mesh].state = "resident" THEN [m[mesh] EXCEPT !.state = "retired", !.wait = FramesInFlight + 1]
                         ELSE NoMesh
  OBVIOUS
<1>5. n = [m EXCEPT ![mesh] = left] /\ m[mesh].state \in {"pending", "failed", "resident"} /\ isReady
  BY <1>1, <1>2, <1>3, <1>4 DEF Release, MeshTable
<1>6. /\ left \in MeshStates /\ left.textured = m[mesh].textured /\ left.images = m[mesh].images
      /\ Loaded(left) <=> Loaded(m[mesh])
      /\ left.textured => left.tried
  <2>1. CASE m[mesh].state = "resident"
    <3>1. left = [m[mesh] EXCEPT !.state = "retired", !.wait = FramesInFlight + 1] /\ FramesInFlight + 1 \in Nat
      BY <1>4, <2>1, DriverAssumption
    <3>2. /\ left \in MeshStates /\ left.textured = m[mesh].textured /\ left.images = m[mesh].images
          /\ left.state = "retired" /\ left.tried = m[mesh].tried
      BY <1>3, <3>1 DEF MeshStates
    <3> QED BY <1>3, <2>1, <3>2 DEF Loaded, MeshTable
  <2>2. CASE m[mesh].state # "resident"
    <3>1. left = NoMesh
      BY <1>4, <2>2
    <3>2. left \in MeshStates /\ left.textured = FALSE /\ left.images = {} /\ ~ Loaded(left)
      BY <3>1 DEF NoMesh, MeshStates, Loaded
    <3>3. ~ Loaded(m[mesh])
      BY <1>5, <2>2 DEF Loaded
    <3>4. m[mesh].textured = FALSE /\ m[mesh].images = {}
      BY <1>3, <3>3 DEF MeshTable, MeshStates
    <3> QED BY <3>2, <3>3, <3>4
  <2> QED BY <2>1, <2>2
<1>7. n \in [Meshes -> MeshStates] /\ n[mesh] = left /\ \A other \in Meshes \ {mesh} : n[other] = m[other]
  BY <1>3, <1>5, <1>6 DEF MeshTable
<1>8. SameMeshes(m, n)
  <2>1. ASSUME NEW other \in Meshes
        PROVE  /\ Loaded(n[other]) <=> Loaded(m[other])
               /\ n[other].textured = m[other].textured /\ n[other].images = m[other].images
               /\ n[other].textured => n[other].tried
    <3>1. CASE other = mesh
      BY <1>6, <1>7, <3>1
    <3>2. CASE other # mesh
      BY <1>3, <1>7, <3>2 DEF MeshTable
    <3> QED BY <3>1, <3>2
  <2>2. MeshTable(n)
    BY <1>3, <1>7, <2>1 DEF MeshTable
  <2> QED BY <2>1, <2>2 DEF SameMeshes
<1>9. ASSUME NEW turns \in 0 .. FramesInFlight PROVE Passes(m, turns, n, turns)
  <2>1. InUse(m[mesh], turns) => InUse(left, turns)
    <3>1. CASE m[mesh].state = "resident"
      <4>1. left = [m[mesh] EXCEPT !.state = "retired", !.wait = FramesInFlight + 1]
        BY <1>4, <3>1
      <4>2. left.state = "retired" /\ left.wait = FramesInFlight + 1
        BY <1>3, <4>1 DEF MeshStates
      <4>3. FramesInFlight + 1 > turns
        BY DriverAssumption
      <4> QED BY <4>2, <4>3 DEF InUse
    <3>2. CASE m[mesh].state # "resident"
      BY <1>5, <3>2 DEF InUse
    <3> QED BY <3>1, <3>2
  <2> QED BY <1>6, <1>7, <2>1 DEF Passes
<1>10. UNCHANGED <<game, driver, renderer, isReady, shown, currentFrame, frame, recorded>>
  BY DEF Release
<1> QED BY <1>1, <1>2, <1>5, <1>8, <1>9, <1>10, MeshesPassBackend

(* The game takes or drops a texture of its own.                           *)
LEMMA ShowKeeps ==
  ASSUME KInv, NEW t \in Sources, Show(t), game' = game
  PROVE  KInv'
<1>1. shown' \subseteq Sources
  BY DEF KInv, Show
<1>2. UNCHANGED <<driver, renderer, meshes, isReady, currentFrame, frame, recorded>>
  BY DEF Show
<1>3. BackendInv' /\ FrameInv'
  BY <1>2 DEF KInv, BackendInv, FrameInv, NoFrame
<1> QED BY <1>1, <1>2, <1>3 DEF KInv

(* A backend whose driver holds the same and works no more than before.    *)
LEMMA SameHeldBackend ==
  ASSUME NEW d, NEW r, NEW m, NEW ready, NEW current, BackendIs(d, r, m, ready, current), Instance \in d.held,
         NEW e, Clean(e), e.held = d.held, e.work[OneTime] \subseteq d.work[OneTime], e.refusals >= d.refusals,
         NEW next, WorksStay(e, r.ui, m, next)
  PROVE  BackendIs(e, r, m, ready, next)
<1>1. PICK kinds, works : kinds = {} /\ works = {OneTime}
  OBVIOUS
<1>2. Becomes(d, e, kinds, works)
  BY <1>1 DEF Becomes
<1>3. Owned(d, r, m)
  BY DEF BackendIs
<1>4. Owned(e, r, m)
  <2>1. \A mesh \in Meshes : m[mesh].textured => r.materials.ready
    BY <1>3 DEF Owned
  <2>2. kinds \subseteq KnownKinds /\ kinds \cap ShadowKinds = {} /\ kinds \cap UiKinds = {} /\ kinds \cap PrepareKinds = {}
        /\ kinds \cap MeshKinds = {} /\ kinds \cap AssetKinds = {} /\ OneTime \in works
    BY <1>1
  <2> QED BY <1>2, <1>3, <2>1, <2>2, OwnedStays
<1>5. DeviceHolds(e.held) /\ (IF ready THEN Dressed(e, r) ELSE Undressed(e, r)) /\ IsRenderer(r)
  BY DEF BackendIs, Dressed, Undressed
<1> QED BY <1>4, <1>5 DEF BackendIs

(* beginFrame with another window                                          *)
LEMMA WindowChangedKeeps ==
  ASSUME KInv, WindowChanged, game' = game
  PROVE  KInv'
<1>1. PICK o \in Recreated(System) : driver' = o.d /\ renderer' = o.r /\ isReady' = o.ready
  BY DEF WindowChanged
<1>2. isReady /\ UNCHANGED <<meshes, shown, currentFrame>> /\ frame' = NoFrame
  BY DEF WindowChanged, Idles
<1>3. PICK s : s = System
  OBVIOUS
<1>4. Stands(s) /\ DeviceHolds(s.d.held) /\ Surface \in s.d.held
  <2>1. BackendIs(driver, renderer, meshes, isReady, currentFrame) /\ Instance \in driver.held /\ isReady \in BOOLEAN
    BY <1>2 DEF KInv, BackendInv, BackendIs
  <2>2. s = [d |-> driver, r |-> renderer, m |-> meshes]
    BY <1>3 DEF System
  <2> QED BY <2>1, <2>2, BackendStands
<1>5. BackendIs(o.d, o.r, o.m, o.ready, currentFrame) /\ o.ready \in BOOLEAN /\ o.m = s.m
  BY <1>1, <1>3, <1>4, RecreatedIsBackend
<1>6. o.m = meshes
  BY <1>3, <1>5 DEF System
<1>7. BackendInv'
  BY <1>1, <1>2, <1>5, <1>6 DEF BackendInv
<1>8. FrameInv'
  BY <1>2 DEF FrameInv, NoFrame
<1> QED BY <1>1, <1>2, <1>5, <1>7, <1>8 DEF KInv

(* endFrame, when vkQueueSubmit fails                                      *)
LEMMA SubmitFailsKeeps ==
  ASSUME KInv, SubmitFails, game' = game
  PROVE  KInv'
<1>1. isReady /\ driver' = Refuse(driver) /\ frame' = NoFrame /\ UNCHANGED <<renderer, meshes, isReady, shown, currentFrame>>
  BY DEF SubmitFails, Idles
<1>2. PICK d, e, m, u : d = driver /\ e = Refuse(driver) /\ m = meshes /\ u = renderer.ui
  OBVIOUS
<1>3. BackendIs(d, renderer, m, isReady, currentFrame) /\ Instance \in d.held /\ Clean(d)
  BY <1>1, <1>2 DEF KInv, BackendInv, BackendIs
<1>4. Clean(e) /\ e.held = d.held /\ e.refusals = d.refusals + 1 /\ e.work = d.work
  BY <1>2, <1>3, RefuseIsClean
<1>5. e.refusals >= d.refusals
  <2>1. d.refusals \in Nat
    BY <1>3, CleanShape
  <2> QED BY <1>4, <2>1
<1>6. WorksStay(e, renderer.ui, m, currentFrame)
  BY <1>3, <1>4 DEF BackendIs, WorksStay
<1>7. BackendIs(e, renderer, m, isReady, currentFrame)
  BY <1>3, <1>4, <1>5, <1>6, SameHeldBackend
<1>8. BackendInv'
  BY <1>1, <1>2, <1>7 DEF BackendInv
<1>9. FrameInv'
  BY <1>1 DEF FrameInv, NoFrame
<1> QED BY <1>1, <1>8, <1>9 DEF KInv

(* The slots, one frame later.                                             *)
NextSlot(current) == (current + 1) % FramesInFlight
(* The next slot, modulo the slots in flight.                              *)
LEMMA NextSlotIs ==
  ASSUME NEW current \in FrameSlots
  PROVE  /\ NextSlot(current) \in FrameSlots
         /\ NextSlot(current) = IF current + 1 = FramesInFlight THEN 0 ELSE current + 1
<1>1. FramesInFlight \in Nat /\ FramesInFlight > 0 /\ current \in Nat /\ current < FramesInFlight
  BY DriverAssumption DEF FrameSlots
<1>2. CASE current + 1 = FramesInFlight
  <2>1. NextSlot(current) = 0
    BY <1>1, <1>2 DEF NextSlot
  <2> QED BY <1>1, <1>2, <2>1 DEF FrameSlots
<1>3. CASE current + 1 # FramesInFlight
  <2>1. NextSlot(current) = current + 1
    BY <1>1, <1>3 DEF NextSlot
  <2> QED BY <1>1, <1>3, <2>1 DEF FrameSlots
<1> QED BY <1>2, <1>3

(* From slot to slot every other slot's turn comes nearer by one.          *)
LEMMA DistanceShrinks ==
  ASSUME NEW current \in FrameSlots, NEW slot \in FrameSlots
  PROVE  IF slot = current THEN Distance(slot, NextSlot(current)) = FramesInFlight - 1
         ELSE Distance(slot, current) > 0 /\ Distance(slot, NextSlot(current)) = Distance(slot, current) - 1
<1>1. FramesInFlight \in Nat /\ FramesInFlight > 0 /\ current \in 0 .. FramesInFlight - 1 /\ slot \in 0 .. FramesInFlight - 1
  BY DriverAssumption DEF FrameSlots
<1>2. PICK next : next = NextSlot(current)
  OBVIOUS
<1>3. next = IF current + 1 = FramesInFlight THEN 0 ELSE current + 1
  BY <1>2, NextSlotIs
<1>4. IF slot = current THEN Distance(slot, next) = FramesInFlight - 1
      ELSE Distance(slot, current) > 0 /\ Distance(slot, next) = Distance(slot, current) - 1
  BY <1>1, <1>3 DEF Distance
<1> QED BY <1>2, <1>4

(* One turn less for the meshes that were released.                        *)
LEMMA AgedAre ==
  ASSUME NEW m, MeshTable(m), NEW n, n = Aged(m)
  PROVE  /\ SameMeshes(m, n)
         /\ \A turns \in Nat \ {0} : Passes(m, turns, n, turns - 1)
<1>1. ASSUME NEW mesh \in Meshes
      PROVE  /\ n[mesh] \in MeshStates /\ n[mesh].state = m[mesh].state /\ n[mesh].tried = m[mesh].tried
             /\ n[mesh].textured = m[mesh].textured /\ n[mesh].images = m[mesh].images
             /\ n[mesh].wait = IF m[mesh].wait > 0 THEN m[mesh].wait - 1 ELSE 0
             /\ m[mesh].wait \in Nat
  <2>1. PICK x : x = m[mesh]
    OBVIOUS
  <2>2. x \in MeshStates
    BY <2>1 DEF MeshTable
  <2>3. PICK wait : wait = IF x.wait > 0 THEN x.wait - 1 ELSE 0
    OBVIOUS
  <2>4. wait \in Nat /\ x.wait \in Nat
    BY <2>2, <2>3 DEF MeshStates
  <2>5. n[mesh] = [x EXCEPT !.wait = wait]
    BY <2>1, <2>3 DEF Aged
  <2> QED BY <2>1, <2>2, <2>3, <2>4, <2>5 DEF MeshStates
<1>2. n \in [Meshes -> MeshStates]
  <2>1. n = [mesh \in Meshes |-> n[mesh]]
    BY DEF Aged
  <2> QED BY <1>1, <2>1
<1>3. MeshTable(n)
  <2>1. ASSUME NEW mesh \in Meshes
        PROVE  /\ n[mesh].textured => n[mesh].tried /\ Loaded(n[mesh])
               /\ ~ n[mesh].textured => n[mesh].images = {}
    BY <1>1 DEF MeshTable, Loaded
  <2> QED BY <1>2, <2>1 DEF MeshTable
<1>4. SameMeshes(m, n)
  BY <1>1, <1>3 DEF SameMeshes, Loaded
<1>5. ASSUME NEW turns \in Nat \ {0} PROVE Passes(m, turns, n, turns - 1)
  <2>1. ASSUME NEW mesh \in Meshes, InUse(m[mesh], turns) PROVE InUse(n[mesh], turns - 1)
    <3>1. CASE m[mesh].state = "resident"
      BY <1>1, <3>1 DEF InUse
    <3>2. CASE m[mesh].state = "retired" /\ m[mesh].wait > turns
      <4>1. m[mesh].wait \in Nat /\ n[mesh].wait = m[mesh].wait - 1 /\ n[mesh].state = "retired"
        BY <1>1, <3>2
      <4>2. n[mesh].wait > turns - 1
        BY <3>2, <4>1
      <4> QED BY <4>1, <4>2 DEF InUse
    <3> QED BY <2>1, <3>1, <3>2 DEF InUse
  <2> QED BY <1>1, <2>1 DEF Passes
<1> QED BY <1>4, <1>5

(* vkQueueSubmit: what the slot's work refers to stays for all the turns   *)
(* until the slot comes up again.                                          *)
LEMMA SubmittedStays ==
  ASSUME NEW current \in FrameSlots, NEW d, NEW r, NEW m, MeshTable(m), WorksStay(d, r.ui, m, current),
         NEW work, FrameIs(d, r, m, TRUE, current, work), NEW e,
         \A slot \in FrameSlots \ {current} : e.work[slot] = d.work[slot], e.work[current] = work,
         NEW n, n = Aged(m), NEW next, next = NextSlot(current)
  PROVE  WorksStay(e, r.ui, n, next)
<1>1. SUFFICES ASSUME NEW slot \in FrameSlots
               PROVE  WorkIsKept(e.work[slot], slot, Distance(slot, next), r.ui, n)
  BY DEF WorksStay
<1>2. PICK u : u = r.ui
  OBVIOUS
<1>3. PICK later : later = Distance(slot, next)
  OBVIOUS
<1>4. \A turns \in Nat \ {0} : Passes(m, turns, n, turns - 1)
  BY AgedAre
<1>5. CASE slot = current
  <2>1. later = FramesInFlight - 1
    BY <1>3, <1>5, DistanceShrinks
  <2>2. FramesInFlight \in Nat \ {0}
    BY DriverAssumption
  <2>3. Passes(m, FramesInFlight, n, later)
    BY <1>4, <2>1, <2>2
  <2>4. WorkIsKept(work, slot, FramesInFlight, u, m)
    BY <1>2, <1>5 DEF FrameIs
  <2>5. WorkIsKept(work, slot, later, u, n)
    BY <2>3, <2>4, WorkPasses
  <2> QED BY <1>2, <1>3, <1>5, <2>5
<1>6. CASE slot # current
  <2>1. PICK turns : turns = Distance(slot, current)
    OBVIOUS
  <2>2. turns \in Nat /\ turns > 0 /\ later = turns - 1
    BY <1>3, <1>6, <2>1, DistanceShrinks, DistanceIs
  <2>3. Passes(m, turns, n, later)
    BY <1>4, <2>2
  <2>4. PICK w : w = d.work[slot]
    OBVIOUS
  <2>5. WorkIsKept(w, slot, turns, u, m)
    BY <1>2, <2>1, <2>4 DEF WorksStay
  <2>6. WorkIsKept(w, slot, later, u, n)
    BY <2>3, <2>5, WorkPasses
  <2> QED BY <1>2, <1>3, <1>6, <2>4, <2>6
<1> QED BY <1>5, <1>6

(* endFrame                                                                *)
LEMMA EndFrameKeeps ==
  ASSUME KInv, NEW rebuild \in BOOLEAN, EndFrame(rebuild), game' = game
  PROVE  KInv'
<1>1. /\ isReady = TRUE /\ frame # NoFrame /\ UNCHANGED shown /\ frame' = NoFrame
      /\ currentFrame' = NextSlot(currentFrame) /\ meshes' = Aged(meshes)
  BY DEF EndFrame, Idles, NextSlot, KInv
<1>2. PICK o \in IF rebuild THEN Recreated(Submitted) ELSE {[d |-> Submitted.d, r |-> renderer, ready |-> TRUE]} :
        driver' = o.d /\ renderer' = o.r /\ isReady' = o.ready
  BY DEF EndFrame
<1>3. PICK d, r, m, n, current, next, work : d = driver /\ r = renderer /\ m = meshes /\ n = Aged(meshes) /\ current = currentFrame
                                 /\ next = NextSlot(currentFrame) /\ work = recorded
  OBVIOUS
<1>4. current \in FrameSlots /\ BackendIs(d, r, m, TRUE, current) /\ Instance \in d.held /\ FrameIs(d, r, m, TRUE, current, work)
  BY <1>1, <1>3 DEF KInv, BackendInv, BackendIs, FrameInv
<1>5. Clean(d) /\ Owned(d, r, m) /\ WorksStay(d, r.ui, m, current)
  BY <1>4 DEF BackendIs
<1>6. MeshTable(m)
  BY <1>5 DEF Owned
<1>7. PICK e : e = Submit(d, current, work)
  OBVIOUS
<1>8. /\ Clean(e) /\ e.held = d.held /\ e.refusals = d.refusals
      /\ \A w \in Works \ {current} : e.work[w] = d.work[w]
      /\ e.work[current] = work
  <2>1. current \in Works /\ work \subseteq d.held /\ d.work[current] = {}
    BY <1>4, SlotsAreWorks DEF FrameIs
  <2>2. Clean(e) /\ e.held = d.held /\ e.refusals = d.refusals /\ e.work = [d.work EXCEPT ![current] = @ \cup work]
    BY <1>5, <1>7, <2>1, SubmitIsClean
  <2>3. d.work = [w \in Works |-> d.work[w]]
    BY <1>5, CleanShape
  <2>4. (\A w \in Works \ {current} : e.work[w] = d.work[w]) /\ e.work[current] = d.work[current] \cup work
    BY <2>1, <2>2, <2>3
  <2> QED BY <2>1, <2>2, <2>4
<1>9. Submitted = [d |-> e, r |-> r, m |-> m]
  BY <1>3, <1>7 DEF Submitted, System
<1>10. WorksStay(e, r.ui, n, next)
  <2>1. (\A slot \in FrameSlots \ {current} : e.work[slot] = d.work[slot]) /\ e.work[current] = work
    BY <1>8, SlotsAreWorks
  <2> QED BY <1>3, <1>4, <1>5, <1>6, <2>1, SubmittedStays
<1>11. e.work[OneTime] \subseteq d.work[OneTime] /\ e.refusals >= d.refusals
  <2>1. OneTime # current /\ OneTime \in Works
    BY <1>4, SlotsAreWorks
  <2>2. d.refusals \in Nat
    BY <1>5, CleanShape
  <2> QED BY <1>8, <2>1, <2>2
<1>12. SameMeshes(m, n)
  BY <1>3, <1>6, AgedAre
<1>13. next \in FrameSlots
  BY <1>3, <1>4, NextSlotIs
<1>14. BackendIs(driver', renderer', n, isReady', next) /\ isReady' \in BOOLEAN
  <2>1. Owned(e, r, m)
    <3>1. PICK kinds, works : kinds = {} /\ works = {OneTime}
      OBVIOUS
    <3>2. Becomes(d, e, kinds, works)
      BY <1>8, <1>11, <3>1 DEF Becomes
    <3>3. \A mesh \in Meshes : m[mesh].textured => r.materials.ready
      BY <1>5 DEF Owned
    <3>4. kinds \subseteq KnownKinds /\ kinds \cap ShadowKinds = {} /\ kinds \cap UiKinds = {} /\ kinds \cap PrepareKinds = {}
          /\ kinds \cap MeshKinds = {} /\ kinds \cap AssetKinds = {} /\ OneTime \in works
      BY <3>1
    <3> QED BY <1>5, <3>2, <3>3, <3>4, OwnedStays
  <2>2. IsRenderer(r) /\ DeviceHolds(e.held) /\ Dressed(e, r) /\ Instance \in e.held
    BY <1>4, <1>8 DEF BackendIs, Dressed
  <2>3. CASE ~ rebuild
    <3>1. driver' = e /\ renderer' = r /\ isReady' = TRUE
      BY <1>2, <1>3, <1>9, <2>3
    <3>2. Owned(e, r, n)
      BY <1>12, <2>1, SameMeshesOwned
    <3>3. BackendIs(e, r, n, TRUE, next)
      BY <1>8, <1>10, <2>2, <3>2 DEF BackendIs
    <3> QED BY <3>1, <3>3
  <2>4. CASE rebuild
    <3>1. PICK s : s = Submitted
      OBVIOUS
    <3>2. s.d = e /\ s.r = r /\ s.m = m /\ {"d", "r", "m"} \subseteq DOMAIN s
      BY <1>9, <3>1
    <3>3. Stands(s) /\ DeviceHolds(s.d.held) /\ Surface \in s.d.held
      <4>1. IsMaterials(r.materials)
        BY <1>5 DEF Owned, MatOwns, MaterialFlags
      <4>2. Device \in e.held /\ Surface \in e.held
        BY <2>2 DEF DeviceHolds, DeviceObjects
      <4>3. PlainlyChain(e.held) /\ PlainlyPipelines(e.held)
        BY <2>2, PlainlyThere
      <4> QED BY <1>8, <2>1, <2>2, <3>2, <4>1, <4>2, <4>3 DEF Stands, IsSystem
    <3>4. o \in Recreated(s)
      BY <1>2, <2>4, <3>1
    <3>5. BackendIs(o.d, o.r, o.m, o.ready, next) /\ o.ready \in BOOLEAN /\ o.m = m
      BY <3>2, <3>3, <3>4, RecreatedIsBackend
    <3>6. Busy(o.d) = {} /\ Instance \in o.d.held
      <4>1. RecreatedWith(s, o)
        BY <3>3, <3>4, RecreatedOwns
      <4>2. DeviceHolds(o.d.held)
        BY <3>3, <4>1, ChainSame DEF RecreatedWith
      <4> QED BY <4>1, <4>2 DEF RecreatedWith, Rests, DeviceHolds, DeviceObjects
    <3>7. WorksStay(o.d, o.r.ui, n, next)
      BY <3>6, NothingWorks
    <3>8. BackendIs(o.d, o.r, n, o.ready, next)
      BY <1>12, <3>5, <3>6, <3>7, SameMeshesBackend
    <3> QED BY <1>2, <3>5, <3>8
  <2> QED BY <2>3, <2>4
<1>15. BackendInv'
  BY <1>1, <1>3, <1>14 DEF BackendInv
<1>16. FrameInv'
  BY <1>1 DEF FrameInv, NoFrame
<1>17. game' \in Games /\ shown' \subseteq Sources /\ currentFrame' \in FrameSlots
  BY <1>1, <1>3, <1>13 DEF KInv
<1> QED BY <1>14, <1>15, <1>16, <1>17 DEF KInv

NoMeshes == [mesh \in Meshes |-> NoMesh]

(* The empty table of meshes.                                              *)
LEMMA NoMeshesAre ==
  /\ MeshTable(NoMeshes) /\ Others(NoMeshes) = {}
  /\ \A mesh \in Meshes : NoMeshes[mesh] = NoMesh /\ ~ Loaded(NoMeshes[mesh]) /\ ~ NoMeshes[mesh].textured
<1>1. NoMesh \in MeshStates /\ NoMesh.textured = FALSE /\ NoMesh.images = {} /\ NoMesh.state = "absent"
  BY DEF NoMesh, MeshStates
<1>2. \A mesh \in Meshes : NoMeshes[mesh] = NoMesh
  BY DEF NoMeshes
<1>3. NoMeshes \in [Meshes -> MeshStates]
  BY <1>1 DEF NoMeshes
<1>4. MeshTable(NoMeshes)
  BY <1>1, <1>2, <1>3 DEF MeshTable
<1>5. Others(NoMeshes) = {}
  BY <1>1, <1>2 DEF Others
<1>6. ~ Loaded(NoMesh)
  BY <1>1 DEF Loaded
<1> QED BY <1>1, <1>2, <1>4, <1>5, <1>6

(* Blank materials own nothing.                                            *)
LEMMA NoMaterialsOwned ==
  ASSUME NEW d, d.work[OneTime] = {}, \A x \in d.held : x[1] \notin PrepareKinds
  PROVE  MatOwns(NoMaterials, d, {})
<1>1. PICK m : m = NoMaterials
  OBVIOUS
<1>2. /\ m.device = FALSE /\ m.attemptedCore = FALSE /\ m.ready = FALSE /\ m.defaults = {} /\ m.brdf = FALSE
      /\ m.shows = NoSky /\ m.pending = {} /\ m.used = 0 /\ IsMaterials(m)
  BY <1>1 DEF NoMaterials, IsMaterials
<1>3. MaterialFlags(m)
  BY <1>1, <1>2 DEF MaterialFlags
<1>4. Stored(m) = {}
  BY <1>2 DEF Stored
<1>5. PICK kept : kept = {}
  OBVIOUS
<1>6. \A x \in d.held : x[1] \notin ImageKinds /\ x[1] \notin StagingKinds /\ x[1] \notin CoreKinds /\ x[1] \notin EnvironmentKinds
  BY DEF PrepareKinds, PixelKinds
<1>7. Stock(d.held, kept, m.pending, m.used)
  <2>1. IsFiniteSet(kept) /\ Cardinality(kept) = 0
    BY <1>5, FS_EmptySet
  <2>2. ImageBudget \in Nat
    BY MaterialAssumption
  <2> QED BY <1>2, <1>5, <1>6, <2>1, <2>2 DEF Stock
<1>8. OneTimeIs(d, m.pending)
  BY DEF OneTimeIs
<1>9. CoreHolds(m, d.held)
  BY <1>2, <1>6 DEF CoreHolds
<1>10. EnvironmentHolds(m, d.held)
  <2>1. EnvironmentSet \notin d.held
    BY <1>6 DEF EnvironmentSet, EnvironmentKinds
  <2> QED BY <1>2, <1>6, <2>1 DEF EnvironmentHolds
<1>11. kept = Stored(m) \cup m.pending \cup {}
  BY <1>2, <1>4, <1>5
<1> QED BY <1>1, <1>2, <1>3, <1>7, <1>8, <1>9, <1>10, <1>11 DEF MatOwns

(* A driver that holds objects of the device only.                         *)
LEMMA DeviceIsBare ==
  ASSUME NEW d, Clean(d), Busy(d) = {}, \A x \in d.held : x[1] \in DeviceKinds
  PROVE  Bare(d, NoRenderer, NoMeshes)
<1>1. PICK r : r = NoRenderer
  OBVIOUS
<1>2. r.shadows = NoShadows /\ r.ui = NoUi /\ r.materials = NoMaterials /\ r.attempted = {} /\ IsRenderer(r)
  BY <1>1 DEF NoRenderer, IsRenderer
<1>3. \A x \in d.held : /\ x[1] \notin ShadowKinds /\ x[1] \notin UiKinds /\ x[1] \notin PrepareKinds
                        /\ x[1] \notin AssetKinds /\ x[1] \notin MeshKinds /\ x[1] \notin PipelineKinds
                        /\ x[1] \notin ChainKinds
  BY KindsOfPartsDiffer
<1>4. ShadowsOwn(NoShadows, Of(ShadowKinds, d.held)) /\ UiHolds(NoUi, d.held)
  BY <1>3, NothingOwned
<1>5. MatOwns(NoMaterials, d, {})
  <2>1. d.work[OneTime] = {}
    BY SlotsAreWorks DEF Busy
  <2> QED BY <1>3, <2>1, NoMaterialsOwned
<1>6. MeshTable(NoMeshes) /\ Others(NoMeshes) = {}
      /\ \A mesh \in Meshes : ~ Loaded(NoMeshes[mesh]) /\ ~ NoMeshes[mesh].textured
  BY NoMeshesAre
<1>7. MeshesHold(NoMeshes, d.held) /\ AssetsHold(NoMeshes, d.held)
  BY <1>3, <1>6 DEF MeshesHold, AssetsHold
<1>8. \A x \in d.held : x[1] \in KnownKinds
  BY DEF KnownKinds
<1>9. Owned(d, r, NoMeshes)
  BY <1>2, <1>4, <1>5, <1>6, <1>7, <1>8 DEF Owned
<1>10. PlainlyChain(d.held) /\ PlainlyPipelines(d.held)
  BY <1>3 DEF PlainlyChain, PlainlyPipelines
<1>11. Undressed(d, r)
  BY <1>2, <1>3 DEF Undressed
<1> QED BY <1>1, <1>2, <1>9, <1>10, <1>11 DEF Bare, Rests

(* A driver without objects is idle.                                       *)
LEMMA EmptyIsIdle ==
  ASSUME NEW d, Clean(d), d.held = {}
  PROVE  Busy(d) = {}
BY CleanShape

(* A blank renderer without objects is a good backend.                     *)
LEMMA BlankIsBackend ==
  ASSUME NEW d, Clean(d), d.held = {}, NEW current
  PROVE  BackendIs(d, NoRenderer, NoMeshes, FALSE, current)
<1>1. Busy(d) = {}
  BY EmptyIsIdle
<1>2. Bare(d, NoRenderer, NoMeshes)
  BY <1>1, DeviceIsBare
<1>3. WorksStay(d, NoRenderer.ui, NoMeshes, current)
  BY <1>1, NothingWorks
<1>4. Blank(d, NoRenderer, NoMeshes) /\ Instance \notin d.held
  BY DEF Blank, NoMeshes
<1> QED BY <1>2, <1>3, <1>4 DEF BackendIs, Bare, Rests

(* The meshes go, then the materials: nothing is left but what the device  *)
(* and its commands are.                                                   *)
LEMMA UnloadedLeaves ==
  ASSUME NEW t, IsSystem(t), Bare(t.d, t.r, t.m), t.r.materials.pending = {}, NEW u \in Unloaded(t),
         NEW e \in {Emptied(u)}
  PROVE  /\ Clean(e) /\ Busy(e) = {} /\ SameOf(DeviceKinds, t.d.held, e.held)
         /\ \A x \in e.held : x[1] \in DeviceKinds
<1>1. PICK gone : gone = Meshes \ In(t, "absent")
  OBVIOUS
<1>2. Clean(t.d) /\ Busy(t.d) = {} /\ Owned(t.d, t.r, t.m) /\ Undressed(t.d, t.r)
  BY DEF Bare, Rests
<1>3. MayGo(t, gone)
  BY <1>1, <1>2, IdleMayGo
<1>4. u \in DestroyMeshes(t, gone)
  BY <1>1 DEF Unloaded
<1>5. MeshesLeft(t, gone, u)
  BY <1>2, <1>3, <1>4, DestroyMeshesOwns
<1>6. /\ Becomes(t.d, u.d, GoneKinds, Works) /\ u.d.work = t.d.work /\ Owned(u.d, u.r, u.m)
      /\ SameRest(t, u) /\ MeshesWithout(t.m, gone, u.m)
  BY <1>5 DEF MeshesLeft
<1>7. Clean(u.d) /\ Busy(u.d) = {}
  BY <1>2, <1>6 DEF Becomes, Busy
<1>8. \A mesh \in Meshes : ~ Loaded(u.m[mesh]) /\ ~ u.m[mesh].textured /\ u.m[mesh].images = {}
  <2>1. SUFFICES ASSUME NEW mesh \in Meshes PROVE ~ Loaded(u.m[mesh])
    BY <1>6, <2>1 DEF Owned, MeshTable
  <2>2. CASE mesh \in gone
    <3>1. u.m[mesh] = NoMesh
      BY <1>6, <2>2 DEF MeshesWithout
    <3> QED BY <3>1 DEF NoMesh, Loaded
  <2>3. CASE mesh \notin gone
    <3>1. u.m[mesh] = t.m[mesh] /\ t.m[mesh].state = "absent"
      BY <1>1, <1>6, <2>3 DEF MeshesWithout, In
    <3> QED BY <3>1 DEF Loaded
  <2> QED BY <2>2, <2>3
<1>9. Others(u.m) = {}
  BY <1>8 DEF Others
<1>10. PICK m : m = u.r.materials
  OBVIOUS
<1>11. MatOwns(m, u.d, {}) /\ m.pending = {}
  <2>1. MatOwns(m, u.d, Others(u.m))
    BY <1>6, <1>10 DEF Owned
  <2> QED BY <1>6, <1>9, <1>10, <2>1 DEF SameRest
<1>12. MaterialsGone(u.d, e)
  <2>1. MaterialsGone(u.d, DestroyMaterials(m, u.d))
    BY <1>7, <1>11, DestroyMaterialsOwns
  <2> QED BY <1>10, <2>1 DEF Emptied
<1>13. Clean(e) /\ Busy(e) = {}
  BY <1>7, <1>12 DEF MaterialsGone, Busy
<1>14. SameOf(DeviceKinds, t.d.held, e.held)
  <2>1. \A k \in DeviceKinds : k \notin GoneKinds /\ k \notin PrepareKinds
    BY KindsOfPartsDiffer, GoneKindsAre DEF GoneKinds
  <2>2. \A x : x[1] \in DeviceKinds => (x \in u.d.held <=> x \in t.d.held)
    BY <1>6, <2>1 DEF Becomes
  <2>3. \A x : x[1] \in DeviceKinds => (x \in e.held <=> x \in u.d.held)
    BY <1>12, <2>1 DEF MaterialsGone
  <2> QED BY <2>2, <2>3 DEF SameOf
<1>15. ASSUME NEW x \in e.held PROVE x[1] \in DeviceKinds
  <2>1. x[1] \notin PrepareKinds /\ x \in u.d.held
    BY <1>12, <1>15 DEF MaterialsGone
  <2>2. x[1] \in KnownKinds
    BY <1>6, <2>1 DEF Owned
  <2>3. x[1] \notin MeshKinds /\ x[1] \notin AssetKinds
    <3>1. MeshesHold(u.m, u.d.held) /\ AssetsHold(u.m, u.d.held)
      BY <1>6 DEF Owned
    <3> QED BY <1>8, <2>1, <3>1 DEF MeshesHold, AssetsHold
  <2>4. x[1] \notin ShadowKinds /\ x[1] \notin UiKinds
    <3>1. u.r.shadows = NoShadows /\ u.r.ui = NoUi
      BY <1>2, <1>6 DEF Undressed, SameRest
    <3>2. ShadowsOwn(NoShadows, Of(ShadowKinds, u.d.held)) /\ UiHolds(NoUi, u.d.held)
      BY <1>6, <3>1 DEF Owned
    <3>3. Of(ShadowKinds, u.d.held) = {}
      <4>1. ~ NoShadows.device
        BY DEF NoShadows
      <4> QED BY <3>2, <4>1, OwnShadows
    <3>4. \A y \in u.d.held : y[1] \notin UiKinds
      <4>1. ~ NoUi.device
        BY DEF NoUi
      <4> QED BY <3>2, <4>1 DEF UiHolds
    <3> QED BY <2>1, <3>3, <3>4 DEF Of
  <2>5. x[1] \notin ChainKinds /\ x[1] \notin PipelineKinds
    <3>1. \A k \in ChainKinds \cup PipelineKinds : k \notin GoneKinds
      BY KindsOfPartsDiffer, GoneKindsAre DEF GoneKinds
    <3>2. x[1] \in ChainKinds \cup PipelineKinds => x \in t.d.held
      BY <1>6, <2>1, <3>1 DEF Becomes
    <3> QED BY <1>2, <3>2 DEF Undressed
  <2> QED BY <2>1, <2>2, <2>3, <2>4, <2>5 DEF KnownKinds
<1> QED BY <1>13, <1>14, <1>15

(* The device goes after all its objects, the instance last.               *)
LEMMA ParentIsClean ==
  ASSUME NEW d, Clean(d), Busy(d) = {}, NEW parent, NEW others, d.held \subseteq others \cup {parent},
         NEW e \in {DestroyParent(d, parent, others)}
  PROVE  Clean(e) /\ Busy(e) = {} /\ e.held = d.held \ {parent}
<1>1. /\ d = Plain(d.held, d.work, d.refusals) /\ d.alive = d.held /\ d.misuses = {}
  BY CleanShape
<1>2. [d EXCEPT !.misuses = @ \cup Misuse("orphan", parent \in d.held /\ ~ d.alive \subseteq others \cup {parent})] = d
  <2>1. Misuse("orphan", parent \in d.held /\ ~ d.alive \subseteq others \cup {parent}) = {}
    BY <1>1 DEF Misuse
  <2>2. d.misuses \cup {} = d.misuses
    OBVIOUS
  <2>3. [d EXCEPT !.misuses = d.misuses] = d
    BY <1>1 DEF Plain, Driver
  <2> QED BY <2>1, <2>2, <2>3
<1>3. PICK objects : objects = {parent}
  OBVIOUS
<1>4. e = Destroy(d, objects)
  BY <1>2, <1>3 DEF DestroyParent
<1>5. objects \cap Busy(d) = {}
  OBVIOUS
<1>6. Clean(e) /\ e.held = d.held \ objects /\ e.work = d.work
  BY <1>4, <1>5, DestroyIsClean
<1>7. Busy(e) = {}
  BY <1>6 DEF Busy
<1> QED BY <1>3, <1>6, <1>7

DevicePart(held) ==
  /\ \A x \in held : x[1] \in DeviceKinds => x \in DeviceObjects
  /\ CommandBuffers \cap held # {} => CommandPool \in held

(* Destroying the device's objects leaves nothing at all.                  *)
LEMMA DeviceGoneIs ==
  ASSUME NEW d, Clean(d), Busy(d) = {}, d.held \subseteq DeviceObjects,
         CommandBuffers \cap d.held # {} => CommandPool \in d.held, NEW e \in {DeviceGone(d)}
  PROVE  Clean(e) /\ e.held = {}
<1>1. PICK syncs : syncs = UNION {SyncOf(slot) : slot \in FrameSlots}
  OBVIOUS
<1>2. PICK a : a = Destroy(d, syncs)
  OBVIOUS
<1>3. Clean(a) /\ a.held = d.held \ syncs /\ a.work = d.work
  <2>1. syncs \cap Busy(d) = {}
    OBVIOUS
  <2> QED BY <1>2, <2>1, DestroyIsClean
<1>4. Busy(a) = {}
  BY <1>3 DEF Busy
<1>5. PICK pool, contents : pool = CommandPool /\ contents = CommandBuffers
  OBVIOUS
<1>6. pool \notin contents /\ pool \notin syncs /\ contents \cap syncs = {}
  BY <1>1, <1>5, CommandSorts
<1>7. PICK b : b = Forget(DestroyPool(a, pool, contents), contents)
  OBVIOUS
<1>8. Clean(b) /\ b.held = a.held \ ({pool} \cup contents) /\ b.work = a.work
  <2>1. contents \cap a.held # {} => pool \in a.held
    BY <1>3, <1>5, <1>6
  <2>2. ({pool} \cup contents) \cap Busy(a) = {}
    BY <1>4
  <2> QED BY <1>3, <1>6, <1>7, <2>1, <2>2, PoolForgotten
<1>9. Busy(b) = {}
  BY <1>4, <1>8 DEF Busy
<1>10. b = CommandsGone(d)
  BY <1>1, <1>2, <1>5, <1>7 DEF CommandsGone
<1>11. b.held \subseteq {Instance, Surface, Device}
  BY <1>1, <1>3, <1>5, <1>8 DEF DeviceObjects
<1>12. PICK others : others = {Instance, Surface}
  OBVIOUS
<1>13. PICK c : c = DestroyParent(b, Device, others)
  OBVIOUS
<1>14. Clean(c) /\ Busy(c) = {} /\ c.held = b.held \ {Device}
  <2>1. b.held \subseteq others \cup {Device}
    BY <1>11, <1>12
  <2> QED BY <1>8, <1>9, <1>13, <2>1, ParentIsClean
<1>15. PICK g : g = Destroy(c, {Surface})
  OBVIOUS
<1>16. Clean(g) /\ g.held = c.held \ {Surface} /\ Busy(g) = {}
  <2>1. {Surface} \cap Busy(c) = {}
    BY <1>14
  <2>2. Clean(g) /\ g.held = c.held \ {Surface} /\ g.work = c.work
    BY <1>14, <1>15, <2>1, DestroyIsClean
  <2> QED BY <1>14, <2>2 DEF Busy
<1>17. e = DestroyParent(g, Instance, {})
  BY <1>10, <1>12, <1>13, <1>15 DEF DeviceGone
<1>18. g.held \subseteq {Instance}
  BY <1>11, <1>14, <1>16
<1>19. PICK none : none = {}
  OBVIOUS
<1>20. Clean(e) /\ e.held = g.held \ {Instance}
  <2>1. g.held \subseteq none \cup {Instance}
    BY <1>18
  <2>2. e \in {DestroyParent(g, Instance, none)}
    BY <1>17, <1>19
  <2> QED BY <1>16, <2>1, <2>2, ParentIsClean
<1> QED BY <1>18, <1>20

(* shutdown leaves nothing.                                                *)
LEMMA ShutEmpties ==
  ASSUME NEW s, IsSystem(s),
         IF Device \in s.d.held THEN Stands(s) ELSE Bare(s.d, s.r, s.m) /\ s.r.materials.pending = {},
         DevicePart(s.d.held), NEW g \in Shut(s)
  PROVE  Clean(g) /\ g.held = {}
<1>1. PICK t \in IF Device \in s.d.held THEN Cleared(s) ELSE {s} : \E u \in Unloaded(t) : g = DeviceGone(Emptied(u))
  BY DEF Shut
<1>2. PICK u \in Unloaded(t) : g = DeviceGone(Emptied(u))
  BY <1>1
<1>3. /\ IsSystem(t) /\ Bare(t.d, t.r, t.m) /\ t.r.materials.pending = {}
      /\ SameOf(DeviceKinds, s.d.held, t.d.held)
  <2>1. CASE Device \in s.d.held
    <3>1. ClearedWith(s, t)
      BY <1>1, <2>1, ClearedOwns
    <3> QED BY <3>1 DEF ClearedWith
  <2>2. CASE Device \notin s.d.held
    <3>1. t = s
      BY <1>1, <2>2
    <3> QED BY <2>2, <3>1 DEF SameOf
  <2> QED BY <2>1, <2>2
<1>4. PICK e : e = Emptied(u)
  OBVIOUS
<1>5. Clean(e) /\ Busy(e) = {} /\ SameOf(DeviceKinds, t.d.held, e.held) /\ \A x \in e.held : x[1] \in DeviceKinds
  BY <1>3, <1>4, UnloadedLeaves
<1>6. \A x : x[1] \in DeviceKinds => (x \in e.held <=> x \in s.d.held)
  BY <1>3, <1>5 DEF SameOf
<1>7. e.held \subseteq DeviceObjects
  BY <1>5, <1>6 DEF DevicePart
<1>8. CommandBuffers \cap e.held # {} => CommandPool \in e.held
  <2>1. \A x \in CommandBuffers \cup {CommandPool} : x[1] \in DeviceKinds
    <3>1. CommandBuffers \cup {CommandPool} \subseteq DeviceObjects
      BY DEF DeviceObjects
    <3> QED BY <3>1, ChainObjectsAre
  <2> QED BY <1>6, <2>1 DEF DevicePart
<1> QED BY <1>2, <1>4, <1>5, <1>7, <1>8, DeviceGoneIs

(* What becomes of the device that create makes.                           *)
DeviceAlone(held) == held \subseteq {Instance, Surface, Device}

(* Instance, surface, device and command pool by kind.                     *)
LEMMA DeviceTagsAre ==
  /\ Instance[1] = "instance" /\ Surface[1] = "surface" /\ Device[1] = "device" /\ CommandPool[1] = "command pool"
  /\ Instance[1] \in DeviceKinds /\ Surface[1] \in DeviceKinds /\ Device[1] \in DeviceKinds
<1>1. Instance[1] = "instance" /\ Surface[1] = "surface" /\ Device[1] = "device" /\ CommandPool[1] = "command pool"
  BY DEF Instance, Surface, Device, CommandPool
<1> QED BY <1>1 DEF DeviceKinds

(* A device without command pool is a part of a device.                    *)
LEMMA DeviceAlonePart ==
  ASSUME NEW held, NEW other, DeviceAlone(held), SameOf(DeviceKinds, held, other)
  PROVE  DevicePart(other) /\ CommandObjects \cap other = {}
<1>1. \A x \in CommandObjects : x[1] \in DeviceKinds /\ x \notin {Instance, Surface, Device}
  <2>1. CommandObjects \subseteq DeviceObjects
    BY DEF CommandObjects, AllSyncs, DeviceObjects
  <2>2. \A x \in CommandObjects : x[1] \in DeviceKinds
    BY <2>1, ChainObjectsAre
  <2>3. CommandPool \notin {Instance, Surface, Device}
    BY DeviceTagsAre
  <2>4. \A x \in CommandBuffers : x \notin {Instance, Surface, Device}
    BY CommandSorts, DeviceTagsAre
  <2>5. \A slot : \A x \in SyncOf(slot) : x \notin {Instance, Surface, Device}
    <3>1. SUFFICES ASSUME NEW slot, NEW x \in SyncOf(slot) PROVE x \notin {Instance, Surface, Device}
      OBVIOUS
    <3>2. x[1] \in {"image available", "render finished", "in flight"}
      BY SyncsAre
    <3> QED BY <3>2, DeviceTagsAre
  <2> QED BY <2>2, <2>3, <2>4, <2>5 DEF CommandObjects, AllSyncs
<1>2. CommandObjects \cap other = {}
  BY <1>1 DEF SameOf, DeviceAlone
<1>3. CommandBuffers \cap other = {}
  BY <1>2 DEF CommandObjects
<1>4. \A x \in other : x[1] \in DeviceKinds => x \in DeviceObjects
  BY DEF SameOf, DeviceAlone, DeviceObjects
<1> QED BY <1>2, <1>3, <1>4 DEF DevicePart

(* Instance, surface and device are created in turn, or a part of them.    *)
LEMMA DeviceMade ==
  ASSUME NEW d, Clean(d), d.held = {}, NEW o \in Try(d, DeviceCalls)
  PROVE  /\ o.ok \in BOOLEAN /\ Bare(o.d, NoRenderer, NoMeshes) /\ DeviceAlone(o.d.held)
         /\ IF o.ok THEN {Device, Surface, Instance} \subseteq o.d.held ELSE Device \notin o.d.held
<1>1. Adds(d, o, {Instance, Surface, Device}) /\ (~ o.ok => Device \notin o.d.held)
  BY DeviceAdds
<1>2. Clean(o.d) /\ o.d.work = d.work /\ o.ok \in BOOLEAN
  BY <1>1 DEF Adds
<1>3. o.d.held \subseteq {Instance, Surface, Device}
  BY <1>1 DEF Adds
<1>4. o.ok => o.d.held = {Instance, Surface, Device}
  BY <1>1 DEF Adds
<1>5. Busy(o.d) = {}
  <2>1. Busy(d) = {}
    BY EmptyIsIdle
  <2> QED BY <1>2, <2>1 DEF Busy
<1>6. \A x \in o.d.held : x[1] \in DeviceKinds
  BY <1>3, DeviceTagsAre DEF DeviceKinds
<1>7. Bare(o.d, NoRenderer, NoMeshes)
  BY <1>2, <1>5, <1>6, DeviceIsBare
<1> QED BY <1>1, <1>2, <1>3, <1>4, <1>7 DEF DeviceAlone

(* The command buffers and the synchronisation come last.                  *)
LEMMA CommandsDone ==
  ASSUME NEW d, NEW m, NEW e, NEW r, Swapped(d, m, e, r, TRUE),
         DeviceAlone(d.held), {Device, Surface, Instance} \subseteq d.held, NEW o \in CommandsMade(e)
  PROVE  /\ o.ok \in BOOLEAN /\ Rests(o.d, r, m) /\ Dressed(o.d, r) /\ Device \in o.d.held
         /\ DevicePart(o.d.held) /\ (o.ok => DeviceHolds(o.d.held))
<1>1. Rests(e, r, m) /\ AboutSwapchain(d, e) /\ Dressed(e, r)
  BY DEF Swapped
<1>2. Clean(e) /\ Busy(e) = {} /\ IsRenderer(r) /\ Owned(e, r, m)
  BY <1>1 DEF Rests
<1>3. SameOf(DeviceKinds, d.held, e.held)
  BY <1>1 DEF AboutSwapchain
<1>4. DevicePart(e.held) /\ CommandObjects \cap e.held = {}
  BY <1>3, DeviceAlonePart
<1>5. {Device, Surface, Instance} \subseteq e.held
  <2>1. ASSUME NEW x, x \in d.held, x[1] \in DeviceKinds PROVE x \in e.held
    BY <1>3, <2>1 DEF SameOf
  <2> QED BY <2>1, DeviceTagsAre
<1>6. Adds(e, o, CommandObjects) /\ (CommandBuffers \cap o.d.held # {} => CommandPool \in o.d.held)
  BY <1>2, <1>4, <1>5, CommandsAdd
<1>7. CommandObjects \subseteq DeviceObjects /\ DeviceObjects = CommandObjects \cup {Instance, Surface, Device}
  BY DEF CommandObjects, AllSyncs, DeviceObjects
<1>8. PICK kinds, works : kinds = DeviceKinds /\ works = Works
  OBVIOUS
<1>9. Becomes(e, o.d, kinds, works) /\ Busy(o.d) = Busy(e)
  <2>1. \A x \in CommandObjects : x[1] \in kinds
    BY <1>7, <1>8, ChainObjectsAre
  <2> QED BY <1>2, <1>6, <2>1, AddsBecomes
<1>10. Owned(o.d, r, m)
  <2>1. kinds \subseteq KnownKinds
    BY <1>8 DEF KnownKinds
  <2>2. kinds \cap ShadowKinds = {} /\ kinds \cap UiKinds = {} /\ kinds \cap PrepareKinds = {}
        /\ kinds \cap MeshKinds = {} /\ kinds \cap AssetKinds = {}
    BY <1>8, KindsOfPartsDiffer
  <2>3. OneTime \in works
    BY <1>8, SlotsAreWorks
  <2> QED BY <1>2, <1>9, <2>1, <2>2, <2>3, OwnedStays
<1>11. Dressed(o.d, r)
  <2>1. ChainKinds \cap kinds = {} /\ PipelineKinds \cap kinds = {}
    BY <1>8, KindsOfPartsDiffer
  <2>2. SameOf(ChainKinds, e.held, o.d.held)
    BY <1>9, <2>1, BecomesSame
  <2>3. SameOf(PipelineKinds, e.held, o.d.held)
    BY <1>9, <2>1, BecomesSame
  <2>4. ChainHolds(e.held) /\ PipelinesHold(r.attempted, e.held) /\ r.shadows.device /\ r.materials.device
    BY <1>1 DEF Dressed
  <2>5. ChainHolds(o.d.held)
    BY <2>2, <2>4, ChainSame
  <2>6. PipelinesHold(r.attempted, o.d.held)
    BY <2>3, <2>4, PipelinesSame
  <2> QED BY <2>4, <2>5, <2>6 DEF Dressed
<1>12. PlainlyChain(o.d.held) /\ PlainlyPipelines(o.d.held)
  BY <1>11, PlainlyThere
<1>13. o.ok \in BOOLEAN /\ Clean(o.d) /\ e.held \subseteq o.d.held /\ o.d.held \subseteq e.held \cup CommandObjects
  BY <1>6 DEF Adds
<1>14. o.ok => CommandObjects \subseteq o.d.held
  BY <1>6 DEF Adds
<1>15. \A x \in o.d.held : x[1] \in DeviceKinds => x \in DeviceObjects
  BY <1>4, <1>7, <1>13 DEF DevicePart
<1>16. o.ok => DeviceHolds(o.d.held)
  BY <1>5, <1>7, <1>13, <1>14, <1>15 DEF DeviceHolds
<1> QED BY <1>2, <1>5, <1>6, <1>9, <1>10, <1>11, <1>12, <1>13, <1>15, <1>16 DEF Rests, DevicePart

(* The backend before it was created, and after it was shut down.          *)
LEMMA BlankNow ==
  ASSUME KInv, Instance \notin driver.held
  PROVE  /\ Clean(driver) /\ driver.held = {} /\ renderer = NoRenderer /\ meshes = NoMeshes
         /\ isReady = FALSE /\ frame = NoFrame
<1>1. Clean(driver) /\ Blank(driver, renderer, meshes) /\ ~ isReady /\ isReady \in BOOLEAN
  BY DEF KInv, BackendInv, BackendIs
<1>2. frame = NoFrame
  BY <1>1 DEF KInv, FrameInv, FrameIs
<1> QED BY <1>1, <1>2 DEF Blank, NoMeshes

BlankAgain == BackendInv' /\ FrameInv' /\ isReady' \in BOOLEAN /\ currentFrame' \in FrameSlots

(* Shutdown from a driver without objects leads to the blank backend.      *)
LEMMA BackInKeeps ==
  ASSUME NEW d, Clean(d), d.held = {}, BackIn(d), frame' = NoFrame
  PROVE  BlankAgain
<1>1. /\ driver' = d /\ renderer' = NoRenderer /\ meshes' = NoMeshes /\ isReady' = FALSE /\ currentFrame' = 0
  BY DEF BackIn, NoMeshes
<1>2. BackendIs(d, NoRenderer, NoMeshes, FALSE, 0)
  BY BlankIsBackend
<1>3. BackendInv'
  BY <1>1, <1>2 DEF BackendInv
<1>4. FrameInv'
  BY DEF FrameInv, NoFrame
<1>5. 0 \in FrameSlots
  BY DriverAssumption DEF FrameSlots
<1> QED BY <1>1, <1>3, <1>4, <1>5 DEF BlankAgain

(* shutdown                                                                *)
LEMMA ShutdownKeeps ==
  ASSUME KInv, Shutdown, game' = game
  PROVE  KInv'
<1>1. PICK d \in Shut(System) : BackIn(d)
  BY DEF Shutdown
<1>2. Instance \in driver.held /\ frame' = NoFrame /\ shown' = shown
  BY DEF Shutdown, Idles, NoFrame
<1>3. PICK s : s = [d |-> driver, r |-> renderer, m |-> meshes]
  OBVIOUS
<1>4. s = System
  BY <1>3 DEF System
<1>5. Stands(s) /\ DeviceHolds(s.d.held)
  <2>1. isReady \in BOOLEAN /\ BackendIs(driver, renderer, meshes, isReady, currentFrame)
    BY DEF KInv, BackendInv
  <2>2. PICK ready \in BOOLEAN : ready = isReady
    BY <2>1
  <2>3. BackendIs(driver, renderer, meshes, ready, currentFrame)
    BY <2>1, <2>2
  <2> QED BY <1>2, <1>3, <2>3, BackendStands
<1>6. Device \in s.d.held /\ IsSystem(s)
  BY <1>5 DEF Stands
<1>7. DevicePart(s.d.held)
  <2>1. CommandPool \in s.d.held
    BY <1>5 DEF DeviceHolds, DeviceObjects
  <2> QED BY <1>5, <2>1 DEF DeviceHolds, DevicePart
<1>8. Clean(d) /\ d.held = {}
  BY <1>1, <1>4, <1>5, <1>6, <1>7, ShutEmpties
<1>9. BlankAgain
  BY <1>1, <1>2, <1>8, BackInKeeps
<1> QED BY <1>2, <1>9 DEF KInv, BlankAgain

MadeAs(s, d, r, t) == t = [s EXCEPT !.d = d, !.r = r]

(* The fields of the renderer under creation.                              *)
LEMMA MadeFields ==
  ASSUME NEW d, NEW r, NEW t, MadeAs(System, d, r, t)
  PROVE  t.d = d /\ t.r = r /\ t.m = meshes /\ {"d", "r", "m"} \subseteq DOMAIN t
BY DEF MadeAs, System

(* A renderer at rest stands on its device.                                *)
LEMMA RestsStands ==
  ASSUME NEW s, {"d", "r", "m"} \subseteq DOMAIN s, Rests(s.d, s.r, s.m)
  PROVE  IsSystem(s) /\ (Device \in s.d.held => Stands(s))
<1>1. IsRenderer(s.r) /\ Owned(s.d, s.r, s.m) /\ Clean(s.d) /\ PlainlyChain(s.d.held) /\ PlainlyPipelines(s.d.held)
  BY DEF Rests
<1>2. IsMaterials(s.r.materials)
  BY <1>1 DEF Owned, MatOwns, MaterialFlags
<1> QED BY <1>1, <1>2 DEF IsSystem, Stands

(* What is left when create fails is shut down.                            *)
Undone(d, r) == \E g \in Shut([System EXCEPT !.d = d, !.r = r]) : BackIn(g)

(* A creation that failed is undone and leads to the blank backend.        *)
LEMMA UndoneKeeps ==
  ASSUME NEW d, NEW r, Rests(d, r, meshes), DevicePart(d.held), frame' = NoFrame, Undone(d, r),
         Device \in d.held \/ (Undressed(d, r) /\ r.materials.pending = {})
  PROVE  BlankAgain
<1>1. PICK s : s = [System EXCEPT !.d = d, !.r = r]
  OBVIOUS
<1>2. PICK g \in Shut(s) : BackIn(g)
  BY <1>1 DEF Undone
<1>3. s.d = d /\ s.r = r /\ s.m = meshes /\ {"d", "r", "m"} \subseteq DOMAIN s
  <2>1. MadeAs(System, d, r, s)
    BY <1>1 DEF MadeAs
  <2> QED BY <2>1, MadeFields
<1>4. Rests(s.d, s.r, s.m)
  BY <1>3
<1>5. IsSystem(s) /\ (Device \in s.d.held => Stands(s))
  BY <1>3, <1>4, RestsStands
<1>6. Device \notin s.d.held => Bare(s.d, s.r, s.m) /\ s.r.materials.pending = {}
  BY <1>3, <1>4 DEF Bare
<1>7. Clean(g) /\ g.held = {}
  <2>1. DevicePart(s.d.held)
    BY <1>3
  <2> QED BY <1>2, <1>5, <1>6, <2>1, ShutEmpties
<1> QED BY <1>2, <1>7, BackInKeeps

(* create leads from the blank backend to a whole one or back.             *)
LEMMA CreateKeeps ==
  ASSUME KInv, Create, game' = game
  PROVE  KInv'
<1>1. Instance \notin driver.held /\ shown' = shown /\ frame' = frame
  BY DEF Create
<1>2. /\ Clean(driver) /\ driver.held = {} /\ renderer = NoRenderer /\ meshes = NoMeshes
      /\ isReady = FALSE /\ frame = NoFrame
  BY <1>1, BlankNow
<1>3. frame' = NoFrame
  BY <1>1, <1>2
<1>4. PICK o \in Try(driver, DeviceCalls) :
       \E p \in IF o.ok THEN CreateSwapchainResources(renderer, o.d) ELSE {[d |-> o.d, r |-> renderer, ok |-> FALSE]} :
         \E q \in IF p.ok THEN CommandsMade(p.d) ELSE {p} :
           IF q.ok
           THEN driver' = q.d /\ renderer' = p.r /\ isReady' = TRUE /\ UNCHANGED <<meshes, currentFrame>>
           ELSE Undone(q.d, p.r)
  BY DEF Create, Undone
<1>5. PICK p \in IF o.ok THEN CreateSwapchainResources(renderer, o.d) ELSE {[d |-> o.d, r |-> renderer, ok |-> FALSE]} :
         \E q \in IF p.ok THEN CommandsMade(p.d) ELSE {p} :
           IF q.ok
           THEN driver' = q.d /\ renderer' = p.r /\ isReady' = TRUE /\ UNCHANGED <<meshes, currentFrame>>
           ELSE Undone(q.d, p.r)
  BY <1>4
<1>6. PICK q \in IF p.ok THEN CommandsMade(p.d) ELSE {p} :
           IF q.ok
           THEN driver' = q.d /\ renderer' = p.r /\ isReady' = TRUE /\ UNCHANGED <<meshes, currentFrame>>
           ELSE Undone(q.d, p.r)
  BY <1>5
<1>7. PICK e, r, m : e = o.d /\ r = p.r /\ m = meshes
  OBVIOUS
<1>8. /\ o.ok \in BOOLEAN /\ Bare(e, NoRenderer, m) /\ DeviceAlone(e.held)
      /\ IF o.ok THEN {Device, Surface, Instance} \subseteq e.held ELSE Device \notin e.held
  BY <1>2, <1>7, DeviceMade
<1>9. ASSUME o.ok PROVE Swapped(e, m, p.d, r, p.ok)
  <2>1. {Device, Surface} \subseteq e.held
    BY <1>8, <1>9
  <2>2. p \in CreateSwapchainResources(NoRenderer, e)
    BY <1>2, <1>5, <1>7, <1>9
  <2>3. Swapped(e, m, p.d, p.r, p.ok)
    BY <1>8, <2>1, <2>2, CreateSwapchainOwns
  <2> QED BY <1>7, <2>3
<1>10. BlankAgain \/ (BackendInv' /\ FrameInv' /\ isReady' \in BOOLEAN /\ currentFrame' \in FrameSlots)
  <2>1. CASE ~ o.ok
    <3>1. p = [d |-> o.d, r |-> renderer, ok |-> FALSE]
      BY <1>5, <2>1
    <3>2. p.d = e /\ p.r = NoRenderer /\ p.ok = FALSE
      BY <1>2, <1>7, <3>1
    <3>3. q.ok = FALSE /\ q.d = e
      BY <1>6, <3>2
    <3>4. Undone(e, NoRenderer)
      BY <1>6, <3>2, <3>3
    <3>5. Rests(e, NoRenderer, meshes) /\ Undressed(e, NoRenderer)
      BY <1>7, <1>8 DEF Bare
    <3>6. DevicePart(e.held)
      BY <1>8, DeviceAlonePart DEF SameOf
    <3>7. NoRenderer.materials.pending = {}
      BY DEF NoRenderer, NoMaterials
    <3> QED BY <1>3, <3>4, <3>5, <3>6, <3>7, UndoneKeeps
  <2>2. CASE o.ok /\ ~ p.ok
    <3>1. q = p /\ ~ q.ok
      BY <1>6, <2>2
    <3>2. PICK c : c = p.d
      OBVIOUS
    <3>3. Undone(c, r)
      BY <1>6, <1>7, <3>1, <3>2
    <3>4. Swapped(e, m, c, r, p.ok)
      BY <1>9, <2>2, <3>2
    <3>5. Rests(c, r, meshes) /\ SameOf(DeviceKinds, e.held, c.held)
      BY <1>7, <3>4 DEF Swapped, AboutSwapchain
    <3>6. DevicePart(c.held)
      BY <1>8, <3>5, DeviceAlonePart
    <3>7. Device \in c.held
      <4>1. Device \in e.held
        BY <1>8, <2>2
      <4>2. ASSUME NEW x, x \in e.held, x[1] \in DeviceKinds PROVE x \in c.held
        BY <3>5, <4>2 DEF SameOf
      <4> QED BY <4>1, <4>2, DeviceTagsAre
    <3> QED BY <1>3, <3>3, <3>5, <3>6, <3>7, UndoneKeeps
  <2>3. CASE o.ok /\ p.ok
    <3>1. PICK c : c = p.d
      OBVIOUS
    <3>2. q \in CommandsMade(c)
      BY <1>6, <2>3, <3>1
    <3>3. Swapped(e, m, c, r, TRUE)
      <4>1. p.ok \in BOOLEAN
        BY <1>9, <2>3 DEF Swapped
      <4> QED BY <1>9, <2>3, <3>1, <4>1
    <3>4. {Device, Surface, Instance} \subseteq e.held /\ DeviceAlone(e.held)
      BY <1>8, <2>3
    <3>5. /\ q.ok \in BOOLEAN /\ Rests(q.d, r, m) /\ Dressed(q.d, r) /\ Device \in q.d.held
          /\ DevicePart(q.d.held) /\ (q.ok => DeviceHolds(q.d.held))
      BY <3>2, <3>3, <3>4, CommandsDone
    <3>6. CASE q.ok
      <4>1. driver' = q.d /\ renderer' = r /\ isReady' = TRUE /\ meshes' = m /\ currentFrame' = currentFrame
        BY <1>6, <1>7, <3>6
      <4>2. Clean(q.d) /\ Busy(q.d) = {} /\ IsRenderer(r) /\ Owned(q.d, r, m)
        BY <3>5 DEF Rests
      <4>3. WorksStay(q.d, r.ui, m, currentFrame)
        BY <4>2, NothingWorks
      <4>4. Instance \in q.d.held
        BY <3>5, <3>6 DEF DeviceHolds, DeviceObjects
      <4>5. BackendIs(q.d, r, m, TRUE, currentFrame)
        BY <3>5, <3>6, <4>2, <4>3, <4>4 DEF BackendIs
      <4>6. BackendInv'
        BY <4>1, <4>5 DEF BackendInv
      <4>7. FrameInv'
        BY <1>3 DEF FrameInv, NoFrame
      <4> QED BY <4>1, <4>6, <4>7 DEF KInv
    <3>7. CASE ~ q.ok
      <4>1. Undone(q.d, r)
        BY <1>6, <1>7, <3>7
      <4>2. PICK c2 : c2 = q.d
        OBVIOUS
      <4>3. Rests(c2, r, meshes) /\ DevicePart(c2.held) /\ Device \in c2.held /\ Undone(c2, r)
        BY <1>7, <3>5, <4>1, <4>2
      <4> QED BY <1>3, <4>3, UndoneKeeps
    <3> QED BY <3>6, <3>7
  <2> QED BY <2>1, <2>2, <2>3
<1> QED BY <1>1, <1>10 DEF KInv, BlankAgain

(* The blank backend is a good one.                                        *)
LEMMA InitKeeps == Init => KInv
<1> SUFFICES ASSUME Init PROVE KInv
  OBVIOUS
<1>1. /\ game \in Games /\ driver = NoDriver /\ renderer = NoRenderer /\ meshes = NoMeshes
      /\ isReady = FALSE /\ shown = {} /\ currentFrame = 0 /\ frame = NoFrame
  BY DEF Init, NoMeshes
<1>2. PICK held, work, refusals : held = {} /\ work = [w \in Works |-> {}] /\ refusals = 0
  OBVIOUS
<1>3. Clean(driver) /\ driver.held = {}
  <2>1. driver = Plain(held, work, refusals)
    BY <1>1, <1>2 DEF NoDriver, Plain, Driver
  <2>2. work = [w \in Works |-> work[w]] /\ (\A w \in Works : work[w] \subseteq held) /\ refusals \in Nat
    BY <1>2
  <2>3. Clean(driver) /\ driver.held = held
    BY <2>1, <2>2, PlainIsClean
  <2> QED BY <1>2, <2>3
<1>4. PICK current : current = currentFrame
  OBVIOUS
<1>5. BackendIs(driver, NoRenderer, NoMeshes, FALSE, current)
  BY <1>3, BlankIsBackend
<1>6. BackendInv
  BY <1>1, <1>4, <1>5 DEF BackendInv
<1>7. 0 \in FrameSlots
  BY DriverAssumption DEF FrameSlots
<1> QED BY <1>1, <1>6, <1>7 DEF KInv, FrameInv

(* Every step of the renderer keeps the invariant.                         *)
LEMMA NextKeeps == KInv /\ RInv /\ [Next]_vars => KInv'
<1> SUFFICES ASSUME KInv, RInv, [Next]_vars PROVE KInv'
  OBVIOUS
<1>1. CASE UNCHANGED vars
  BY <1>1 DEF vars, KInv, BackendInv, FrameInv, NoFrame
<1>2. CASE Next
  <2>1. Step /\ game' = game
    BY <1>2 DEF Next
  <2>2. game.meshes \subseteq Meshes /\ game.sources \subseteq Sources
    BY GamesAssumption DEF KInv
  <2>3. CASE Create
    BY <2>1, <2>3, CreateKeeps
  <2>4. CASE Shutdown
    BY <2>1, <2>4, ShutdownKeeps
  <2>5. CASE WindowChanged
    BY <2>1, <2>5, WindowChangedKeeps
  <2>6. CASE SubmitFails
    BY <2>1, <2>6, SubmitFailsKeeps
  <2>7. ASSUME NEW mesh \in game.meshes, Register(mesh) \/ Release(mesh) PROVE KInv'
    BY <2>1, <2>2, <2>7, RegisterKeeps, ReleaseKeeps
  <2>8. ASSUME NEW t \in game.sources, Show(t) PROVE KInv'
    BY <2>1, <2>2, <2>8, ShowKeeps
  <2>9. ASSUME NEW f \in game.requests, NEW cooled \in BOOLEAN, NEW posed, BeginFrame(f, cooled, posed) PROVE KInv'
    BY <2>1, <2>9, BeginFrameKeeps
  <2>10. ASSUME NEW rebuild \in BOOLEAN, EndFrame(rebuild) PROVE KInv'
    BY <2>1, <2>10, EndFrameKeeps
  <2> QED BY <2>1, <2>3, <2>4, <2>5, <2>6, <2>7, <2>8, <2>9, <2>10 DEF Step
<1> QED BY <1>1, <1>2

(* The invariant of the backend and that of the reflections hold           *)
(* throughout.                                                             *)
LEMMA KeptThroughout == Spec => [](KInv /\ RInv)
<1>1. Init => KInv /\ RInv
  BY InitKeeps, InitReflects
<1>2. KInv /\ RInv /\ [Next]_vars => (KInv /\ RInv)'
  BY NextKeeps, NextReflects
<1> QED BY <1>1, <1>2, PTL DEF Spec

(* Under the invariant what is held is what lives, and nothing was         *)
(* misused.                                                                *)
LEMMA CleanNow == KInv => driver.alive = driver.held /\ driver.misuses = {}
<1>1. KInv => Clean(driver)
  BY DEF KInv, BackendInv, BackendIs
<1> QED BY <1>1, CleanShape

(* No step destroys or rewrites an object that submitted GPU work still    *)
(* uses: not the frame loop, not the deferred destruction of meshes, not   *)
(* the sweep of interface textures, not a recreated swapchain              *)
(* (processDeferredMeshDestroys, prepare, recreateSwapchain, shutdown).    *)
THEOREM BusyObjectsAreLeftAlone == Spec => []NothingBusyIsTouched
<1>1. KInv /\ RInv => NothingBusyIsTouched
  BY CleanNow DEF NothingBusyIsTouched
<1> QED BY <1>1, KeptThroughout, PTL

(* No call of the renderer names an object that was never created or is    *)
(* destroyed already: every draw binds what exists, whatever failed before *)
(* (recordFrame, the creation and cleanup paths of every part).            *)
THEOREM OnlyLivingObjectsAreUsed == Spec => []NothingGoneIsUsed
<1>1. KInv /\ RInv => NothingGoneIsUsed
  BY CleanNow DEF NothingGoneIsUsed
<1> QED BY <1>1, KeptThroughout, PTL

(* No object outlives the last handle to it: whatever creation fails half  *)
(* way, what was made is still known to the part that made it or is        *)
(* destroyed (OwnedTexture, cleanup lambdas, shutdown).                    *)
THEOREM EveryObjectHasItsHandle == Spec => []NothingIsLost
<1>1. KInv /\ RInv => NothingIsLost
  BY CleanNow DEF NothingIsLost
<1> QED BY <1>1, KeptThroughout, PTL

(* The kept images are the existing ones, and the budget counts them.      *)
LEMMA StockExisting ==
  ASSUME NEW held, NEW kept, NEW pending, NEW used, Stock(held, kept, pending, used)
  PROVE  /\ {n \in Names : Image(n) \in held} = kept
         /\ used = Cardinality(kept) /\ used <= ImageBudget
<1>1. \A n \in kept : n \in Names /\ Image(n) \in held
  BY DEF Stock
<1>2. ASSUME NEW n \in Names, Image(n) \in held PROVE n \in kept
  <2>1. \A name : Image(n)[1] = "material image" /\ Image(n)[2] = n /\ ImageMemory(name)[1] = "material image memory"
                  /\ ImageView(name)[1] = "material view" /\ Image(name)[2] = name
    BY DEF Image, ImageMemory, ImageView
  <2>2. PICK name \in kept : Image(n) \in ImageObjects(name)
    BY <1>2, <2>1 DEF Stock, ImageKinds
  <2>3. Image(n) = Image(name)
    BY <2>1, <2>2 DEF ImageObjects
  <2>4. n = name
    BY <2>1, <2>3
  <2> QED BY <2>2, <2>4
<1> QED BY <1>1, <1>2 DEF Stock

(* The bytes that the materials account for are those of the images that   *)
(* exist, within the budget: no failed or retried upload leaks or double-  *)
(* counts an image (uploadPixels, retirePendingUpload, ~TextureImage).     *)
THEOREM ImagesMatchTheBudget == Spec => []ImagesAreAccounted
<1>1. KInv /\ RInv => ImagesAreAccounted
  <2> SUFFICES ASSUME KInv PROVE ImagesAreAccounted
    OBVIOUS
  <2>1. PICK m, kept, existing : /\ m = renderer.materials /\ kept = Stored(m) \cup m.pending \cup Others(meshes)
                                 /\ existing = {n \in Names : Image(n) \in driver.alive}
    OBVIOUS
  <2>2. driver.alive = driver.held
    BY CleanNow
  <2>3. Stock(driver.held, kept, m.pending, m.used)
    BY <2>1 DEF KInv, BackendInv, BackendIs, Owned, MatOwns
  <2>4. {n \in Names : Image(n) \in driver.held} = kept /\ m.used = Cardinality(kept) /\ m.used <= ImageBudget
    BY <2>3, StockExisting
  <2>5. existing = kept
    BY <2>1, <2>2, <2>4
  <2>6. kept = Kept(m) \cup UNION {meshes[mesh].images : mesh \in Meshes}
    BY <2>1, KeptIs DEF Others
  <2> QED BY <2>1, <2>4, <2>5, <2>6 DEF ImagesAreAccounted
<1> QED BY <1>1, KeptThroughout, PTL
=============================================================================
