------------------------ MODULE CharacterMotor_proofs ------------------------
(***************************************************************************)
(* The character motor in any column of colliders, for any speeds, heights *)
(* and times: nobody falls through a ground, and jumps are earned.         *)
(***************************************************************************)
EXTENDS CharacterMotor, FiniteSetTheorems, WellFoundedInduction, TLAPS

-----------------------------------------------------------------------------
(***************************************************************************)
(* Numbers                                                                 *)
(***************************************************************************)
LEMMA GreaterOfTwo ==
  ASSUME NEW a \in Int, NEW b \in Int
  PROVE  Max({a, b}) \in {a, b} /\ Max({a, b}) >= a /\ Max({a, b}) >= b
<1>1. \E x \in {a, b} : \A y \in {a, b} : x >= y
  <2>1. CASE a >= b
    BY <2>1
  <2>2. CASE ~(a >= b)
    BY <2>2
  <2> QED BY <2>1, <2>2
<1>2. Max({a, b}) \in {a, b} /\ \A y \in {a, b} : Max({a, b}) >= y
  BY <1>1 DEF Max
<1> QED BY <1>2

LEMMA SmallerOfTwo ==
  ASSUME NEW a \in Int, NEW b \in Int
  PROVE  Min({a, b}) \in {a, b} /\ Min({a, b}) <= a /\ Min({a, b}) <= b
<1>1. \E x \in {a, b} : \A y \in {a, b} : x <= y
  <2>1. CASE a <= b
    BY <2>1
  <2>2. CASE ~(a <= b)
    BY <2>2
  <2> QED BY <2>1, <2>2
<1>2. Min({a, b}) \in {a, b} /\ \A y \in {a, b} : Min({a, b}) <= y
  BY <1>1 DEF Min
<1> QED BY <1>2

LEMMA GreatestOfThree ==
  ASSUME NEW a \in Int, NEW b \in Int, NEW c \in Int
  PROVE  /\ Max({a, b, c}) \in {a, b, c}
         /\ Max({a, b, c}) >= a /\ Max({a, b, c}) >= b /\ Max({a, b, c}) >= c
<1>1. PICK d : d = Max({a, b}) /\ d \in {a, b} /\ d >= a /\ d >= b
  BY GreaterOfTwo
<1>2. PICK e : e = Max({d, c}) /\ e \in {d, c} /\ e >= d /\ e >= c
  BY <1>1, GreaterOfTwo
<1>3. e \in {a, b, c} /\ \A y \in {a, b, c} : e >= y
  BY <1>1, <1>2
<1>4. Max({a, b, c}) \in {a, b, c} /\ \A y \in {a, b, c} : Max({a, b, c}) >= y
  BY <1>3 DEF Max
<1> QED BY <1>4

(* A part of a way leads the same way, and no farther.                     *)
LEMMA PartOfAWay ==
  ASSUME NEW way \in Int, NEW part \in 0 .. Whole
  PROVE  /\ Part(way, part) \in Int
         /\ way >= 0 => 0 <= Part(way, part) /\ Part(way, part) <= way
         /\ way <= 0 => way <= Part(way, part) /\ Part(way, part) <= 0
<1>1. PICK p : p = way * part /\ p \in Int
  OBVIOUS
<1>2. way >= 0 => 0 <= p /\ p <= way * 1000
  BY <1>1 DEF Whole
<1>3. way <= 0 => way * 1000 <= p /\ p <= 0
  BY <1>1 DEF Whole
<1>4. PICK q : q = p \div 1000 /\ q \in Int /\ 1000 * q <= p /\ p < 1000 * q + 1000
  BY <1>1
<1>5. Part(way, part) = q
  BY <1>1, <1>4 DEF Part, Whole
<1> QED BY <1>1, <1>2, <1>3, <1>4, <1>5

(* Who goes the part of a way on which all of it would close a gap, or     *)
(* less, goes no farther than the gap.                                     *)
LEMMA PartOfAGap ==
  ASSUME NEW gap \in Nat, NEW way \in Nat \ {0}, NEW rest \in Nat, rest <= way,
         NEW part \in Nat, part <= (gap * Whole) \div way, part <= Whole
  PROVE  - gap <= Part(- rest, part)
<1>1. PICK m, p, q : m = gap * 1000 /\ m \in Nat /\ p = (- rest) * part /\ p \in Int
                     /\ q = m \div way
  OBVIOUS
<1>2. q \in Nat /\ way * q <= m
  BY <1>1
<1>3. part <= q
  BY <1>1 DEF Whole
<1>4. rest * part <= way * q
  <2>1. rest * part <= way * part
    OBVIOUS
  <2>2. way * part <= way * q
    BY <1>2, <1>3
  <2> QED BY <1>2, <2>1, <2>2
<1>5. p >= - (gap * 1000)
  BY <1>1, <1>2, <1>4
<1>6. PICK r : r = p \div 1000 /\ r \in Int /\ 1000 * r <= p /\ p < 1000 * r + 1000
  BY <1>1
<1>7. Part(- rest, part) = r
  BY <1>1, <1>6 DEF Part, Whole
<1> QED BY <1>1, <1>5, <1>6, <1>7

(* Any numbers have a least one among them.                                *)
LEMMA LeastNumber ==
  ASSUME NEW T, T \subseteq Nat, T # {}
  PROVE  \E x \in T : \A y \in T : x <= y
<1>1. PICK n \in T : TRUE
  OBVIOUS
<1> DEFINE D == {m \in T : m <= n}
           U == {0 .. m : m \in D}
<1>2. IsWellFoundedOn(StrictSubsetOrdering(0 .. n), SUBSET (0 .. n))
  <2>1. IsFiniteSet(0 .. n)
    BY FS_Interval
  <2>2. FiniteSubsetsOf(0 .. n) = SUBSET (0 .. n)
    BY <2>1, FS_FiniteSubsetsOfFinite
  <2>3. IsWellFoundedOn(StrictSubsetOrdering(0 .. n), FiniteSubsetsOf(0 .. n))
    BY FS_StrictSubsetOrderingWellFounded
  <2> QED BY <2>2, <2>3
<1>3. U \subseteq SUBSET (0 .. n) /\ U # {}
  BY <1>1
<1>4. PICK x \in U : \A y \in U : <<y, x>> \notin StrictSubsetOrdering(0 .. n)
  BY <1>2, <1>3, WFMin
<1>5. PICK k \in D : x = 0 .. k
  BY <1>4
<1>6. \A m \in D : m >= k
  <2> SUFFICES ASSUME NEW m \in D, m < k PROVE FALSE
    OBVIOUS
  <2>1. 0 .. m \in U /\ 0 .. m \subseteq 0 .. k /\ k \in 0 .. k /\ k \notin 0 .. m
    OBVIOUS
  <2>2. 0 .. m \in SUBSET (0 .. n) /\ 0 .. k \in SUBSET (0 .. n)
    OBVIOUS
  <2> QED BY <1>4, <1>5, <2>1, <2>2 DEF StrictSubsetOrdering
<1> QED BY <1>6


-----------------------------------------------------------------------------
(***************************************************************************)
(* Ground                                                                  *)
(***************************************************************************)
IsWorld(world) ==
  /\ IsFiniteSet(DOMAIN world) /\ DOMAIN world \subseteq Nat \ {FloorMain}
  /\ \A id \in DOMAIN world : world[id] \in Collider /\ world[id].low <= world[id].high

IsPlace(at) == at.y \in Int /\ at = [y |-> at.y, beside |-> at.beside, ground |-> at.ground]

(* What a character may stand on.                                          *)
Grounds(world) == {id \in DOMAIN world : isGroundSurface(world[id])} \cup {FloorMain}

LEMMA SurfaceFacts ==
  ASSUME NEW world, IsWorld(world), NEW id \in DOMAIN world \cup {FloorMain}
  PROVE  Surface(world, id) \in Collider /\ Surface(world, id).low <= Surface(world, id).high
<1>1. CASE id = FloorMain
  BY <1>1 DEF Surface, floorColliderForBounds, Collider, SurfaceKind
<1>2. CASE id # FloorMain
  BY <1>2 DEF Surface, IsWorld
<1> QED BY <1>1, <1>2

LEMMA RiseFacts ==
  ASSUME NEW collider \in Collider, collider.low <= collider.high
  PROVE  rampRise(collider) \in Nat
  BY DEF rampRise, Collider

LEMMA SpanFacts ==
  ASSUME NEW collider \in Collider, collider.low <= collider.high, NEW query
  PROVE  /\ MaxStepUp(query, collider) \in Nat
         /\ MaxSnapDown(query, collider) \in Nat
         /\ query.enableStepUp => MaxStepUp(query, collider)
              = Max({MaxStepHeight, collider.override, rampRise(collider)})
         /\ ~query.enableStepUp => MaxStepUp(query, collider) = 1
<1>1. rampRise(collider) \in Nat
  BY RiseFacts
<1>2. collider.override \in Nat /\ MaxStepHeight \in Nat /\ SnapDownDistance \in Nat
  BY WorldConstants DEF Collider
<1>3. Max({MaxStepHeight, collider.override, rampRise(collider)}) \in Nat
  <2>1. PICK a \in Nat, b \in Nat, c \in Nat :
          a = MaxStepHeight /\ b = collider.override /\ c = rampRise(collider)
    BY <1>1, <1>2
  <2>2. Max({a, b, c}) \in {a, b, c}
    <3>1. a \in Int /\ b \in Int /\ c \in Int
      OBVIOUS
    <3> QED BY <3>1, GreatestOfThree
  <2>3. Max({a, b, c}) \in Nat
    BY <2>2
  <2> QED BY <2>1, <2>3
<1> QED BY <1>1, <1>2, <1>3 DEF MaxStepUp, MaxSnapDown

(* Among some colliders one is the highest, and of those the first.        *)
Better(world, id, other) ==
  \/ world[id].high > world[other].high
  \/ world[id].high = world[other].high /\ id <= other

LEMMA BestExists ==
  ASSUME NEW world, IsWorld(world), NEW S, S \subseteq DOMAIN world, S # {}
  PROVE  \E id \in S : \A other \in S : Better(world, id, other)
<1> DEFINE Bad(R) == R # {} /\ ~\E id \in R : \A other \in R : Better(world, id, other)
           T == {n \in Nat : \E R \in SUBSET DOMAIN world : Cardinality(R) = n /\ Bad(R)}
<1>1. \A id \in DOMAIN world : id \in Nat /\ world[id].high \in Nat
  BY DEF IsWorld, Collider
<1>2. \A R \in SUBSET DOMAIN world : IsFiniteSet(R) /\ Cardinality(R) \in Nat
  BY FS_Subset, FS_CardinalityType DEF IsWorld
<1>3. SUFFICES ASSUME Bad(S) PROVE FALSE
  OBVIOUS
<1>4. T \subseteq Nat /\ T # {}
  BY <1>2, <1>3
<1>5. PICK n \in T : \A m \in T : n <= m
  <2> HIDE DEF T
  <2> QED BY <1>4, LeastNumber
<1>6. PICK R \in SUBSET DOMAIN world : Cardinality(R) = n /\ Bad(R)
  BY <1>5
<1>7. PICK x \in R : TRUE
  BY <1>6
<1>8. IsFiniteSet(R \ {x}) /\ Cardinality(R \ {x}) = n - 1 /\ n - 1 \in Nat
  <2>1. Cardinality(R \ {x}) = Cardinality(R) - 1
    BY <1>2, <1>6, <1>7, FS_RemoveElement
  <2>2. Cardinality(R \ {x}) \in Nat
    BY <1>2
  <2> QED BY <1>2, <1>6, <2>1, <2>2
<1>9. ~Bad(R \ {x})
  <2>1. n - 1 \notin T
    BY <1>5, <1>8
  <2>2. R \ {x} \in SUBSET DOMAIN world
    OBVIOUS
  <2> QED BY <1>8, <2>1, <2>2
<1>10. CASE R \ {x} = {}
  <2>1. \A other \in R : Better(world, x, other)
    BY <1>1, <1>7, <1>10 DEF Better
  <2> QED BY <1>6, <1>7, <2>1
<1>11. CASE R \ {x} # {}
  <2>1. PICK b \in R \ {x} : \A other \in R \ {x} : Better(world, b, other)
    BY <1>9, <1>11
  <2>2. CASE Better(world, b, x)
    BY <1>6, <2>1, <2>2
  <2>3. CASE ~Better(world, b, x)
    <3>1. Better(world, x, b) /\ Better(world, x, x)
      BY <1>1, <2>3 DEF Better
    <3>2. ASSUME NEW other \in R \ {x} PROVE Better(world, x, other)
      BY <1>1, <2>1, <3>1 DEF Better
    <3> QED BY <1>6, <3>1, <3>2
  <2> QED BY <2>2, <2>3
<1> QED BY <1>10, <1>11

(* The ground that is found: the highest within reach.                     *)
LEMMA GroundFacts ==
  ASSUME NEW world, IsWorld(world), NEW query, NEW y \in Int
  PROVE  LET g == Ground(world, query, y) IN
         /\ g \in Grounds(world) \cup {NoGround}
         /\ g # NoGround => canSnapToSurface(query, y, Surface(world, g))
         /\ g = NoGround => \A id \in Grounds(world) : ~canSnapToSurface(query, y, Surface(world, id))
         /\ \A id \in Reachable(world, query, y) :
              g \in DOMAIN world /\ world[id].high <= world[g].high
<1> DEFINE found == Reachable(world, query, y)
<1>0. /\ \A id \in DOMAIN world : id \in Nat /\ id # FloorMain /\ world[id].high \in Nat
      /\ found \subseteq DOMAIN world
      /\ \A id \in found : isGroundSurface(world[id]) /\ canSnapToSurface(query, y, world[id])
  BY DEF IsWorld, Collider, Reachable
<1>1. CASE found # {}
  <2>1. PICK g : g = CHOOSE id \in found : \A other \in found : Better(world, id, other)
    OBVIOUS
  <2>2. g \in found /\ \A other \in found : Better(world, g, other)
    <3>1. \E id \in found : \A other \in found : Better(world, id, other)
      <4> HIDE DEF found
      <4> QED BY <1>0, <1>1, BestExists
    <3> HIDE DEF found
    <3> QED BY <2>1, <3>1
  <2>3. Ground(world, query, y) = g
    BY <1>1, <2>1 DEF Ground, Better
  <2>4. g \in DOMAIN world /\ g \in Grounds(world) /\ g # NoGround /\ g # FloorMain
        /\ canSnapToSurface(query, y, Surface(world, g))
    BY <1>0, <2>2 DEF Grounds, Surface, NoGround
  <2>5. \A id \in found : world[id].high <= world[g].high
    BY <1>0, <2>2 DEF Better
  <2> QED BY <2>3, <2>4, <2>5
<1>2. CASE found = {}
  <2>1. Ground(world, query, y)
          = IF canSnapToSurface(query, y, floorColliderForBounds) THEN FloorMain ELSE NoGround
    BY <1>2 DEF Ground
  <2>2. FloorMain # NoGround /\ Surface(world, FloorMain) = floorColliderForBounds
    BY DEF FloorMain, NoGround, Surface
  <2>3. \A id \in Grounds(world) : id # FloorMain =>
          ~canSnapToSurface(query, y, Surface(world, id))
    BY <1>2 DEF Grounds, Surface, Reachable
  <2> QED BY <1>2, <2>1, <2>2, <2>3 DEF Grounds
<1> QED BY <1>1, <1>2

(* Every surface is reached by who stands on it.                           *)
LEMMA OwnSurface ==
  ASSUME NEW world, IsWorld(world), NEW query, NEW id \in Grounds(world),
         NEW y, y = Surface(world, id).high
  PROVE  canSnapToSurface(query, y, Surface(world, id)) /\ y \in Nat
<1>1. PICK c : c = Surface(world, id)
  OBVIOUS
<1>2. c \in Collider /\ c.low <= c.high
  BY <1>1, SurfaceFacts DEF Grounds
<1>3. MaxStepUp(query, c) \in Nat /\ MaxSnapDown(query, c) \in Nat
  BY <1>2, SpanFacts
<1>4. y = c.high /\ y \in Nat
  BY <1>1, <1>2 DEF Collider
<1> QED BY <1>1, <1>3, <1>4 DEF canSnapToSurface

LEMMA PlacedFacts ==
  ASSUME NEW world, IsWorld(world), NEW at, IsPlace(at), NEW id \in Grounds(world) \cup {NoGround}
  PROVE  LET p == Placed(world, at, id) IN
         /\ IsPlace(p) /\ p.ground = id
         /\ p.y = IF id = NoGround THEN at.y ELSE Surface(world, id).high
<1>1. CASE id = NoGround
  <2>1. Placed(world, at, id) = [y |-> at.y, beside |-> at.beside, ground |-> id]
    BY <1>1 DEF Placed, IsPlace
  <2> QED BY <1>1, <2>1 DEF IsPlace
<1>2. CASE id # NoGround
  <2>1. PICK h : h = Surface(world, id).high /\ h \in Nat
    BY <1>2, OwnSurface
  <2>2. Placed(world, at, id) = [y |-> h, beside |-> at.beside, ground |-> id]
    BY <1>2, <2>1 DEF Placed, IsPlace
  <2> QED BY <1>2, <2>1, <2>2 DEF IsPlace
<1> QED BY <1>1, <1>2

(* Looking for ground, in terms of what is there.                          *)
LEMMA GroundResolved ==
  ASSUME NEW world, IsWorld(world), NEW query, NEW at, IsPlace(at)
  PROVE  LET r == resolveGroundSurfaces(world, query, at) IN
         /\ IsPlace(r) /\ r.ground \in Grounds(world) \cup {NoGround}
         /\ r.ground = NoGround =>
              /\ r.y = at.y
              /\ \A id \in Grounds(world) : ~canSnapToSurface(query, at.y, Surface(world, id))
         /\ r.ground # NoGround =>
              /\ r.y = Surface(world, r.ground).high /\ r.y \in Nat
              /\ canSnapToSurface(query, at.y, Surface(world, r.ground))
         /\ \A id \in Reachable(world, query, at.y) : world[id].high <= r.y
<1>1. at.y \in Int
  BY DEF IsPlace
<1>2. PICK g : g = Ground(world, query, at.y)
  OBVIOUS
<1>3. /\ g \in Grounds(world) \cup {NoGround}
      /\ g # NoGround => canSnapToSurface(query, at.y, Surface(world, g))
      /\ g = NoGround => \A id \in Grounds(world) : ~canSnapToSurface(query, at.y, Surface(world, id))
      /\ \A id \in Reachable(world, query, at.y) :
           g \in DOMAIN world /\ world[id].high <= world[g].high
  BY <1>1, <1>2, GroundFacts
<1>4. PICK r : r = resolveGroundSurfaces(world, query, at) /\ r = Placed(world, at, g)
  BY <1>2 DEF resolveGroundSurfaces
<1>5. IsPlace(r) /\ r.ground = g /\ r.y = IF g = NoGround THEN at.y ELSE Surface(world, g).high
  BY <1>3, <1>4, PlacedFacts
<1>6. g # NoGround => r.y \in Nat
  BY <1>3, <1>5, OwnSurface
<1>7. ASSUME NEW id \in Reachable(world, query, at.y) PROVE world[id].high <= r.y
  <2>1. g \in DOMAIN world /\ world[id].high <= world[g].high
    BY <1>3, <1>7
  <2>2. g # FloorMain /\ g # NoGround
    BY <2>1 DEF IsWorld, NoGround
  <2> QED BY <1>5, <2>1, <2>2 DEF Surface
<1> QED BY <1>3, <1>4, <1>5, <1>6, <1>7

LEMMA SidesResolved ==
  ASSUME NEW world, NEW query, NEW at, IsPlace(at)
  PROVE  LET r == resolveSidePenetrations(world, query, at) IN
         IsPlace(r) /\ r.y = at.y
<1>1. PICK b : resolveSidePenetrations(world, query, at) = [at EXCEPT !.beside = b]
  BY DEF resolveSidePenetrations
<1>2. [at EXCEPT !.beside = b] = [y |-> at.y, beside |-> b, ground |-> at.ground]
  BY DEF IsPlace
<1> QED BY <1>1, <1>2 DEF IsPlace

(* What a character is resolved to: a place on a ground within reach, if   *)
(* there is one, and otherwise the place where it was.                     *)
LEMMA Resolution ==
  ASSUME NEW world, IsWorld(world), NEW query, NEW at, IsPlace(at)
  PROVE  LET r == resolveCharacter(world, query, at)
             y == Max({at.y, 0})
         IN
         /\ IsPlace(r) /\ r.y \in Nat /\ r.ground \in Grounds(world) \cup {NoGround}
         /\ r.ground = NoGround =>
              r.y = y /\ \A id \in Grounds(world) : ~canSnapToSurface(query, y, Surface(world, id))
         /\ r.ground # NoGround =>
              /\ r.y = Surface(world, r.ground).high
              /\ \E id \in Grounds(world) : canSnapToSurface(query, y, Surface(world, id))
<1>1. PICK y \in Nat : y = Max({at.y, 0})
  BY GreaterOfTwo DEF IsPlace
<1>2. PICK a : a = [at EXCEPT !.y = Max({@, 0})]
  OBVIOUS
<1>3. IsPlace(a) /\ a.y = y
  <2>1. a = [y |-> y, beside |-> at.beside, ground |-> at.ground]
    BY <1>1, <1>2 DEF IsPlace
  <2> QED BY <1>1, <2>1 DEF IsPlace
<1>4. PICK b : b = resolveGroundSurfaces(world, query, a)
  OBVIOUS
<1>5. /\ IsPlace(b) /\ b.ground \in Grounds(world) \cup {NoGround}
      /\ b.ground = NoGround =>
           /\ b.y = y
           /\ \A id \in Grounds(world) : ~canSnapToSurface(query, y, Surface(world, id))
      /\ b.ground # NoGround =>
           /\ b.y = Surface(world, b.ground).high /\ b.y \in Nat
           /\ canSnapToSurface(query, y, Surface(world, b.ground))
  BY <1>3, <1>4, GroundResolved
<1>6. PICK c : c = resolveSidePenetrations(world, query, b)
  OBVIOUS
<1>7. IsPlace(c) /\ c.y = b.y
  BY <1>5, <1>6, SidesResolved
<1>8. PICK r : r = resolveGroundSurfaces(world, query, c)
  OBVIOUS
<1>12. r = resolveCharacter(world, query, at)
  BY <1>2, <1>4, <1>6, <1>8 DEF resolveCharacter
<1>9. /\ IsPlace(r) /\ r.ground \in Grounds(world) \cup {NoGround}
      /\ r.ground = NoGround =>
           /\ r.y = b.y
           /\ \A id \in Grounds(world) : ~canSnapToSurface(query, b.y, Surface(world, id))
      /\ r.ground # NoGround =>
           /\ r.y = Surface(world, r.ground).high /\ r.y \in Nat
           /\ canSnapToSurface(query, b.y, Surface(world, r.ground))
  <2>1. /\ IsPlace(r) /\ r.ground \in Grounds(world) \cup {NoGround}
        /\ r.ground = NoGround =>
             /\ r.y = c.y
             /\ \A id \in Grounds(world) : ~canSnapToSurface(query, c.y, Surface(world, id))
        /\ r.ground # NoGround =>
             /\ r.y = Surface(world, r.ground).high /\ r.y \in Nat
             /\ canSnapToSurface(query, c.y, Surface(world, r.ground))
    BY <1>7, <1>8, GroundResolved
  <2> QED BY <1>7, <2>1
<1>10. CASE b.ground = NoGround
  BY <1>1, <1>5, <1>9, <1>10, <1>12
<1>11. CASE b.ground # NoGround
  <2>1. canSnapToSurface(query, b.y, Surface(world, b.ground))
    BY <1>5, <1>11, OwnSurface
  <2>2. r.ground # NoGround
    BY <1>5, <1>9, <1>11, <2>1
  <2> QED BY <1>1, <1>5, <1>9, <1>11, <1>12, <2>2
<1> QED BY <1>10, <1>11

(* Without ramps all surfaces are snapped onto from the same height, so    *)
(* that nobody is put below a ground that was not above the feet.          *)
NoRamps(world) == \A id \in DOMAIN world : world[id].kind \notin {"Ramp", "Slide"}

LEMMA StaysAboveGround ==
  ASSUME NEW world, IsWorld(world), NoRamps(world), NEW query, NEW at, IsPlace(at),
         NEW id \in DOMAIN world, isGroundSurface(world[id]), world[id].high <= at.y
  PROVE  world[id].high <= resolveGroundSurfaces(world, query, at).y
<1>1. PICK r : r = resolveGroundSurfaces(world, query, at)
  OBVIOUS
<1>2. /\ r.ground \in Grounds(world) \cup {NoGround}
      /\ r.ground = NoGround => r.y = at.y
      /\ r.ground # NoGround =>
           /\ r.y = Surface(world, r.ground).high
           /\ canSnapToSurface(query, at.y, Surface(world, r.ground))
      /\ \A o \in Reachable(world, query, at.y) : world[o].high <= r.y
  BY <1>1, GroundResolved
<1>3. CASE r.ground = NoGround
  BY <1>1, <1>2, <1>3
<1>4. CASE r.ground # NoGround
  <2>1. PICK c : c = Surface(world, r.ground)
    OBVIOUS
  <2>2. c \in Collider /\ c.low <= c.high /\ c.kind \notin {"Ramp", "Slide"}
    <3>1. r.ground \in DOMAIN world \cup {FloorMain}
      BY <1>2, <1>4 DEF Grounds
    <3>2. c \in Collider /\ c.low <= c.high
      BY <2>1, <3>1, SurfaceFacts
    <3> QED BY <2>1, <3>1, <3>2 DEF Surface, floorColliderForBounds, NoRamps
  <2>3. PICK d : d = world[id]
    OBVIOUS
  <2>4. d \in Collider /\ d.low <= d.high /\ d.kind \notin {"Ramp", "Slide"}
    BY <2>3 DEF IsWorld, NoRamps
  <2>5. PICK m : m = MaxSnapDown(query, c) /\ m = MaxSnapDown(query, d)
    BY <2>2, <2>4 DEF MaxSnapDown, rampRise
  <2>6. m \in Nat /\ MaxStepUp(query, c) \in Nat /\ MaxStepUp(query, d) \in Nat
    <3>1. MaxStepUp(query, c) \in Nat /\ MaxSnapDown(query, c) \in Nat
      BY <2>2, SpanFacts
    <3>2. MaxStepUp(query, d) \in Nat
      BY <2>4, SpanFacts
    <3> QED BY <2>5, <3>1, <3>2
  <2>7. at.y \in Int /\ c.high \in Nat /\ d.high \in Nat /\ d.high <= at.y
    BY <2>2, <2>3, <2>4 DEF IsPlace, Collider
  <2>8. c.high - at.y >= - m
    BY <1>2, <1>4, <2>1, <2>5, <2>6, <2>7 DEF canSnapToSurface
  <2>9. CASE canSnapToSurface(query, at.y, d)
    <3>1. id \in Reachable(world, query, at.y)
      BY <2>3, <2>9 DEF Reachable
    <3> QED BY <1>1, <1>2, <3>1
  <2>10. CASE ~canSnapToSurface(query, at.y, d)
    <3>1. d.high - at.y < - m
      BY <2>5, <2>6, <2>7, <2>10 DEF canSnapToSurface
    <3>2. d.high <= c.high
      BY <2>6, <2>7, <2>8, <3>1
    <3> QED BY <1>1, <1>2, <1>4, <2>1, <2>3, <3>2
  <2> QED BY <2>9, <2>10
<1> QED BY <1>3, <1>4

LEMMA StaysAbove ==
  ASSUME NEW world, IsWorld(world), NoRamps(world), NEW query, NEW at, IsPlace(at),
         NEW id \in DOMAIN world, isGroundSurface(world[id]), world[id].high <= at.y
  PROVE  world[id].high <= resolveCharacter(world, query, at).y
<1>0. world[id].high \in Nat
  BY DEF IsWorld, Collider
<1>1. PICK y \in Nat : y = Max({at.y, 0}) /\ at.y <= y
  BY GreaterOfTwo DEF IsPlace
<1>2. PICK a : a = [at EXCEPT !.y = Max({@, 0})]
  OBVIOUS
<1>3. IsPlace(a) /\ world[id].high <= a.y
  <2>1. a = [y |-> y, beside |-> at.beside, ground |-> at.ground]
    BY <1>1, <1>2 DEF IsPlace
  <2> QED BY <1>0, <1>1, <2>1 DEF IsPlace
<1>4. PICK b : b = resolveGroundSurfaces(world, query, a)
  OBVIOUS
<1>5. IsPlace(b) /\ world[id].high <= b.y
  <2>1. IsPlace(b)
    BY <1>3, <1>4, GroundResolved
  <2> QED BY <1>3, <1>4, <2>1, StaysAboveGround
<1>6. PICK c : c = resolveSidePenetrations(world, query, b)
  OBVIOUS
<1>7. IsPlace(c) /\ world[id].high <= c.y
  <2>1. IsPlace(c) /\ c.y = b.y
    BY <1>5, <1>6, SidesResolved
  <2> QED BY <1>5, <2>1
<1>8. world[id].high <= resolveGroundSurfaces(world, query, c).y
  BY <1>7, StaysAboveGround
<1> QED BY <1>2, <1>4, <1>6, <1>8 DEF resolveCharacter

-----------------------------------------------------------------------------
(***************************************************************************)
(* Sweeps                                                                  *)
(***************************************************************************)
IsSweep(sweep) ==
  /\ IsPlace(sweep.at) /\ sweep.remaining \in Int /\ sweep.time \in 0 .. Whole
  /\ \A plane \in sweep.planes : plane.velocity \in Int
  /\ sweep = [at |-> sweep.at, remaining |-> sweep.remaining, time |-> sweep.time,
              planes |-> sweep.planes]

AllHits(world, query, sweep) ==
  GroundHits(world, sweep) \cup CeilingHits(world, query, sweep) \cup FloorHits(sweep)

LEMMA WayFacts ==
  ASSUME NEW sweep, IsSweep(sweep), NEW collider \in Collider
  PROVE  /\ RelativeWay(sweep, collider) \in Int
         /\ collider.velocity >= 0 => RelativeWay(sweep, collider) <= sweep.remaining
<1>1. PICK v \in Int, t \in 0 .. Whole : v = collider.velocity /\ t = sweep.time
  BY DEF IsSweep, Collider
<1>2. Part(v, t) \in Int /\ (v >= 0 => 0 <= Part(v, t))
  BY PartOfAWay
<1>3. RelativeWay(sweep, collider) = sweep.remaining - Part(v, t)
  BY <1>1 DEF RelativeWay
<1>4. sweep.remaining \in Int
  BY DEF IsSweep
<1> QED BY <1>1, <1>2, <1>3, <1>4

(* When a surface is crossed.                                              *)
Crossed(sweep, collider) ==
  LET clearance == sweep.at.y - collider.high
      way == RelativeWay(sweep, collider)
  IN IF clearance <= 0 THEN 0 ELSE Min({Whole, (clearance * Whole) \div (- way)})

LEMMA CrossedFacts ==
  ASSUME NEW sweep, IsSweep(sweep), NEW collider \in Collider, RelativeWay(sweep, collider) < 0
  PROVE  /\ Crossed(sweep, collider) \in Nat
         /\ sweep.at.y >= collider.high =>
              Crossed(sweep, collider)
                <= ((sweep.at.y - collider.high) * Whole) \div (- RelativeWay(sweep, collider))
<1>1. PICK way \in Nat \ {0} : - way = RelativeWay(sweep, collider) /\ way = - RelativeWay(sweep, collider)
  <2>1. RelativeWay(sweep, collider) \in Int
    BY WayFacts
  <2> QED BY <2>1
<1>2. PICK clearance \in Int : clearance = sweep.at.y - collider.high
  BY DEF IsSweep, IsPlace, Collider
<1>3. sweep.at.y \in Int /\ collider.high \in Int
  BY DEF IsSweep, IsPlace, Collider
<1>4. CASE clearance <= 0
  <2>1. Crossed(sweep, collider) = 0
    BY <1>2, <1>4 DEF Crossed
  <2>2. sweep.at.y >= collider.high => clearance = 0
    BY <1>2, <1>3, <1>4
  <2>3. (0 * Whole) \div way = 0
    BY DEF Whole
  <2> QED BY <1>1, <1>2, <2>1, <2>2, <2>3
<1>5. CASE clearance > 0
  <2>1. PICK q \in Nat : q = (clearance * Whole) \div way
    <3>1. PICK m \in Nat : m = clearance * Whole
      BY <1>5 DEF Whole
    <3>2. m \div way \in Nat
      OBVIOUS
    <3> QED BY <3>1, <3>2
  <2>2. Min({Whole, q}) \in {Whole, q} /\ Min({Whole, q}) <= q
    <3>1. Whole \in Int /\ q \in Int
      BY DEF Whole
    <3> QED BY <3>1, SmallerOfTwo
  <2>3. Crossed(sweep, collider) = Min({Whole, q})
    BY <1>1, <1>2, <1>5, <2>1 DEF Crossed
  <2> QED BY <1>1, <1>2, <2>1, <2>2, <2>3 DEF Whole
<1> QED BY <1>4, <1>5

LEMMA GroundHitsAre ==
  ASSUME NEW world, NEW sweep
  PROVE  GroundHits(world, sweep)
           = {Hit(Crossed(sweep, world[id]), 1, id, world[id].velocity)
              : id \in {i \in DOMAIN world : /\ isGroundSurface(world[i])
                                             /\ RelativeWay(sweep, world[i]) < 0}}
  BY DEF GroundHits, Crossed

LEMMA HitFacts ==
  ASSUME NEW world, IsWorld(world), NEW query, query.height \in Int, NEW sweep, IsSweep(sweep),
         NEW hit \in AllHits(world, query, sweep)
  PROVE  hit.part \in Nat /\ hit.id \in Nat /\ hit.velocity \in Int
<1>1. CASE hit \in GroundHits(world, sweep)
  <2>1. PICK id \in DOMAIN world :
          /\ RelativeWay(sweep, world[id]) < 0
          /\ hit = Hit(Crossed(sweep, world[id]), 1, id, world[id].velocity)
    BY <1>1, GroundHitsAre
  <2>2. world[id] \in Collider /\ id \in Nat
    BY DEF IsWorld
  <2>3. Crossed(sweep, world[id]) \in Nat
    BY <2>1, <2>2, CrossedFacts
  <2> QED BY <2>1, <2>2, <2>3 DEF Hit, Collider
<1>2. CASE hit \in CeilingHits(world, query, sweep)
  <2>1. PICK id \in DOMAIN world :
          LET room == world[id].low - sweep.at.y - query.height IN
          /\ 0 <= room /\ RelativeWay(sweep, world[id]) > 0
          /\ hit = Hit((room * Whole) \div RelativeWay(sweep, world[id]), -1, id, world[id].velocity)
    BY <1>2 DEF CeilingHits
  <2>2. world[id] \in Collider /\ id \in Nat
    BY DEF IsWorld
  <2>3. PICK way \in Nat \ {0} : way = RelativeWay(sweep, world[id])
    <3>1. RelativeWay(sweep, world[id]) \in Int
      BY <2>2, WayFacts
    <3> QED BY <2>1, <3>1
  <2>4. PICK room \in Nat : room = world[id].low - sweep.at.y - query.height
    <3>1. world[id].low \in Int /\ sweep.at.y \in Int
      BY <2>2 DEF IsSweep, IsPlace, Collider
    <3> QED BY <2>1, <3>1
  <2>5. PICK q \in Nat : q = (room * Whole) \div way
    <3>1. PICK m \in Nat : m = room * Whole
      BY DEF Whole
    <3>2. m \div way \in Nat
      OBVIOUS
    <3> QED BY <3>1, <3>2
  <2>6. hit = Hit(q, -1, id, world[id].velocity)
    BY <2>1, <2>3, <2>4, <2>5
  <2> QED BY <2>2, <2>6 DEF Hit, Collider
<1>3. CASE hit \in FloorHits(sweep)
  <2>1. sweep.at.y > 0 /\ sweep.at.y <= - sweep.remaining
        /\ hit = Hit((sweep.at.y * Whole) \div (- sweep.remaining), 1, FloorMain, 0)
    BY <1>3 DEF FloorHits
  <2>2. PICK y \in Nat, way \in Nat \ {0} : y = sweep.at.y /\ way = - sweep.remaining
    BY <2>1 DEF IsSweep, IsPlace
  <2>3. PICK q \in Nat : q = (y * Whole) \div way
    <3>1. PICK m \in Nat : m = y * Whole
      BY DEF Whole
    <3>2. m \div way \in Nat
      OBVIOUS
    <3> QED BY <3>1, <3>2
  <2> QED BY <2>1, <2>2, <2>3 DEF Hit, FloorMain
<1> QED BY <1>1, <1>2, <1>3 DEF AllHits

(* The earliest hits come before every other, and there are some whenever  *)
(* something is hit on the way.                                            *)
LEMMA EarliestFacts ==
  ASSUME NEW world, IsWorld(world), NEW query, query.height \in Int, NEW sweep, IsSweep(sweep)
  PROVE  LET hits == findEarliestSweepHits(world, query, sweep) IN
         /\ \A hit \in hits :
              /\ hit \in AllHits(world, query, sweep) /\ hit.part < Whole
              /\ \A other \in AllHits(world, query, sweep) : hit.part <= other.part
         /\ hits = {} => \A hit \in AllHits(world, query, sweep) : hit.part >= Whole
<1> DEFINE all == AllHits(world, query, sweep)
           hits == findEarliestSweepHits(world, query, sweep)
<1>1. hits = {hit \in all : hit.part < Whole /\ \A other \in all : hit.part <= other.part}
  BY DEF findEarliestSweepHits, AllHits
<1>2. \A hit \in all : hit.part \in Nat
  BY HitFacts
<1>3. ASSUME NEW h \in all, h.part < Whole PROVE hits # {}
  <2> DEFINE T == {hit.part : hit \in all}
  <2>1. T \subseteq Nat /\ T # {}
    BY <1>2, <1>3
  <2>2. PICK n \in T : \A m \in T : n <= m
    <3> HIDE DEF T
    <3> QED BY <2>1, LeastNumber
  <2>3. PICK e \in all : e.part = n
    BY <2>2
  <2>4. e.part <= h.part /\ \A other \in all : e.part <= other.part
    BY <1>3, <2>2, <2>3
  <2>5. e.part < Whole
    BY <1>2, <1>3, <2>4 DEF Whole
  <2> QED BY <1>1, <2>4, <2>5
<1> HIDE DEF all, hits
<1>4. hits = {} => \A hit \in all : hit.part >= Whole
  BY <1>2, <1>3 DEF Whole
<1>5. \A hit \in hits : /\ hit \in all /\ hit.part < Whole
                        /\ \A other \in all : hit.part <= other.part
  BY <1>1
<1> QED BY <1>4, <1>5 DEF all, hits

LEMMA TimeLeft ==
  ASSUME NEW a \in Int, NEW b \in Int, 0 <= b, b <= a, a <= 1000
  PROVE  a - b \in 0 .. Whole
  BY DEF Whole

LEMMA MovedShape ==
  ASSUME NEW y, NEW b, NEW g, NEW rest, NEW time, NEW planes, NEW part
  PROVE  Moved([at |-> [y |-> y, beside |-> b, ground |-> g], remaining |-> rest,
                time |-> time, planes |-> planes], part)
           = [at |-> [y |-> y + Part(rest, part), beside |-> b, ground |-> g],
              remaining |-> rest - Part(rest, part), time |-> time - Part(time, part),
              planes |-> planes]
  BY DEF Moved

LEMMA MovedFacts ==
  ASSUME NEW sweep, IsSweep(sweep), NEW part \in 0 .. Whole
  PROVE  LET m == Moved(sweep, part) IN
         /\ IsSweep(m) /\ m.planes = sweep.planes
         /\ m.at.y = sweep.at.y + Part(sweep.remaining, part)
<1> PICK at : at = sweep.at
  OBVIOUS
<1> PICK y \in Int : y = at.y
  BY DEF IsSweep, IsPlace
<1> PICK b : b = at.beside
  OBVIOUS
<1> PICK g : g = at.ground
  OBVIOUS
<1> PICK rest \in Int : rest = sweep.remaining
  BY DEF IsSweep
<1> PICK time \in Int : time = sweep.time /\ 0 <= time /\ time <= 1000
  BY DEF IsSweep, Whole
<1> PICK planes : planes = sweep.planes
  OBVIOUS
<1>1. sweep = [at |-> [y |-> y, beside |-> b, ground |-> g], remaining |-> rest,
               time |-> time, planes |-> planes]
  <2>1. at = [y |-> y, beside |-> b, ground |-> g]
    BY DEF IsSweep, IsPlace
  <2>2. sweep = [at |-> at, remaining |-> rest, time |-> time, planes |-> planes]
    BY DEF IsSweep
  <2> QED BY <2>1, <2>2
<1>2. PICK p \in Int : p = Part(rest, part)
  BY PartOfAWay
<1>3. PICK t \in Int : t = Part(time, part) /\ 0 <= t /\ t <= time
  BY PartOfAWay
<1>4. PICK m : m = Moved(sweep, part)
  OBVIOUS
<1>5. m = [at |-> [y |-> y + p, beside |-> b, ground |-> g], remaining |-> rest - p,
           time |-> time - t, planes |-> planes]
  <2>1. m = [at |-> [y |-> y + Part(rest, part), beside |-> b, ground |-> g],
             remaining |-> rest - Part(rest, part), time |-> time - Part(time, part),
             planes |-> planes]
    BY <1>1, <1>4, MovedShape
  <2> QED BY <1>2, <1>3, <2>1, Zenon
<1>6. IsPlace(m.at) /\ m.remaining \in Int /\ m.time \in 0 .. Whole /\ m.planes = sweep.planes
      /\ m.at.y = sweep.at.y + p
  <2>1. /\ sweep.at.y = y /\ sweep.planes = planes
        /\ m.at = [y |-> y + p, beside |-> b, ground |-> g] /\ m.remaining = rest - p
        /\ m.time = time - t /\ m.planes = planes
    BY <1>1, <1>5
  <2>2. IsPlace(m.at) /\ m.at.y = y + p
    BY <2>1 DEF IsPlace
  <2>3. time - t \in 0 .. Whole
    <3>1. 0 <= t /\ t <= time /\ time <= 1000
      BY <1>3
    <3> QED BY <3>1, TimeLeft
  <2>4. rest - p \in Int
    OBVIOUS
  <2> QED BY <2>1, <2>2, <2>3, <2>4
<1>7. m = [at |-> m.at, remaining |-> m.remaining, time |-> m.time, planes |-> m.planes]
  BY <1>5
<1>8. sweep.remaining = rest
  BY <1>1
<1> QED BY <1>2, <1>4, <1>6, <1>7, <1>8 DEF IsSweep

(* Hits bring a plane.                                                     *)
LEMMA PlanesFacts ==
  ASSUME NEW planes, NEW hits, hits # {},
         \A plane \in planes : plane.velocity \in Int,
         \A hit \in hits : hit.id \in Nat /\ hit.velocity \in Int
  PROVE  /\ planes \cup NewPlanes(planes, hits) # {}
         /\ \A plane \in planes \cup NewPlanes(planes, hits) : plane.velocity \in Int
<1>1. \A plane \in NewPlanes(planes, hits) : plane.velocity \in Int
  BY DEF NewPlanes
<1>2. CASE planes # {}
  BY <1>1, <1>2
<1>3. CASE planes = {}
  <2>1. PICK h \in hits : TRUE
    OBVIOUS
  <2> DEFINE T == {hit.id : hit \in {o \in hits : o.normal = h.normal}}
  <2>2. T \subseteq Nat /\ T # {}
    BY <2>1
  <2>3. PICK n \in T : \A m \in T : n <= m
    <3> HIDE DEF T
    <3> QED BY <2>2, LeastNumber
  <2>4. PICK e \in hits : e.normal = h.normal /\ e.id = n
    BY <2>3
  <2>5. \A other \in hits : other.normal = e.normal => e.id <= other.id
    BY <2>3, <2>4
  <2>6. [normal |-> e.normal, velocity |-> e.velocity] \in NewPlanes(planes, hits)
    BY <1>3, <2>5 DEF NewPlanes
  <2> QED BY <1>1, <1>3, <2>6
<1> QED BY <1>2, <1>3

LEMMA ClippedFacts ==
  ASSUME NEW sweep, IsSweep(sweep), sweep.planes # {}
  PROVE  IsSweep(Clipped(sweep)) /\ Clipped(sweep).at = sweep.at
<1>1. PICK plane : plane = CHOOSE p \in sweep.planes : TRUE
  OBVIOUS
<1>2. plane.velocity \in Int
  BY <1>1 DEF IsSweep
<1>3. PICK carried \in Int : carried = Part(plane.velocity, sweep.time)
  BY <1>2, PartOfAWay DEF IsSweep
<1>4. \E rest \in Int : Clipped(sweep) = [sweep EXCEPT !.remaining = rest]
  <2>1. \/ Clipped(sweep) = [sweep EXCEPT !.remaining = 0]
        \/ Clipped(sweep) = [sweep EXCEPT !.remaining = carried]
        \/ Clipped(sweep) = sweep
    BY <1>1, <1>3 DEF Clipped
  <2>2. sweep = [sweep EXCEPT !.remaining = sweep.remaining] /\ sweep.remaining \in Int
    BY DEF IsSweep
  <2> QED BY <2>1, <2>2
<1>5. PICK rest \in Int : Clipped(sweep) = [sweep EXCEPT !.remaining = rest]
  BY <1>4
<1>6. [sweep EXCEPT !.remaining = rest]
        = [at |-> sweep.at, remaining |-> rest, time |-> sweep.time, planes |-> sweep.planes]
  BY DEF IsSweep
<1> QED BY <1>5, <1>6 DEF IsSweep

LEMMA SafetyFacts ==
  ASSUME NEW sweep, IsSweep(sweep), sweep.remaining # 0
  PROVE  Safety(sweep) \in Nat
<1>1. PICK r \in Int : r = sweep.remaining /\ r # 0
  BY DEF IsSweep
<1>2. PICK n \in Int : n = Max({r, - r}) /\ n \in {r, - r} /\ n >= r /\ n >= - r
  <2>1. r \in Int /\ - r \in Int
    OBVIOUS
  <2>2. PICK q \in Int : q = - r
    BY <2>1
  <2>3. Max({r, q}) \in {r, q} /\ Max({r, q}) >= r /\ Max({r, q}) >= q
    BY GreaterOfTwo
  <2> QED BY <2>2, <2>3
<1>3. n \in Nat \ {0}
  BY <1>1, <1>2
<1>4. PICK q \in Nat : q = (3 * Whole) \div n
  BY <1>3 DEF Whole
<1>5. Min({50, q}) \in {50, q}
  <2>1. PICK l \in Int : l = 50
    OBVIOUS
  <2>2. q \in Int
    OBVIOUS
  <2>3. Min({l, q}) \in {l, q}
    BY <2>2, SmallerOfTwo
  <2> QED BY <2>1, <2>3
<1>6. Safety(sweep) = Min({50, q})
  BY <1>1, <1>2, <1>4 DEF Safety
<1> QED BY <1>5, <1>6

(* A sweep advances by a part of its way that ends before any hit.         *)
LEMMA AdvancedFacts ==
  ASSUME NEW world, IsWorld(world), NEW query, query.height \in Int,
         NEW sweep, IsSweep(sweep), sweep.remaining # 0
  PROVE  LET a == Advanced(sweep, findEarliestSweepHits(world, query, sweep)) IN
         /\ IsSweep(a)
         /\ \E part \in 0 .. Whole :
              /\ a.at.y = sweep.at.y + Part(sweep.remaining, part)
              /\ \A hit \in AllHits(world, query, sweep) : part <= hit.part
<1>1. PICK hits : hits = findEarliestSweepHits(world, query, sweep)
  OBVIOUS
<1>2. /\ \A hit \in hits :
           /\ hit \in AllHits(world, query, sweep) /\ hit.part < Whole
           /\ \A other \in AllHits(world, query, sweep) : hit.part <= other.part
      /\ hits = {} => \A hit \in AllHits(world, query, sweep) : hit.part >= Whole
  BY <1>1, EarliestFacts
<1>3. CASE hits = {}
  <2>1. Advanced(sweep, hits) = Moved(sweep, Whole) /\ Whole \in 0 .. Whole
    BY <1>3 DEF Advanced, Whole
  <2>2. IsSweep(Moved(sweep, Whole))
        /\ Moved(sweep, Whole).at.y = sweep.at.y + Part(sweep.remaining, Whole)
    BY <2>1, MovedFacts
  <2>3. \A hit \in AllHits(world, query, sweep) : hit.part \in Nat
    BY HitFacts
  <2>4. \A hit \in AllHits(world, query, sweep) : Whole <= hit.part
    BY <1>2, <1>3, <2>3 DEF Whole
  <2> QED BY <1>1, <2>1, <2>2, <2>4
<1>4. CASE hits # {}
  <2>1. PICK h : h = CHOOSE hit \in hits : TRUE
    OBVIOUS
  <2>2. h \in hits
    BY <1>4, <2>1
  <2>3. \A hit \in hits : hit.part \in Nat /\ hit.id \in Nat /\ hit.velocity \in Int
    BY <1>2, HitFacts
  <2>4. PICK t \in Nat : t = h.part /\ t < Whole
    BY <1>2, <2>2, <2>3
  <2>5. PICK part \in 0 .. Whole : part = Max({0, t - Safety(sweep)}) /\ part <= t
    <3>1. PICK d \in Int : d = t - Safety(sweep) /\ d <= t
      BY SafetyFacts
    <3>2. PICK z \in Int : z = 0
      OBVIOUS
    <3>3. Max({z, d}) \in {z, d} /\ Max({z, d}) >= z
      BY GreaterOfTwo
    <3>4. Max({z, d}) = Max({0, t - Safety(sweep)})
      BY <3>1, <3>2
    <3>5. PICK n : n = Max({z, d}) /\ n \in {z, d} /\ n >= z
      BY <3>3
    <3>6. n \in 0 .. Whole /\ n <= t
      BY <2>4, <3>1, <3>2, <3>5 DEF Whole
    <3> QED BY <3>4, <3>5, <3>6
  <2>6. PICK m : m = Moved(sweep, part)
    OBVIOUS
  <2>7. IsSweep(m) /\ m.planes = sweep.planes /\ m.at.y = sweep.at.y + Part(sweep.remaining, part)
    BY <2>6, MovedFacts
  <2>8. PICK planes : planes = m.planes \cup NewPlanes(m.planes, hits)
    OBVIOUS
  <2>9. planes # {} /\ \A plane \in planes : plane.velocity \in Int
    <3>1. \A plane \in m.planes : plane.velocity \in Int
      BY <2>7 DEF IsSweep
    <3> QED BY <1>4, <2>3, <2>8, <3>1, PlanesFacts
  <2>10. PICK k : k = [m EXCEPT !.planes = @ \cup NewPlanes(@, hits)]
    OBVIOUS
  <2>11. k = [at |-> m.at, remaining |-> m.remaining, time |-> m.time, planes |-> planes]
    BY <2>7, <2>8, <2>10 DEF IsSweep
  <2>12. IsSweep(k) /\ k.planes # {} /\ k.at = m.at
    BY <2>7, <2>9, <2>11 DEF IsSweep
  <2>13. Advanced(sweep, hits) = Clipped(k)
    BY <1>4, <2>1, <2>4, <2>5, <2>6, <2>10 DEF Advanced, Stopped
  <2>14. IsSweep(Clipped(k)) /\ Clipped(k).at = k.at
    BY <2>12, ClippedFacts
  <2>15. \A hit \in AllHits(world, query, sweep) : part <= hit.part
    <3>1. ASSUME NEW hit \in AllHits(world, query, sweep) PROVE part <= hit.part
      <4>1. hit.part \in Nat
        BY HitFacts
      <4>2. h.part <= hit.part
        BY <1>2, <2>2
      <4> QED BY <2>4, <2>5, <4>1, <4>2
    <3> QED BY <3>1
  <2> QED BY <1>1, <2>7, <2>12, <2>13, <2>14, <2>15
<1> QED BY <1>3, <1>4

(* No part of a sweep ends below a ground it began above, unless the       *)
(* ground sinks.                                                           *)
LEMMA AdvancedAbove ==
  ASSUME NEW world, IsWorld(world), NEW query, query.height \in Int,
         NEW sweep, IsSweep(sweep), sweep.remaining # 0,
         NEW id \in DOMAIN world, isGroundSurface(world[id]),
         world[id].velocity >= 0, world[id].high <= sweep.at.y
  PROVE  world[id].high <= Advanced(sweep, findEarliestSweepHits(world, query, sweep)).at.y
<1>1. PICK a : a = Advanced(sweep, findEarliestSweepHits(world, query, sweep))
  OBVIOUS
<1>2. PICK part \in 0 .. Whole :
        /\ a.at.y = sweep.at.y + Part(sweep.remaining, part)
        /\ \A hit \in AllHits(world, query, sweep) : part <= hit.part
  BY <1>1, AdvancedFacts
<1>3. PICK y \in Int, rem \in Int : y = sweep.at.y /\ rem = sweep.remaining
  BY DEF IsSweep, IsPlace
<1>4. PICK c \in Collider : c = world[id]
  BY DEF IsWorld
<1>5. c.high \in Nat /\ c.velocity \in Int /\ c.high <= y
  BY <1>3, <1>4 DEF Collider
<1>6. Part(rem, part) \in Int /\ (rem >= 0 => 0 <= Part(rem, part))
  BY PartOfAWay
<1>7. CASE rem >= 0
  BY <1>1, <1>2, <1>3, <1>4, <1>5, <1>6, <1>7
<1>8. CASE rem < 0
  <2>1. RelativeWay(sweep, c) \in Int /\ RelativeWay(sweep, c) <= rem
    BY <1>3, <1>4, WayFacts
  <2>2. PICK way \in Nat \ {0}, rest \in Nat, gap \in Nat :
          /\ way = - RelativeWay(sweep, c) /\ rest = - rem /\ rem = - rest
          /\ gap = y - c.high /\ rest <= way
    BY <1>5, <1>8, <2>1
  <2>3. RelativeWay(sweep, c) < 0
    BY <1>8, <2>1
  <2>4. PICK hit : hit = Hit(Crossed(sweep, c), 1, id, c.velocity)
    OBVIOUS
  <2>5. hit \in AllHits(world, query, sweep)
    <3>1. hit \in GroundHits(world, sweep)
      BY <1>4, <2>3, <2>4, GroundHitsAre
    <3> QED BY <3>1 DEF AllHits
  <2>6. part <= Crossed(sweep, c)
    <3>1. hit.part = Crossed(sweep, c)
      BY <2>4 DEF Hit
    <3> QED BY <1>2, <2>5, <3>1
  <2>7. Crossed(sweep, c) \in Nat /\ Crossed(sweep, c) <= (gap * Whole) \div way
    BY <1>3, <1>5, <2>2, <2>3, CrossedFacts
  <2>8. PICK q \in Int : q = (gap * Whole) \div way
    <3>1. PICK m \in Int : m = gap * Whole
      BY DEF Whole
    <3>2. m \div way \in Int
      OBVIOUS
    <3> QED BY <3>1, <3>2
  <2>9. part \in Nat /\ part <= Whole /\ part <= (gap * Whole) \div way
    BY <2>6, <2>7, <2>8 DEF Whole
  <2>10. - gap <= Part(- rest, part)
    BY <2>2, <2>9, PartOfAGap
  <2>11. - gap <= Part(rem, part)
    BY <2>2, <2>10
  <2> QED BY <1>1, <1>2, <1>3, <1>4, <1>5, <1>6, <2>2, <2>11
<1> QED BY <1>3, <1>7, <1>8

(* The stages of a sweep.                                                  *)
RunOf(f, world, query, at, way, k) ==
  f = [i \in 0 .. k |-> IF i = 0 THEN Started(world, query, at, way)
                        ELSE Continued(world, query, f[i - 1])]

LEMMA RunExtends ==
  ASSUME NEW world, NEW query, NEW at, NEW way, NEW k \in Nat,
         NEW f, RunOf(f, world, query, at, way, k)
  PROVE  \E g : RunOf(g, world, query, at, way, k + 1)
<1> DEFINE g == [i \in 0 .. k + 1 |-> IF i = k + 1 THEN Continued(world, query, f[k]) ELSE f[i]]
<1>1. f[0] = Started(world, query, at, way)
      /\ \A i \in 1 .. k : f[i] = Continued(world, query, f[i - 1])
  <2>1. f = [i \in 0 .. k |-> IF i = 0 THEN Started(world, query, at, way)
                              ELSE Continued(world, query, f[i - 1])]
    BY DEF RunOf
  <2> HIDE DEF g
  <2> QED BY <2>1
<1>2. ASSUME NEW i \in 0 .. k + 1
      PROVE  g[i] = IF i = 0 THEN Started(world, query, at, way)
                    ELSE Continued(world, query, g[i - 1])
  BY <1>1
<1>3. g = [i \in 0 .. k + 1 |-> IF i = 0 THEN Started(world, query, at, way)
                                ELSE Continued(world, query, g[i - 1])]
  BY <1>2
<1> QED BY <1>3 DEF RunOf

LEMMA RunExists ==
  ASSUME NEW world, NEW query, NEW at, NEW way, NEW k \in Nat
  PROVE  \E f : RunOf(f, world, query, at, way, k)
<1> DEFINE T == {n \in Nat : ~\E f : RunOf(f, world, query, at, way, n)}
<1> SUFFICES ASSUME k \in T PROVE FALSE
  OBVIOUS
<1>1. PICK n \in T : \A m \in T : n <= m
  <2>1. T \subseteq Nat /\ T # {}
    OBVIOUS
  <2> HIDE DEF T
  <2> QED BY <2>1, LeastNumber
<1>2. CASE n = 0
  <2>1. PICK f : f = [i \in 0 .. 0 |-> Started(world, query, at, way)]
    OBVIOUS
  <2>2. f = [i \in 0 .. 0 |-> IF i = 0 THEN Started(world, query, at, way)
                              ELSE Continued(world, query, f[i - 1])]
    BY <2>1
  <2>3. RunOf(f, world, query, at, way, 0)
    BY <2>2 DEF RunOf
  <2> QED BY <1>1, <1>2, <2>3
<1>3. CASE n # 0
  <2>1. n - 1 \in Nat /\ n - 1 \notin T
    BY <1>1, <1>3
  <2>2. PICK f : RunOf(f, world, query, at, way, n - 1)
    BY <2>1
  <2>3. \E g : RunOf(g, world, query, at, way, n - 1 + 1)
    BY <2>1, <2>2, RunExtends
  <2> QED BY <1>1, <2>3
<1> QED BY <1>2, <1>3

(* What a stage keeps; K are the grounds that nobody may fall below.       *)
Kept(world, K, sweep) ==
  IsSweep(sweep) /\ \A id \in K : world[id].high <= sweep.at.y

Firm(world, K) ==
  /\ K \subseteq DOMAIN world
  /\ \A id \in K : isGroundSurface(world[id]) /\ world[id].velocity >= 0
  /\ K # {} => NoRamps(world)

LEMMA StartedKept ==
  ASSUME NEW world, IsWorld(world), NEW query, NEW at, IsPlace(at), NEW way \in Int,
         NEW K, Firm(world, K), \A id \in K : world[id].high <= at.y
  PROVE  Kept(world, K, Started(world, query, at, way))
<1>1. PICK q : q = [query EXCEPT !.enableGroundSnap = FALSE]
  OBVIOUS
<1>2. PICK r : r = resolveCharacter(world, q, at)
  OBVIOUS
<1>3. IsPlace(r)
  BY <1>2, Resolution
<1>4. ASSUME NEW id \in K PROVE world[id].high <= r.y
  <2>1. id \in DOMAIN world /\ isGroundSurface(world[id]) /\ NoRamps(world)
    BY <1>4 DEF Firm
  <2> QED BY <1>2, <1>4, <2>1, StaysAbove
<1>5. PICK s : s = Started(world, query, at, way)
  OBVIOUS
<1>6. s = [at |-> r, remaining |-> way, time |-> Whole, planes |-> {}]
  BY <1>1, <1>2, <1>5 DEF Started
<1>7. IsSweep(s) /\ s.at = r
  BY <1>3, <1>6 DEF IsSweep, Whole
<1> QED BY <1>4, <1>5, <1>7 DEF Kept

LEMMA ContinuedKept ==
  ASSUME NEW world, IsWorld(world), NEW query, query.height \in Int,
         NEW K, Firm(world, K), NEW sweep, Kept(world, K, sweep)
  PROVE  Kept(world, K, Continued(world, query, sweep))
<1>1. CASE sweep.remaining = 0
  BY <1>1 DEF Continued
<1>2. CASE sweep.remaining # 0
  <2>1. PICK a : a = Advanced(sweep, findEarliestSweepHits(world, query, sweep))
    OBVIOUS
  <2>2. IsSweep(sweep)
    BY DEF Kept
  <2>3. IsSweep(a)
    BY <1>2, <2>1, <2>2, AdvancedFacts
  <2>4. ASSUME NEW id \in K PROVE world[id].high <= a.at.y
    <3>1. /\ id \in DOMAIN world /\ isGroundSurface(world[id])
          /\ world[id].velocity >= 0 /\ world[id].high <= sweep.at.y
      BY <2>4 DEF Firm, Kept
    <3> QED BY <1>2, <2>1, <2>2, <3>1, AdvancedAbove
  <2>5. Continued(world, query, sweep) = a
    BY <1>2, <2>1 DEF Continued
  <2> QED BY <2>3, <2>4, <2>5 DEF Kept
<1> QED BY <1>1, <1>2

(* A sweep leads to a place, and not through a ground.                     *)
LEMMA SweepFacts ==
  ASSUME NEW world, IsWorld(world), NEW query, query.height \in Int, NEW at, IsPlace(at),
         NEW way \in Int, NEW K, Firm(world, K), \A id \in K : world[id].high <= at.y
  PROVE  LET s == sweepCharacter(world, query, at, way) IN
         /\ IsPlace(s.at)
         /\ \A id \in K : world[id].high <= s.at.y
<1>1. PICK k \in Nat : k = MaxSweepIterations
  BY WorldConstants
<1>2. PICK f : /\ RunOf(f, world, query, at, way, k)
               /\ sweepCharacter(world, query, at, way).at = resolveCharacter(world, query, f[k].at)
  <2>1. \E f : RunOf(f, world, query, at, way, k)
    BY RunExists
  <2> DEFINE h == CHOOSE f : f = [i \in 0 .. k |-> IF i = 0 THEN Started(world, query, at, way)
                                                   ELSE Continued(world, query, f[i - 1])]
  <2>2. RunOf(h, world, query, at, way, k)
    BY <2>1 DEF RunOf
  <2>3. sweepCharacter(world, query, at, way)
          = [at |-> resolveCharacter(world, query, h[k].at),
             normals |-> {plane.normal : plane \in h[k].planes}]
    BY <1>1 DEF sweepCharacter
  <2> HIDE DEF h
  <2>4. sweepCharacter(world, query, at, way).at = resolveCharacter(world, query, h[k].at)
    BY <2>3
  <2> QED BY <2>2, <2>4
<1> DEFINE T == {n \in 0 .. k : ~Kept(world, K, f[n])}
<1>3. f[0] = Started(world, query, at, way)
      /\ \A i \in 1 .. k : f[i] = Continued(world, query, f[i - 1])
  <2>1. f = [i \in 0 .. k |-> IF i = 0 THEN Started(world, query, at, way)
                              ELSE Continued(world, query, f[i - 1])]
    BY <1>2 DEF RunOf
  <2> HIDE DEF T
  <2> QED BY <2>1
<1>4. T = {}
  <2> SUFFICES ASSUME T # {} PROVE FALSE
    OBVIOUS
  <2>1. PICK n \in T : \A m \in T : n <= m
    <3>1. T \subseteq Nat
      OBVIOUS
    <3> HIDE DEF T
    <3> QED BY <3>1, LeastNumber
  <2>2. n # 0
    BY <1>3, <2>1, StartedKept
  <2>3. n - 1 \in 0 .. k /\ n - 1 \notin T /\ n \in 1 .. k
    BY <2>1, <2>2
  <2>4. Kept(world, K, f[n - 1])
    BY <2>3
  <2>5. Kept(world, K, f[n])
    BY <1>3, <2>3, <2>4, ContinuedKept
  <2> QED BY <2>1, <2>5
<1>5. Kept(world, K, f[k])
  BY <1>4
<1>6. PICK a : a = f[k].at
  OBVIOUS
<1>7. IsPlace(a) /\ \A id \in K : world[id].high <= a.y
  BY <1>5, <1>6 DEF Kept, IsSweep
<1>8. PICK r : r = resolveCharacter(world, query, a)
  OBVIOUS
<1>9. IsPlace(r)
  BY <1>7, <1>8, Resolution
<1>10. ASSUME NEW id \in K PROVE world[id].high <= r.y
  <2>1. id \in DOMAIN world /\ isGroundSurface(world[id]) /\ NoRamps(world)
    BY <1>10 DEF Firm
  <2> QED BY <1>7, <1>8, <1>10, <2>1, StaysAbove
<1> QED BY <1>2, <1>6, <1>8, <1>9, <1>10

-----------------------------------------------------------------------------
(***************************************************************************)
(* The motor                                                               *)
(***************************************************************************)
IsMotorState(world, s) ==
  /\ IsPlace(s.at) /\ s.at.y \in Nat /\ s.at.ground \in Grounds(world) \cup {NoGround}
  /\ s.velocity \in Int /\ s.crouchFraction \in Int
  /\ s.airborneSeconds \in Nat /\ s.groundedSeconds \in Nat /\ s.timeSinceGrounded \in Nat
  /\ s.jumpBufferRemaining \in Nat /\ s.landingRecoveryRemaining \in Nat
  /\ s = [at |-> s.at, velocity |-> s.velocity, crouchFraction |-> s.crouchFraction,
          airborneSeconds |-> s.airborneSeconds, groundedSeconds |-> s.groundedSeconds,
          timeSinceGrounded |-> s.timeSinceGrounded,
          jumpBufferRemaining |-> s.jumpBufferRemaining,
          landingRecoveryRemaining |-> s.landingRecoveryRemaining]

IsMove(world, move) ==
  /\ IsMotorState(world, move.state) /\ move.collision \in Int
  /\ move = [state |-> move.state, jumped |-> move.jumped, collision |-> move.collision]

LEMMA NumberFacts ==
  /\ TickMilliseconds \in Nat /\ TickMilliseconds > 0
  /\ Gravity \in Nat /\ StandingHeight \in Nat /\ CrouchedHeight \in Nat
  /\ CrouchTransition \in Nat /\ JumpSpeed \in Nat /\ TerminalFallSpeed \in Nat
  /\ GroundAdhesion \in Nat /\ CoyoteTime \in Nat /\ JumpBuffer \in Nat
  /\ HardLandingSpeed \in Nat /\ LandingRecovery \in Nat
  BY MotorConstants

LEMMA TimeFacts ==
  ASSUME NEW time \in Nat, NEW limit \in Nat
  PROVE  /\ CountedDown(time) = IF time <= TickMilliseconds THEN 0 ELSE time - TickMilliseconds
         /\ CountedTo(limit, time)
              = IF limit <= time + TickMilliseconds THEN limit ELSE time + TickMilliseconds
         /\ CountedDown(time) \in Nat /\ CountedTo(limit, time) \in Nat
<1>1. PICK a \in Int, z \in Int : a = time - TickMilliseconds /\ z = 0
  BY NumberFacts
<1>2. PICK n \in Int : n = Max({z, a}) /\ n \in {z, a} /\ n >= z /\ n >= a
  BY GreaterOfTwo
<1>3. CountedDown(time) = n
  BY <1>1, <1>2 DEF CountedDown
<1>4. PICK b \in Int, l \in Int : b = time + TickMilliseconds /\ l = limit
  BY NumberFacts
<1>5. PICK m \in Int : m = Min({l, b}) /\ m \in {l, b} /\ m <= l /\ m <= b
  BY SmallerOfTwo
<1>6. CountedTo(limit, time) = m
  BY <1>4, <1>5 DEF CountedTo
<1>7. n = IF time <= TickMilliseconds THEN 0 ELSE time - TickMilliseconds
  BY <1>1, <1>2, NumberFacts
<1>8. m = IF limit <= time + TickMilliseconds THEN limit ELSE time + TickMilliseconds
  BY <1>4, <1>5, NumberFacts
<1> QED BY <1>3, <1>6, <1>7, <1>8, NumberFacts

LEMMA TowardFacts ==
  ASSUME NEW current \in Int, NEW target \in Int, NEW delta \in Int
  PROVE  Toward(current, target, delta) \in Int
<1>1. PICK a \in Int, b \in Int : a = current + delta /\ b = current - delta
  OBVIOUS
<1>2. Min({target, a}) \in {target, a} /\ Max({target, b}) \in {target, b}
  BY SmallerOfTwo, GreaterOfTwo
<1>3. Min({target, a}) \in Int /\ Max({target, b}) \in Int
  BY <1>2
<1> QED BY <1>1, <1>3 DEF Toward

LEMMA HeightFacts ==
  ASSUME NEW fraction \in Int
  PROVE  Height(fraction) \in Int
<1>1. PICK p \in Int : p = (StandingHeight - CrouchedHeight) * fraction
  BY NumberFacts
<1>2. p \div 1000 \in Int
  OBVIOUS
<1> QED BY <1>1, <1>2, NumberFacts DEF Height, Whole

LEMMA PreparedFacts ==
  ASSUME NEW world, NEW s, IsMotorState(world, s), NEW jumpPressed, NEW crouchHeld
  PROVE  LET p == Prepared(s, jumpPressed, crouchHeld) IN
         /\ IsMotorState(world, p)
         /\ p.at = s.at /\ p.velocity = s.velocity
         /\ p.groundedSeconds = s.groundedSeconds /\ p.timeSinceGrounded = s.timeSinceGrounded
         /\ p.jumpBufferRemaining = IF jumpPressed THEN JumpBuffer
                                    ELSE CountedDown(s.jumpBufferRemaining)
<1>1. PICK b \in Nat : b = IF jumpPressed THEN JumpBuffer ELSE CountedDown(s.jumpBufferRemaining)
  <2>1. CountedDown(s.jumpBufferRemaining) \in Nat
    BY TimeFacts DEF IsMotorState
  <2> QED BY <2>1, NumberFacts
<1>2. PICK l \in Nat : l = CountedDown(s.landingRecoveryRemaining)
  BY TimeFacts DEF IsMotorState
<1>3. PICK c \in Int :
        c = Toward(s.crouchFraction, IF crouchHeld THEN Whole ELSE 0, CrouchTransition)
  <2>1. PICK t \in Int : t = IF crouchHeld THEN Whole ELSE 0
    BY DEF Whole
  <2>2. Toward(s.crouchFraction, t, CrouchTransition) \in Int
    <3>1. s.crouchFraction \in Int /\ CrouchTransition \in Int
      BY NumberFacts DEF IsMotorState
    <3> QED BY <3>1, TowardFacts
  <2> QED BY <2>1, <2>2
<1>4. PICK p : p = Prepared(s, jumpPressed, crouchHeld)
  OBVIOUS
<1>5. p = [s EXCEPT !.jumpBufferRemaining = b, !.landingRecoveryRemaining = l,
                    !.crouchFraction = c]
  BY <1>1, <1>2, <1>3, <1>4 DEF Prepared
<1>6. p = [at |-> s.at, velocity |-> s.velocity, crouchFraction |-> c,
           airborneSeconds |-> s.airborneSeconds, groundedSeconds |-> s.groundedSeconds,
           timeSinceGrounded |-> s.timeSinceGrounded, jumpBufferRemaining |-> b,
           landingRecoveryRemaining |-> l]
  BY <1>5 DEF IsMotorState
<1> QED BY <1>1, <1>4, <1>6 DEF IsMotorState

(* A state put somewhere else, with another velocity.                      *)
Put(s, at, v) == [s EXCEPT !.at = at, !.velocity = v]

LEMMA StatePut ==
  ASSUME NEW world, NEW s, IsMotorState(world, s), NEW v \in Int, NEW at, IsPlace(at),
         at.y \in Nat, at.ground \in Grounds(world) \cup {NoGround},
         NEW r, r = Put(s, at, v)
  PROVE  /\ IsMotorState(world, r) /\ r.at = at /\ r.velocity = v
         /\ r.groundedSeconds = s.groundedSeconds /\ r.timeSinceGrounded = s.timeSinceGrounded
         /\ r.airborneSeconds = s.airborneSeconds
         /\ r.jumpBufferRemaining = s.jumpBufferRemaining
<1>1. r = [at |-> at, velocity |-> v, crouchFraction |-> s.crouchFraction,
           airborneSeconds |-> s.airborneSeconds, groundedSeconds |-> s.groundedSeconds,
           timeSinceGrounded |-> s.timeSinceGrounded,
           jumpBufferRemaining |-> s.jumpBufferRemaining,
           landingRecoveryRemaining |-> s.landingRecoveryRemaining]
  BY DEF IsMotorState, Put
<1> QED BY <1>1 DEF IsMotorState

LEMMA GroundVelocity ==
  ASSUME NEW world, IsWorld(world), NEW s, IsMotorState(world, s)
  PROVE  VelocityOfGround(world, s) \in Int
<1>1. CASE Grounded(s)
  <2>1. s.at.ground \in DOMAIN world \cup {FloorMain}
    BY <1>1 DEF Grounded, IsMotorState, Grounds
  <2>2. Surface(world, s.at.ground) \in Collider
    BY <2>1, SurfaceFacts
  <2> QED BY <1>1, <2>2 DEF VelocityOfGround, Collider
<1>2. CASE ~Grounded(s)
  BY <1>2 DEF VelocityOfGround
<1> QED BY <1>1, <1>2

(* There is ground within reach of a step's first look for it.             *)
FindsGround(world, was, y) ==
  \E id \in Grounds(world) : canSnapToSurface(InitialQuery(was), y, Surface(world, id))

(* What a step prepares changes the height it looks with, not where.       *)
LEMMA PreparedFinds ==
  ASSUME NEW world, NEW s, NEW p, p.at = s.at, p.velocity = s.velocity, NEW y
  PROVE  FindsGround(world, p, y) <=> FindsGround(world, s, y)
<1>1. PICK q, r : q = InitialQuery(p) /\ r = InitialQuery(s)
  OBVIOUS
<1>2. q.enableGroundSnap = r.enableGroundSnap /\ q.enableStepUp = r.enableStepUp
  BY <1>1 DEF InitialQuery, Query, Grounded
<1>3. \A c : MaxStepUp(q, c) = MaxStepUp(r, c) /\ MaxSnapDown(q, c) = MaxSnapDown(r, c)
  BY <1>2 DEF MaxStepUp, MaxSnapDown
<1>4. \A c : canSnapToSurface(q, y, c) <=> canSnapToSurface(r, y, c)
  BY <1>3 DEF canSnapToSurface
<1> QED BY <1>1, <1>4 DEF FindsGround

LEMMA ResolvedFacts ==
  ASSUME NEW world, IsWorld(world), NEW s, IsMotorState(world, s),
         NEW K, Firm(world, K), \A id \in K : world[id].high <= s.at.y
  PROVE  LET m == Resolved(world, s) IN
         /\ IsMove(world, m) /\ m.jumped = FALSE
         /\ m.state.groundedSeconds = s.groundedSeconds
         /\ m.state.timeSinceGrounded = s.timeSinceGrounded
         /\ m.state.jumpBufferRemaining = s.jumpBufferRemaining
         /\ \A id \in K : world[id].high <= m.state.at.y
         /\ Grounded(m.state) <=> FindsGround(world, s, s.at.y)
<1>1. PICK at : at = resolveCharacter(world, InitialQuery(s), s.at)
  OBVIOUS
<1>2. IsPlace(s.at) /\ s.at.y \in Nat /\ s.velocity \in Int
  BY DEF IsMotorState
<1>3. PICK y \in Int : y = Max({s.at.y, 0}) /\ y = s.at.y
  <2>1. PICK a \in Int, z \in Int : a = s.at.y /\ z = 0 /\ a >= z
    BY <1>2
  <2>2. Max({a, z}) \in {a, z} /\ Max({a, z}) >= a
    BY GreaterOfTwo
  <2> QED BY <2>1, <2>2
<1>4. /\ IsPlace(at) /\ at.y \in Nat /\ at.ground \in Grounds(world) \cup {NoGround}
      /\ at.ground = NoGround =>
           \A id \in Grounds(world) : ~canSnapToSurface(InitialQuery(s), y, Surface(world, id))
      /\ at.ground # NoGround =>
           \E id \in Grounds(world) : canSnapToSurface(InitialQuery(s), y, Surface(world, id))
  BY <1>1, <1>2, <1>3, Resolution
<1>5. ASSUME NEW id \in K PROVE world[id].high <= at.y
  <2>1. id \in DOMAIN world /\ isGroundSurface(world[id]) /\ NoRamps(world)
    BY <1>5 DEF Firm
  <2> QED BY <1>1, <1>2, <1>5, <2>1, StaysAbove
<1>6. PICK v \in Int : v = IF at.ground = NoGround THEN s.velocity ELSE 0
  BY <1>2
<1>7. PICK r : r = Put(s, at, v)
  OBVIOUS
<1>8. /\ IsMotorState(world, r) /\ r.at = at /\ r.velocity = v
      /\ r.groundedSeconds = s.groundedSeconds /\ r.timeSinceGrounded = s.timeSinceGrounded
      /\ r.jumpBufferRemaining = s.jumpBufferRemaining
  <2>1. v \in Int
    BY <1>6
  <2> QED BY <1>4, <1>7, <2>1, StatePut
<1>9. PICK m : m = Resolved(world, s)
  OBVIOUS
<1>10. m = [state |-> r, jumped |-> FALSE, collision |-> 0]
  <2>1. r = [s EXCEPT !.at = at, !.velocity = IF at.ground = NoGround THEN @ ELSE 0]
    BY <1>6, <1>7 DEF Put
  <2> QED BY <1>1, <1>9, <2>1 DEF Resolved
<1>11. IsMove(world, m) /\ m.state = r /\ m.jumped = FALSE
  BY <1>8, <1>10 DEF IsMove
<1>12. Grounded(r) <=> FindsGround(world, s, s.at.y)
  BY <1>3, <1>4, <1>8 DEF Grounded, FindsGround
<1> QED BY <1>5, <1>8, <1>9, <1>11, <1>12

LEMMA JumpFacts ==
  ASSUME NEW world, IsWorld(world), NEW was, NEW move, IsMove(world, move)
  PROVE  LET m == Jump(world, was, move) IN
         /\ IsMove(world, m) /\ m.state.at.y = move.state.at.y
         /\ MayJump(was, move.state) => m.jumped = TRUE /\ m.state.jumpBufferRemaining = 0
         /\ ~MayJump(was, move.state) => m = move
<1>1. CASE ~MayJump(was, move.state)
  BY <1>1 DEF Jump
<1>2. CASE MayJump(was, move.state)
  <2>1. PICK s : s = move.state /\ IsMotorState(world, s)
    BY DEF IsMove
  <2>2. PICK v \in Int : v = JumpSpeed + Max({0, VelocityOfGround(world, s)})
    <3>1. PICK z \in Int, u \in Int : z = 0 /\ u = VelocityOfGround(world, s)
      BY <2>1, GroundVelocity
    <3>2. Max({z, u}) \in Int
      BY GreaterOfTwo
    <3> QED BY <3>1, <3>2, NumberFacts
  <2>3. PICK at : at = [s.at EXCEPT !.ground = NoGround]
    OBVIOUS
  <2>4. IsPlace(at) /\ at.y = s.at.y /\ at.ground = NoGround /\ at.y \in Nat
    <3>1. at = [y |-> s.at.y, beside |-> s.at.beside, ground |-> NoGround]
      BY <2>1, <2>3 DEF IsMotorState, IsPlace
    <3> QED BY <2>1, <3>1 DEF IsMotorState, IsPlace
  <2>5. PICK c \in Nat : c = CoyoteTime + TickMilliseconds
    BY NumberFacts
  <2>6. PICK r : r = TakenOff(world, s)
    OBVIOUS
  <2>7. r = [at |-> at, velocity |-> v, crouchFraction |-> s.crouchFraction,
             airborneSeconds |-> s.airborneSeconds, groundedSeconds |-> s.groundedSeconds,
             timeSinceGrounded |-> c, jumpBufferRemaining |-> 0,
             landingRecoveryRemaining |-> s.landingRecoveryRemaining]
    <3>1. r = [s EXCEPT !.velocity = v, !.at = at, !.jumpBufferRemaining = 0,
                        !.timeSinceGrounded = c]
      BY <2>2, <2>3, <2>5, <2>6 DEF TakenOff
    <3> QED BY <2>1, <3>1 DEF IsMotorState
  <2>8. IsMotorState(world, r) /\ r.at = at /\ r.groundedSeconds = s.groundedSeconds
        /\ r.jumpBufferRemaining = 0
    BY <2>1, <2>4, <2>7 DEF IsMotorState
  <2>9. PICK m : m = Jump(world, was, move)
    OBVIOUS
  <2>10. m = [state |-> r, jumped |-> TRUE, collision |-> move.collision]
    <3>1. m = [move EXCEPT !.jumped = TRUE, !.state = r]
      BY <1>2, <2>1, <2>6, <2>9 DEF Jump
    <3> QED BY <3>1 DEF IsMove
  <2>11. IsMove(world, m) /\ m.state = r /\ m.jumped = TRUE
    BY <2>8, <2>10 DEF IsMove
  <2> QED BY <1>2, <2>1, <2>4, <2>8, <2>9, <2>11
<1> QED BY <1>1, <1>2

LEMMA FallFacts ==
  ASSUME NEW world, NEW move, IsMove(world, move)
  PROVE  LET m == Fall(move) IN
         /\ IsMove(world, m) /\ m.state.at = move.state.at /\ m.jumped = move.jumped
         /\ m.state.groundedSeconds = move.state.groundedSeconds
         /\ m.state.timeSinceGrounded = move.state.timeSinceGrounded
         /\ m.state.jumpBufferRemaining = move.state.jumpBufferRemaining
<1>1. CASE Grounded(move.state)
  BY <1>1 DEF Fall
<1>2. CASE ~Grounded(move.state)
  <2>1. PICK s : s = move.state /\ IsMotorState(world, s)
    BY DEF IsMove
  <2>2. PICK v \in Int : v = Max({- TerminalFallSpeed, s.velocity - Gravity})
    <3>1. PICK a \in Int, b \in Int : a = - TerminalFallSpeed /\ b = s.velocity - Gravity
      BY <2>1, NumberFacts DEF IsMotorState
    <3>2. Max({a, b}) \in Int
      BY GreaterOfTwo
    <3> QED BY <3>1, <3>2
  <2>3. PICK r : r = [s EXCEPT !.velocity = v]
    OBVIOUS
  <2>4. r = [s EXCEPT !.at = s.at, !.velocity = v]
    BY <2>1, <2>3 DEF IsMotorState
  <2>5. /\ IsMotorState(world, r) /\ r.at = s.at
        /\ r.groundedSeconds = s.groundedSeconds /\ r.timeSinceGrounded = s.timeSinceGrounded
        /\ r.jumpBufferRemaining = s.jumpBufferRemaining
    <3>1. IsPlace(s.at) /\ s.at.y \in Nat /\ s.at.ground \in Grounds(world) \cup {NoGround}
      BY <2>1 DEF IsMotorState
    <3>2. PICK at : at = s.at
      OBVIOUS
    <3>3. r = Put(s, at, v)
      BY <2>4, <3>2 DEF Put
    <3> QED BY <2>1, <3>1, <3>2, <3>3, StatePut
  <2>6. PICK m : m = Fall(move)
    OBVIOUS
  <2>7. m = [state |-> r, jumped |-> move.jumped, collision |-> v]
    <3>1. m = [move EXCEPT !.state = r, !.collision = v]
      BY <1>2, <2>1, <2>2, <2>3, <2>6 DEF Fall
    <3> QED BY <3>1 DEF IsMove
  <2>8. IsMove(world, m) /\ m.state = r /\ m.jumped = move.jumped
    BY <2>5, <2>7 DEF IsMove
  <2> QED BY <2>1, <2>5, <2>6, <2>8
<1> QED BY <1>1, <1>2

(* The last look for ground, and what was run into, put a move somewhere.  *)
LEMMA FinishedFacts ==
  ASSUME NEW world, IsWorld(world), NEW move, IsMove(world, move), NEW swept,
         IsPlace(swept.at), NEW K, Firm(world, K),
         \A id \in K : world[id].high <= swept.at.y
  PROVE  LET m == Finished(world, move, swept) IN
         /\ IsMove(world, m) /\ m.jumped = move.jumped
         /\ m.state.groundedSeconds = move.state.groundedSeconds
         /\ m.state.timeSinceGrounded = move.state.timeSinceGrounded
         /\ m.state.jumpBufferRemaining = move.state.jumpBufferRemaining
         /\ \A id \in K : world[id].high <= m.state.at.y
<1>1. PICK s : s = move.state /\ IsMotorState(world, s)
  BY DEF IsMove
<1>2. PICK u \in Int : u = Clipping(s.velocity, swept.normals)
  BY <1>1 DEF Clipping, IsMotorState
<1>3. PICK at : at = resolveCharacter(world, FinalQuery(move, u), swept.at)
  OBVIOUS
<1>4. IsPlace(at) /\ at.y \in Nat /\ at.ground \in Grounds(world) \cup {NoGround}
  BY <1>3, Resolution
<1>5. ASSUME NEW id \in K PROVE world[id].high <= at.y
  <2>1. id \in DOMAIN world /\ isGroundSurface(world[id]) /\ NoRamps(world)
    BY <1>5 DEF Firm
  <2> QED BY <1>3, <1>5, <2>1, StaysAbove
<1>6. PICK v \in Int : v = IF at.ground = NoGround \/ move.jumped THEN u ELSE 0
  OBVIOUS
<1>7. PICK r : r = Put(s, at, v)
  OBVIOUS
<1>8. /\ IsMotorState(world, r) /\ r.at = at
      /\ r.groundedSeconds = s.groundedSeconds /\ r.timeSinceGrounded = s.timeSinceGrounded
      /\ r.jumpBufferRemaining = s.jumpBufferRemaining
  <2>1. IsMotorState(world, s) /\ v \in Int
    BY <1>1, <1>6
  <2> QED BY <1>4, <1>7, <2>1, StatePut
<1>9. PICK m : m = Finished(world, move, swept)
  OBVIOUS
<1>10. m = [state |-> r, jumped |-> move.jumped, collision |-> move.collision]
  <2>1. m = [move EXCEPT !.state = r]
    BY <1>1, <1>2, <1>3, <1>6, <1>7, <1>9 DEF Finished, Put
  <2> QED BY <2>1 DEF IsMove
<1>11. IsMove(world, m) /\ m.state = r /\ m.jumped = move.jumped
  BY <1>8, <1>10 DEF IsMove
<1> QED BY <1>1, <1>5, <1>8, <1>9, <1>11

LEMMA SweptFacts ==
  ASSUME NEW world, IsWorld(world), NEW move, IsMove(world, move),
         NEW K, Firm(world, K), \A id \in K : world[id].high <= move.state.at.y
  PROVE  LET m == Swept(world, move) IN
         /\ IsMove(world, m) /\ m.jumped = move.jumped
         /\ m.state.groundedSeconds = move.state.groundedSeconds
         /\ m.state.timeSinceGrounded = move.state.timeSinceGrounded
         /\ m.state.jumpBufferRemaining = move.state.jumpBufferRemaining
         /\ \A id \in K : world[id].high <= m.state.at.y
<1>1. PICK s : s = move.state /\ IsMotorState(world, s)
  BY DEF IsMove
<1>2. IsPlace(s.at) /\ s.velocity \in Int /\ s.crouchFraction \in Int
  BY <1>1 DEF IsMotorState
<1>3. PICK way \in Int : way = Displacement(world, s)
  <2>1. VelocityOfGround(world, s) \in Int
    BY <1>1, GroundVelocity
  <2> QED BY <1>2, <2>1, NumberFacts DEF Displacement
<1>4. PICK query : query = SweepQuery(world, s)
  OBVIOUS
<1>5. query.height \in Int
  <2>1. query.height = Height(s.crouchFraction)
    BY <1>4 DEF SweepQuery, Query
  <2> QED BY <1>2, <2>1, HeightFacts
<1>6. PICK swept :
        swept = IF way = 0 THEN [at |-> s.at, normals |-> {}]
                ELSE sweepCharacter(world, query, s.at, way)
  OBVIOUS
<1>7. IsPlace(swept.at) /\ \A id \in K : world[id].high <= swept.at.y
  <2>1. CASE way = 0
    <3>1. swept.at = s.at
      BY <1>6, <2>1
    <3> QED BY <1>1, <1>2, <3>1
  <2>2. CASE way # 0
    <3>1. PICK at : at = s.at /\ IsPlace(at) /\ \A id \in K : world[id].high <= at.y
      BY <1>1, <1>2
    <3>2. PICK e : e = sweepCharacter(world, query, at, way)
      OBVIOUS
    <3>3. IsPlace(e.at) /\ \A id \in K : world[id].high <= e.at.y
      BY <1>5, <3>1, <3>2, SweepFacts
    <3> QED BY <1>6, <2>2, <3>1, <3>2, <3>3
  <2> QED BY <2>1, <2>2
<1>8. Swept(world, move) = Finished(world, move, swept)
  BY <1>1, <1>3, <1>4, <1>6 DEF Swept
<1> QED BY <1>7, <1>8, FinishedFacts

(* When a step jumps, what is left of the press, and where a step leads.   *)
BufferOf(was, jumpPressed) ==
  IF jumpPressed THEN JumpBuffer ELSE CountedDown(was.jumpBufferRemaining)

LEMMA SteppedFacts ==
  ASSUME NEW world, IsWorld(world), NEW was, IsMotorState(world, was), NEW jumpPressed,
         NEW crouchHeld, NEW K, Firm(world, K), \A id \in K : world[id].high <= was.at.y
  PROVE  LET m == Stepped(world, was, jumpPressed, crouchHeld) IN
         /\ IsMove(world, m) /\ m.jumped \in BOOLEAN
         /\ m.jumped <=>
              /\ BufferOf(was, jumpPressed) > 0
              /\ \/ FindsGround(world, was, was.at.y)
                 \/ /\ Grounded(was) \/ was.groundedSeconds > 0
                    /\ was.timeSinceGrounded <= CoyoteTime
         /\ m.state.jumpBufferRemaining = IF m.jumped THEN 0 ELSE BufferOf(was, jumpPressed)
         /\ \A id \in K : world[id].high <= m.state.at.y
<1>1. PICK p : p = Prepared(was, jumpPressed, crouchHeld)
  OBVIOUS
<1>2. /\ IsMotorState(world, p) /\ p.at = was.at
      /\ p.groundedSeconds = was.groundedSeconds /\ p.timeSinceGrounded = was.timeSinceGrounded
      /\ p.jumpBufferRemaining = BufferOf(was, jumpPressed)
  BY <1>1, PreparedFacts DEF BufferOf
<1>3. PICK r : r = Resolved(world, p)
  OBVIOUS
<1>4. /\ IsMove(world, r) /\ r.jumped = FALSE
      /\ r.state.groundedSeconds = p.groundedSeconds
      /\ r.state.timeSinceGrounded = p.timeSinceGrounded
      /\ r.state.jumpBufferRemaining = p.jumpBufferRemaining
      /\ \A id \in K : world[id].high <= r.state.at.y
      /\ Grounded(r.state) <=> FindsGround(world, was, was.at.y)
  <2>1. \A id \in K : world[id].high <= p.at.y
    BY <1>2
  <2>2. /\ IsMove(world, r) /\ r.jumped = FALSE
        /\ r.state.groundedSeconds = p.groundedSeconds
        /\ r.state.timeSinceGrounded = p.timeSinceGrounded
        /\ r.state.jumpBufferRemaining = p.jumpBufferRemaining
        /\ \A id \in K : world[id].high <= r.state.at.y
        /\ Grounded(r.state) <=> FindsGround(world, p, p.at.y)
    <3>1. LET m == Resolved(world, p) IN
         /\ IsMove(world, m) /\ m.jumped = FALSE
         /\ m.state.groundedSeconds = p.groundedSeconds
         /\ m.state.timeSinceGrounded = p.timeSinceGrounded
         /\ m.state.jumpBufferRemaining = p.jumpBufferRemaining
         /\ \A id \in K : world[id].high <= m.state.at.y
         /\ Grounded(m.state) <=> FindsGround(world, p, p.at.y)
      BY <1>2, <2>1, ResolvedFacts
    <3> QED BY <1>3, <3>1
  <2>3. FindsGround(world, p, p.at.y) <=> FindsGround(world, was, p.at.y)
    <3>1. p.at = was.at /\ p.velocity = was.velocity
      BY <1>1, PreparedFacts
    <3> QED BY <3>1, PreparedFinds
  <2> QED BY <1>2, <2>2, <2>3
<1>5. PICK j : j = Jump(world, was, r)
  OBVIOUS
<1>6. /\ IsMove(world, j) /\ j.state.at.y = r.state.at.y
      /\ j.jumped \in BOOLEAN /\ (j.jumped <=> MayJump(was, r.state))
      /\ j.state.jumpBufferRemaining = IF j.jumped THEN 0 ELSE r.state.jumpBufferRemaining
  <2>1. IsMove(world, r)
    BY <1>4
  <2>2. LET m == Jump(world, was, r) IN
        /\ IsMove(world, m) /\ m.state.at.y = r.state.at.y
        /\ MayJump(was, r.state) => m.jumped = TRUE /\ m.state.jumpBufferRemaining = 0
        /\ ~MayJump(was, r.state) => m = r
    BY <2>1, JumpFacts, Zenon
  <2>3. /\ IsMove(world, j) /\ j.state.at.y = r.state.at.y
        /\ MayJump(was, r.state) => j.jumped = TRUE /\ j.state.jumpBufferRemaining = 0
        /\ ~MayJump(was, r.state) => j = r
    BY <1>5, <2>2
  <2> QED BY <1>4, <2>1, <2>3
<1>7. PICK f : f = Fall(j)
  OBVIOUS
<1>8. /\ IsMove(world, f) /\ f.state.at = j.state.at /\ f.jumped = j.jumped
      /\ f.state.jumpBufferRemaining = j.state.jumpBufferRemaining
  BY <1>6, <1>7, FallFacts
<1>9. PICK m : m = Swept(world, f)
  OBVIOUS
<1>10. /\ IsMove(world, m) /\ m.jumped = f.jumped
       /\ m.state.jumpBufferRemaining = f.state.jumpBufferRemaining
       /\ \A id \in K : world[id].high <= m.state.at.y
  <2>1. \A id \in K : world[id].high <= f.state.at.y
    BY <1>4, <1>6, <1>8
  <2> QED BY <1>8, <1>9, <2>1, SweptFacts
<1>11. m = Stepped(world, was, jumpPressed, crouchHeld)
  BY <1>1, <1>3, <1>5, <1>7, <1>9 DEF Stepped
<1>12. MayJump(was, r.state) <=>
         /\ BufferOf(was, jumpPressed) > 0
         /\ \/ FindsGround(world, was, was.at.y)
            \/ /\ Grounded(was) \/ was.groundedSeconds > 0
               /\ was.timeSinceGrounded <= CoyoteTime
  BY <1>2, <1>4 DEF MayJump
<1> QED BY <1>2, <1>4, <1>6, <1>8, <1>10, <1>11, <1>12

LEMMA AfterStepFacts ==
  ASSUME NEW world, NEW was, IsMotorState(world, was), NEW move, IsMove(world, move),
         move.jumped \in BOOLEAN
  PROVE  LET s == AfterStep(world, was, move) IN
         /\ IsMotorState(world, s) /\ s.at = move.state.at
         /\ s.jumpBufferRemaining = move.state.jumpBufferRemaining
         /\ s.groundedSeconds > 0 => Grounded(s)
         /\ Grounded(s) /\ ~move.jumped => s.timeSinceGrounded = 0
<1>1. PICK s : s = move.state /\ IsMotorState(world, s)
  BY DEF IsMove
<1>2. PICK l \in Nat : l = IF HardLanded(world, was, move) THEN LandingRecovery
                           ELSE s.landingRecoveryRemaining
  BY <1>1, NumberFacts DEF IsMotorState
<1>3. PICK r : r = IF HardLanded(world, was, move)
                   THEN [s EXCEPT !.landingRecoveryRemaining = LandingRecovery] ELSE s
  OBVIOUS
<1>4. r = [at |-> s.at, velocity |-> s.velocity, crouchFraction |-> s.crouchFraction,
           airborneSeconds |-> s.airborneSeconds, groundedSeconds |-> s.groundedSeconds,
           timeSinceGrounded |-> s.timeSinceGrounded,
           jumpBufferRemaining |-> s.jumpBufferRemaining, landingRecoveryRemaining |-> l]
  <2>1. r = [s EXCEPT !.landingRecoveryRemaining = l]
    BY <1>1, <1>2, <1>3 DEF IsMotorState
  <2> QED BY <1>1, <2>1 DEF IsMotorState
<1>5. IsMotorState(world, r) /\ r.at = s.at /\ r.jumpBufferRemaining = s.jumpBufferRemaining
      /\ (Grounded(r) <=> Grounded(s))
  BY <1>1, <1>2, <1>4 DEF IsMotorState, Grounded
<1>6. PICK a : a = AfterStep(world, was, move)
  OBVIOUS
<1>7. a = Counted(was, move, r)
  BY <1>1, <1>3, <1>6 DEF AfterStep
<1>8. CASE Grounded(r) /\ ~move.jumped
  <2>1. a = [r EXCEPT !.groundedSeconds = TickMilliseconds, !.airborneSeconds = 0,
                      !.timeSinceGrounded = 0]
    BY <1>7, <1>8 DEF Counted
  <2>2. a = [at |-> r.at, velocity |-> r.velocity, crouchFraction |-> r.crouchFraction,
             airborneSeconds |-> 0, groundedSeconds |-> TickMilliseconds,
             timeSinceGrounded |-> 0, jumpBufferRemaining |-> r.jumpBufferRemaining,
             landingRecoveryRemaining |-> r.landingRecoveryRemaining]
    BY <1>5, <2>1 DEF IsMotorState
  <2>3. IsMotorState(world, a) /\ a.at = r.at /\ a.timeSinceGrounded = 0
        /\ a.jumpBufferRemaining = r.jumpBufferRemaining
    BY <1>5, <2>2, NumberFacts DEF IsMotorState
  <2> QED BY <1>1, <1>5, <1>6, <1>8, <2>3 DEF Grounded
<1>9. CASE ~(Grounded(r) /\ ~move.jumped)
  <2>1. PICK b \in Nat : b = IF Grounded(was) THEN TickMilliseconds
                             ELSE CountedTo(2 * TickMilliseconds, r.airborneSeconds)
    <3>1. 2 * TickMilliseconds \in Nat /\ r.airborneSeconds \in Nat
      BY <1>5, NumberFacts DEF IsMotorState
    <3>2. CountedTo(2 * TickMilliseconds, r.airborneSeconds) \in Nat
      BY <3>1, TimeFacts
    <3> QED BY <3>2, NumberFacts
  <2>2. PICK c \in Nat : c = IF Grounded(was) THEN TickMilliseconds
                             ELSE CountedTo(CoyoteTime + TickMilliseconds, r.timeSinceGrounded)
    <3>1. CoyoteTime + TickMilliseconds \in Nat /\ r.timeSinceGrounded \in Nat
      BY <1>5, NumberFacts DEF IsMotorState
    <3>2. CountedTo(CoyoteTime + TickMilliseconds, r.timeSinceGrounded) \in Nat
      BY <3>1, TimeFacts
    <3> QED BY <3>2, NumberFacts
  <2>3. a = [r EXCEPT !.groundedSeconds = 0, !.airborneSeconds = b, !.timeSinceGrounded = c]
    BY <1>7, <1>9, <2>1, <2>2 DEF Counted
  <2>4. a = [at |-> r.at, velocity |-> r.velocity, crouchFraction |-> r.crouchFraction,
             airborneSeconds |-> b, groundedSeconds |-> 0,
             timeSinceGrounded |-> c, jumpBufferRemaining |-> r.jumpBufferRemaining,
             landingRecoveryRemaining |-> r.landingRecoveryRemaining]
    BY <1>5, <2>3 DEF IsMotorState
  <2>5. IsMotorState(world, a) /\ a.at = r.at /\ a.groundedSeconds = 0
        /\ a.jumpBufferRemaining = r.jumpBufferRemaining
    BY <1>5, <2>4 DEF IsMotorState
  <2> QED BY <1>1, <1>5, <1>6, <1>9, <2>5 DEF Grounded
<1> QED BY <1>8, <1>9

-----------------------------------------------------------------------------
(***************************************************************************)
(* The invariant                                                           *)
(***************************************************************************)
(* The colliders of a game stay what they are and in their ranges.         *)
CollidersInv ==
  /\ game \in Games
  /\ DOMAIN staticColliders = DOMAIN game.colliders
  /\ IsWorld(staticColliders)
  /\ \A id \in DOMAIN staticColliders :
        /\ staticColliders[id].kind = game.colliders[id].kind
        /\ staticColliders[id].high + staticColliders[id].velocity \in game.range[id]

(* What is left of a press is its time less its age, until a jump uses it. *)
PressInv ==
  /\ press \in Nat /\ step.jumped \in BOOLEAN
  /\ state.jumpBufferRemaining =
       IF ~step.jumped /\ press < JumpBuffer THEN JumpBuffer - press ELSE 0

(* The clocks of standing and falling agree with the ground.               *)
ClockInv ==
  /\ state.groundedSeconds > 0 => Grounded(state)
  /\ Grounded(state) /\ ~step.jumped => state.timeSinceGrounded = 0

MotorInv ==
  /\ CollidersInv
  /\ IsMotorState(staticColliders, state)
  /\ PressInv
  /\ ClockInv

LEMMA GameFacts ==
  ASSUME NEW g \in Games
  PROVE  /\ IsWorld(g.colliders)
         /\ g.heights \subseteq Nat
         /\ \A id \in DOMAIN g.colliders :
              /\ g.range[id] \subseteq Nat
              /\ g.colliders[id].high + g.colliders[id].velocity \in g.range[id]
         /\ \A velocities \in g.velocities :
              /\ DOMAIN velocities = DOMAIN g.colliders
              /\ \A id \in DOMAIN velocities : velocities[id] \in Int
  BY GamesAssumption DEF IsWorld

LEMMA InitFacts ==
  Init => MotorInv
<1> SUFFICES ASSUME Init PROVE MotorInv
  OBVIOUS
<1>1. PICK g \in Games : g = game
  BY DEF Init
<1>2. /\ IsWorld(g.colliders) /\ g.heights \subseteq Nat
      /\ \A id \in DOMAIN g.colliders :
           g.colliders[id].high + g.colliders[id].velocity \in g.range[id]
  BY GameFacts
<1>3. CollidersInv
  BY <1>1, <1>2 DEF Init, CollidersInv
<1>4. PICK y \in Nat : state = Fresh(y, FALSE)
  BY <1>1, <1>2 DEF Init
<1>5. IsMotorState(staticColliders, state) /\ state.jumpBufferRemaining = 0
      /\ state.groundedSeconds = 0 /\ ~Grounded(state)
  BY <1>4 DEF Fresh, IsMotorState, IsPlace, Grounded
<1>6. PressInv
  <2>1. press = JumpBuffer + TickMilliseconds /\ step.jumped = FALSE
    BY DEF Init, Forgotten, NothingHappened
  <2>2. press \in Nat /\ ~(press < JumpBuffer)
    BY <2>1, NumberFacts
  <2>3. step.jumped \in BOOLEAN
    BY <2>1
  <2> QED BY <1>5, <2>2, <2>3 DEF PressInv
<1>7. ClockInv
  BY <1>5 DEF ClockInv
<1> QED BY <1>3, <1>5, <1>6, <1>7 DEF MotorInv

(* What is left of a press after the timers, and its age.                  *)
LEMMA BufferFacts ==
  ASSUME PressInv, NEW jumpPressed \in BOOLEAN, NEW age,
         age = IF jumpPressed THEN 0
               ELSE IF step.jumped THEN Forgotten ELSE CountedTo(Forgotten, press)
  PROVE  /\ age \in Nat
         /\ BufferOf(state, jumpPressed) = IF age < JumpBuffer THEN JumpBuffer - age ELSE 0
<1>1. Forgotten \in Nat /\ Forgotten = JumpBuffer + TickMilliseconds
  BY NumberFacts DEF Forgotten
<1>2. PICK b \in Nat : b = state.jumpBufferRemaining
                       /\ b = IF ~step.jumped /\ press < JumpBuffer THEN JumpBuffer - press ELSE 0
  BY NumberFacts DEF PressInv
<1>3. press \in Nat
  BY DEF PressInv
<1>4. /\ CountedDown(b) = IF b <= TickMilliseconds THEN 0 ELSE b - TickMilliseconds
      /\ CountedTo(Forgotten, press)
           = IF Forgotten <= press + TickMilliseconds THEN Forgotten ELSE press + TickMilliseconds
  BY <1>1, <1>3, TimeFacts
<1>5. CASE jumpPressed
  BY <1>5, NumberFacts DEF BufferOf
<1>6. CASE ~jumpPressed /\ step.jumped
  <2>1. age = Forgotten /\ BufferOf(state, jumpPressed) = CountedDown(b) /\ b = 0
    BY <1>2, <1>6 DEF BufferOf
  <2> QED BY <1>1, <1>4, <2>1, NumberFacts
<1>7. CASE ~jumpPressed /\ ~step.jumped
  <2>1. age = CountedTo(Forgotten, press) /\ BufferOf(state, jumpPressed) = CountedDown(b)
        /\ b = IF press < JumpBuffer THEN JumpBuffer - press ELSE 0
    BY <1>2, <1>7 DEF BufferOf
  <2> QED BY <1>1, <1>3, <1>4, <2>1, NumberFacts
<1> QED BY <1>5, <1>6, <1>7

(* A step of the motor, in terms of the lemmas above.                      *)
LEMMA StepFacts ==
  ASSUME MotorInv, NEW jumpPressed \in BOOLEAN, NEW crouchHeld,
         StepCharacterMotor(jumpPressed, crouchHeld),
         NEW K, Firm(staticColliders, K),
         \A id \in K : staticColliders[id].high <= state.at.y
  PROVE  /\ MotorInv'
         /\ step'.jumped <=>
              /\ press' < JumpBuffer
              /\ \/ FindsGround(staticColliders, state, state.at.y)
                 \/ Grounded(state) /\ state.timeSinceGrounded <= CoyoteTime
         /\ \A id \in K : staticColliders[id].high <= state'.at.y
<1>1. PICK world : world = staticColliders /\ IsWorld(world)
  BY DEF MotorInv, CollidersInv
<1>2. IsMotorState(world, state) /\ PressInv /\ ClockInv /\ CollidersInv
  BY <1>1 DEF MotorInv
<1>3. PICK m : m = Stepped(world, state, jumpPressed, crouchHeld)
  OBVIOUS
<1>4. /\ state' = AfterStep(world, state, m) /\ step' = Reported(world, state, m)
      /\ press' = IF jumpPressed THEN 0
                  ELSE IF step.jumped THEN Forgotten ELSE CountedTo(Forgotten, press)
      /\ game' = game /\ staticColliders' = staticColliders
  BY <1>1, <1>3 DEF StepCharacterMotor
<1>5. Firm(world, K) /\ \A id \in K : world[id].high <= state.at.y
  BY <1>1
<1>6. /\ IsMove(world, m) /\ m.jumped \in BOOLEAN
      /\ m.jumped <=>
           /\ BufferOf(state, jumpPressed) > 0
           /\ \/ FindsGround(world, state, state.at.y)
              \/ /\ Grounded(state) \/ state.groundedSeconds > 0
                 /\ state.timeSinceGrounded <= CoyoteTime
      /\ m.state.jumpBufferRemaining = IF m.jumped THEN 0 ELSE BufferOf(state, jumpPressed)
      /\ \A id \in K : world[id].high <= m.state.at.y
  <2>1. LET q == Stepped(world, state, jumpPressed, crouchHeld) IN
        /\ IsMove(world, q) /\ q.jumped \in BOOLEAN
        /\ q.jumped <=>
             /\ BufferOf(state, jumpPressed) > 0
             /\ \/ FindsGround(world, state, state.at.y)
                \/ /\ Grounded(state) \/ state.groundedSeconds > 0
                   /\ state.timeSinceGrounded <= CoyoteTime
        /\ q.state.jumpBufferRemaining = IF q.jumped THEN 0 ELSE BufferOf(state, jumpPressed)
        /\ \A id \in K : world[id].high <= q.state.at.y
    BY <1>1, <1>2, <1>5, SteppedFacts
  <2> QED BY <1>3, <2>1
<1>7. /\ press' \in Nat
      /\ BufferOf(state, jumpPressed) = IF press' < JumpBuffer THEN JumpBuffer - press' ELSE 0
  BY <1>2, <1>4, BufferFacts
<1>8. PICK s : s = state'
  OBVIOUS
<1>9. /\ IsMotorState(world, s) /\ s.at = m.state.at
      /\ s.jumpBufferRemaining = m.state.jumpBufferRemaining
      /\ s.groundedSeconds > 0 => Grounded(s)
      /\ Grounded(s) /\ ~m.jumped => s.timeSinceGrounded = 0
  BY <1>2, <1>4, <1>6, <1>8, AfterStepFacts
<1>10. step'.jumped = m.jumped
  BY <1>4 DEF Reported
<1>11. CollidersInv'
  BY <1>2, <1>4 DEF CollidersInv, IsWorld
<1>12. PressInv'
  <2>1. s.jumpBufferRemaining = IF m.jumped THEN 0 ELSE BufferOf(state, jumpPressed)
    BY <1>6, <1>9
  <2>2. state'.jumpBufferRemaining =
          IF ~step'.jumped /\ press' < JumpBuffer THEN JumpBuffer - press' ELSE 0
    BY <1>6, <1>7, <1>8, <1>10, <2>1
  <2> QED BY <1>6, <1>7, <1>10, <2>2 DEF PressInv
<1>13. ClockInv'
  BY <1>8, <1>9, <1>10 DEF ClockInv, Grounded
<1>14. IsMotorState(staticColliders, state)'
  BY <1>1, <1>4, <1>8, <1>9 DEF IsMotorState, IsPlace, Grounds
<1>15. MotorInv'
  BY <1>11, <1>12, <1>13, <1>14 DEF MotorInv
<1>16. BufferOf(state, jumpPressed) > 0 <=> press' < JumpBuffer
  <2>1. PICK age \in Nat : age = press'
    BY <1>7
  <2>2. PICK b : b = BufferOf(state, jumpPressed)
    OBVIOUS
  <2>3. b = IF age < JumpBuffer THEN JumpBuffer - age ELSE 0
    BY <1>7, <2>1, <2>2
  <2>4. b > 0 <=> age < JumpBuffer
    BY <2>3, NumberFacts
  <2> QED BY <2>1, <2>2, <2>4
<1>17. Grounded(state) \/ state.groundedSeconds > 0 <=> Grounded(state)
  BY <1>2 DEF ClockInv
<1>18. step'.jumped <=>
         /\ press' < JumpBuffer
         /\ \/ FindsGround(staticColliders, state, state.at.y)
            \/ Grounded(state) /\ state.timeSinceGrounded <= CoyoteTime
  BY <1>1, <1>6, <1>10, <1>16, <1>17
<1> QED BY <1>1, <1>6, <1>8, <1>9, <1>15, <1>18

LEMMA AdvanceFacts ==
  ASSUME MotorInv, NEW velocities \in game.velocities, AdvanceKinematicColliders(velocities)
  PROVE  MotorInv'
<1>1. PICK world : world = staticColliders /\ IsWorld(world)
  BY DEF MotorInv, CollidersInv
<1>2. PICK g \in Games : g = game
  BY DEF MotorInv, CollidersInv
<1>3. /\ \A id \in DOMAIN g.colliders : g.range[id] \subseteq Nat
      /\ DOMAIN velocities = DOMAIN g.colliders
      /\ \A id \in DOMAIN velocities : velocities[id] \in Int
  BY <1>2, GameFacts
<1>4. DOMAIN world = DOMAIN g.colliders
      /\ \A id \in DOMAIN world : /\ world[id].kind = g.colliders[id].kind
                                  /\ world[id].high + world[id].velocity \in g.range[id]
  BY <1>1, <1>2 DEF MotorInv, CollidersInv
<1>5. PICK after : after = setColliderKinematics(advanceKinematicColliders(world), velocities)
  OBVIOUS
<1>6. DOMAIN after = DOMAIN world
  BY <1>5 DEF setColliderKinematics, advanceKinematicColliders
<1>7. ASSUME NEW id \in DOMAIN world
      PROVE  /\ after[id] \in Collider /\ after[id].low <= after[id].high
             /\ after[id].kind = world[id].kind /\ after[id].velocity = velocities[id]
  <2>1. PICK c \in Collider : c = world[id] /\ c.low <= c.high /\ c.high + c.velocity \in Nat
    BY <1>1, <1>3, <1>4 DEF IsWorld
  <2>2. c = [kind |-> c.kind, low |-> c.low, high |-> c.high, override |-> c.override,
             velocity |-> c.velocity]
    BY DEF Collider
  <2>3. PICK moved : moved = advanceKinematicColliders(world)
    OBVIOUS
  <2>4. DOMAIN moved = DOMAIN world
    BY <2>3 DEF advanceKinematicColliders
  <2>5. moved[id] = [c EXCEPT !.low = @ + c.velocity, !.high = @ + c.velocity]
    BY <2>1, <2>3 DEF advanceKinematicColliders
  <2>6. moved[id] = [kind |-> c.kind, low |-> c.low + c.velocity, high |-> c.high + c.velocity,
                     override |-> c.override, velocity |-> c.velocity]
    BY <2>2, <2>5
  <2>7. after[id] = [moved[id] EXCEPT !.velocity = velocities[id]]
    BY <1>5, <2>3, <2>4 DEF setColliderKinematics
  <2>8. after[id] = [kind |-> c.kind, low |-> c.low + c.velocity, high |-> c.high + c.velocity,
                     override |-> c.override, velocity |-> velocities[id]]
    BY <2>6, <2>7
  <2>9. velocities[id] \in Int
    BY <1>3, <1>4
  <2>10. c.kind \in SurfaceKind /\ c.low \in Int /\ c.high \in Nat /\ c.override \in Nat
         /\ c.velocity \in Int
    BY DEF Collider
  <2> QED BY <2>1, <2>8, <2>9, <2>10 DEF Collider
<1>8. staticColliders' = after /\ game' = game /\ state' = state /\ step' = step /\ press' = press
      /\ \A id \in DOMAIN velocities : staticColliders'[id].high + velocities[id] \in game.range[id]
  BY <1>1, <1>5 DEF AdvanceKinematicColliders, observed
<1>9. IsWorld(after)
  BY <1>1, <1>6, <1>7 DEF IsWorld
<1>10. CollidersInv'
  <2>1. \A id \in DOMAIN after : after[id].high + after[id].velocity \in g.range[id]
    BY <1>2, <1>3, <1>4, <1>6, <1>7, <1>8
  <2>2. \A id \in DOMAIN after : after[id].kind = g.colliders[id].kind
    BY <1>4, <1>6, <1>7
  <2> QED BY <1>2, <1>4, <1>6, <1>8, <1>9, <2>1, <2>2 DEF CollidersInv, IsWorld
<1>11. IsMotorState(after, state)
  <2>1. Grounds(after) = Grounds(world)
    BY <1>6, <1>7 DEF Grounds, isGroundSurface
  <2>2. IsMotorState(world, state)
    BY <1>1 DEF MotorInv
  <2> QED BY <2>1, <2>2 DEF IsMotorState
<1>12. IsMotorState(staticColliders, state)'
  BY <1>8, <1>11 DEF IsMotorState, IsPlace, Grounds
<1>13. PressInv' /\ ClockInv'
  BY <1>8 DEF MotorInv, PressInv, ClockInv, Grounded
<1> QED BY <1>10, <1>12, <1>13 DEF MotorInv

LEMMA MotorInvariant ==
  Spec => []MotorInv
<1>1. Init => MotorInv
  BY InitFacts
<1>2. MotorInv /\ [Next]_vars => MotorInv'
  <2> SUFFICES ASSUME MotorInv, [Next]_vars PROVE MotorInv'
    OBVIOUS
  <2>1. CASE \E jumpPressed \in BOOLEAN, crouchHeld \in game.crouching :
               StepCharacterMotor(jumpPressed, crouchHeld)
    <3>1. PICK jumpPressed \in BOOLEAN, crouchHeld \in game.crouching :
            StepCharacterMotor(jumpPressed, crouchHeld)
      BY <2>1
    <3>2. Firm(staticColliders, {})
      BY DEF Firm
    <3> QED BY <3>1, <3>2, StepFacts
  <2>2. CASE \E velocities \in game.velocities : AdvanceKinematicColliders(velocities)
    BY <2>2, AdvanceFacts
  <2>3. CASE UNCHANGED vars
    BY <2>3 DEF vars, observed, MotorInv, CollidersInv, IsWorld, IsMotorState, IsPlace,
       Grounds, PressInv, ClockInv, Grounded
  <2> QED BY <2>1, <2>2, <2>3 DEF Next
<1> QED BY <1>1, <1>2, PTL DEF Spec

-----------------------------------------------------------------------------
(***************************************************************************)
(* Jumps                                                                   *)
(***************************************************************************)
(* What the first look for ground finds is what supports the character.    *)
LEMMA FoundSupports ==
  ASSUME IsWorld(staticColliders), IsMotorState(staticColliders, state), ~Grounded(state),
         FindsGround(staticColliders, state, state.at.y)
  PROVE  \E id \in DOMAIN staticColliders \cup {FloorMain} : Supports(id)
<1>1. PICK id \in Grounds(staticColliders) :
        canSnapToSurface(InitialQuery(state), state.at.y, Surface(staticColliders, id))
  BY DEF FindsGround
<1>2. id \in DOMAIN staticColliders \cup {FloorMain}
  BY DEF Grounds
<1>3. PICK c \in Collider : c = Surface(staticColliders, id) /\ c.low <= c.high
  BY <1>2, SurfaceFacts
<1>4. PICK y \in Nat : y = state.at.y
  BY DEF IsMotorState
<1>5. PICK q : q = InitialQuery(state)
  OBVIOUS
<1>6. PICK none : none = Query(0, FALSE, FALSE)
  OBVIOUS
<1>7. PICK all : all = Query(0, TRUE, TRUE)
  OBVIOUS
<1>8. PICK up \in Nat, rise \in Nat, top \in Nat :
        /\ up = MaxStepUp(all, c) /\ rise = rampRise(c) /\ top = c.high
  BY <1>3, SpanFacts, RiseFacts DEF Collider
<1>9. /\ ~none.enableGroundSnap /\ ~none.enableStepUp
      /\ all.enableGroundSnap /\ all.enableStepUp
      /\ q.enableGroundSnap <=> state.velocity <= 0
      /\ q.enableStepUp => state.velocity <= 0
  BY <1>5, <1>6, <1>7 DEF Query, InitialQuery
<1>10. /\ MaxStepUp(none, c) = 1 /\ MaxSnapDown(none, c) = 1
       /\ MaxSnapDown(all, c) = SnapDownDistance + rise
       /\ MaxSnapDown(q, c) = IF q.enableGroundSnap THEN SnapDownDistance + rise ELSE 1
       /\ MaxStepUp(q, c) = IF q.enableStepUp THEN up ELSE 1
  BY <1>8, <1>9 DEF MaxStepUp, MaxSnapDown
<1>11. top - y \in - MaxSnapDown(q, c) .. MaxStepUp(q, c)
  BY <1>1, <1>3, <1>4, <1>5, <1>8 DEF canSnapToSurface
<1>12. \/ top - y \in - MaxSnapDown(none, c) .. MaxStepUp(none, c)
       \/ state.velocity <= 0 /\ top - y \in - MaxSnapDown(all, c) .. MaxStepUp(all, c)
  <2>1. CASE state.velocity <= 0
    <3>1. top - y \in - (SnapDownDistance + rise) .. MaxStepUp(q, c)
      BY <1>9, <1>10, <1>11, <2>1
    <3>2. MaxStepUp(q, c) = up \/ MaxStepUp(q, c) = 1
      BY <1>10
    <3> QED BY <1>8, <1>10, <2>1, <3>1, <3>2, WorldConstants
  <2>2. CASE ~(state.velocity <= 0)
    BY <1>9, <1>10, <1>11, <2>2
  <2> QED BY <2>1, <2>2
<1>13. Supports(id)
  BY <1>3, <1>4, <1>6, <1>7, <1>8, <1>12 DEF Supports, Reaches, canSnapToSurface
<1> QED BY <1>2, <1>13

(* Who stands within reach of a ground finds ground.                       *)
LEMMA StandingFinds ==
  ASSUME IsMotorState(staticColliders, state), Grounded(state), Reaches(state.at.ground, TRUE)
  PROVE  FindsGround(staticColliders, state, state.at.y)
<1>1. PICK id \in Grounds(staticColliders) : id = state.at.ground
  BY DEF IsMotorState, Grounded
<1>2. PICK c : c = Surface(staticColliders, id)
  OBVIOUS
<1>3. PICK q : q = InitialQuery(state)
  OBVIOUS
<1>4. PICK all : all = Query(0, TRUE, TRUE)
  OBVIOUS
<1>5. q.enableGroundSnap /\ q.enableStepUp /\ all.enableGroundSnap /\ all.enableStepUp
  BY <1>3, <1>4 DEF Query, InitialQuery
<1>6. MaxStepUp(q, c) = MaxStepUp(all, c) /\ MaxSnapDown(q, c) = MaxSnapDown(all, c)
  BY <1>5 DEF MaxStepUp, MaxSnapDown
<1>7. canSnapToSurface(all, state.at.y, c)
  BY <1>1, <1>2, <1>4 DEF Reaches
<1>8. canSnapToSurface(q, state.at.y, c)
  BY <1>6, <1>7 DEF canSnapToSurface
<1> QED BY <1>1, <1>2, <1>3, <1>8 DEF FindsGround

(* No jump without a press in time, or after a jump without something new  *)
(* to jump from, and no press in time is lost on who stands.               *)
THEOREM JumpsAreAlwaysEarned ==
  Spec => JumpsAreEarned
<1> DEFINE Earned ==
      ~stepped =>
        /\ step'.jumped =>
              /\ press' < JumpBuffer
              /\ \/ Grounded(state) \/ lost <= CoyoteTime
                 \/ \E id \in DOMAIN staticColliders \union {FloorMain} : Supports(id)
        /\ /\ Grounded(state) /\ press' < JumpBuffer
           /\ step.jumped => Reaches(state.at.ground, TRUE)
           => step'.jumped
<1>1. MotorInv /\ [Next]_vars => [Earned]_vars
  <2> SUFFICES ASSUME MotorInv, Next, ~stepped PROVE Earned
    BY DEF Next
  <2>1. PICK jumpPressed \in BOOLEAN, crouchHeld \in game.crouching :
          StepCharacterMotor(jumpPressed, crouchHeld)
    BY DEF Next, AdvanceKinematicColliders
  <2>2. step'.jumped <=>
          /\ press' < JumpBuffer
          /\ \/ FindsGround(staticColliders, state, state.at.y)
             \/ Grounded(state) /\ state.timeSinceGrounded <= CoyoteTime
    <3>1. Firm(staticColliders, {})
      BY DEF Firm
    <3> QED BY <2>1, <3>1, StepFacts
  <2>3. IsWorld(staticColliders) /\ IsMotorState(staticColliders, state)
    BY DEF MotorInv, CollidersInv
  <2>4. ASSUME step'.jumped
        PROVE  /\ press' < JumpBuffer
               /\ \/ Grounded(state)
                  \/ \E id \in DOMAIN staticColliders \union {FloorMain} : Supports(id)
    BY <2>2, <2>3, <2>4, FoundSupports
  <2>5. ASSUME Grounded(state), press' < JumpBuffer,
               step.jumped => Reaches(state.at.ground, TRUE)
        PROVE  step'.jumped
    <3>1. CASE step.jumped
      BY <2>2, <2>3, <2>5, <3>1, StandingFinds
    <3>2. CASE ~step.jumped
      <4>1. state.timeSinceGrounded = 0
        BY <2>5, <3>2 DEF MotorInv, ClockInv
      <4>2. state.timeSinceGrounded <= CoyoteTime
        BY <4>1, NumberFacts
      <4> QED BY <2>2, <2>5, <4>2
    <3> QED BY <3>1, <3>2
  <2> QED BY <2>4, <2>5
<1>2. Spec => [][Earned]_vars
  BY <1>1, MotorInvariant, PTL DEF Spec
<1> QED BY <1>2 DEF JumpsAreEarned

-----------------------------------------------------------------------------
(***************************************************************************)
(* Grounds                                                                 *)
(***************************************************************************)
(* Nobody falls through a ground that does not sink, in a column without   *)
(* ramps.                                                                  *)
THEOREM NobodyFallsThrough ==
  ASSUME \A g \in Games : NoRamps(g.colliders)
  PROVE  Spec => NoTunnelling
<1> DEFINE Held ==
      ~stepped =>
        /\ state'.at.y >= 0
        /\ \A id \in DOMAIN staticColliders :
              /\ isGroundSurface(staticColliders[id]) /\ staticColliders[id].velocity >= 0
              /\ Above(id)
              => Above(id)'
<1>1. MotorInv /\ [Next]_vars => [Held]_vars
  <2> SUFFICES ASSUME MotorInv, Next, ~stepped PROVE Held
    BY DEF Next
  <2>1. PICK jumpPressed \in BOOLEAN, crouchHeld \in game.crouching :
          StepCharacterMotor(jumpPressed, crouchHeld)
    BY DEF Next, AdvanceKinematicColliders
  <2>2. PICK K : K = {id \in DOMAIN staticColliders :
                        /\ isGroundSurface(staticColliders[id])
                        /\ staticColliders[id].velocity >= 0
                        /\ Above(id)}
    OBVIOUS
  <2>3. NoRamps(staticColliders)
    BY DEF MotorInv, CollidersInv, NoRamps
  <2>4. Firm(staticColliders, K)
    BY <2>2, <2>3 DEF Firm
  <2>5. IsWorld(staticColliders) /\ IsMotorState(staticColliders, state)
    BY DEF MotorInv, CollidersInv
  <2>6. \A id \in K : staticColliders[id].high <= state.at.y
    BY <2>2, <2>5 DEF Above, IsMotorState, IsWorld, Collider
  <2>7. MotorInv' /\ \A id \in K : staticColliders[id].high <= state'.at.y
    BY <2>1, <2>4, <2>6, StepFacts
  <2>8. state'.at.y \in Nat
    BY <2>7 DEF MotorInv, IsMotorState
  <2>9. staticColliders' = staticColliders
    BY <2>1 DEF StepCharacterMotor
  <2>10. \A id \in K : Above(id)'
    BY <2>2, <2>5, <2>7, <2>8, <2>9 DEF Above, IsWorld, Collider
  <2> QED BY <2>2, <2>8, <2>10
<1>2. Spec => [][Held]_vars
  BY <1>1, MotorInvariant, PTL DEF Spec
<1> QED BY <1>2 DEF NoTunnelling
=============================================================================
