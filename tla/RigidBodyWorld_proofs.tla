------------------------- MODULE RigidBodyWorld_proofs -------------------------
(***************************************************************************)
(* What a listener hears from a RigidBodyWorld, which ticks run and which  *)
(* bodies move in them: for any number of bodies, colliders, contacts and  *)
(* worlds, and whatever order colliders are walked in.                     *)
(***************************************************************************)
EXTENDS RigidBodyWorld, FiniteSetTheorems, SequenceTheorems, TLAPS

Slot == [generation : Nat \ {0}, name : Names \cup {Vacant},
         kind : {"sensor", "kinematic", "prop", "static"}, shape : Shapes \cup {"none"},
         canonical : BOOLEAN, target : BOOLEAN, gliding : BOOLEAN]

IsWorld(w) ==
  /\ w = [slots |-> w.slots, pairs |-> w.pairs, exits |-> w.exits, overflow |-> w.overflow]
  /\ w.slots \in Seq(Slot)

(* A handle whose slot has moved on to a later generation.                 *)
Stale(w, h) ==
  h[2] \in DOMAIN w.slots /\ h[3] \in Nat /\ h[3] < w.slots[h[2]].generation

(* Pairs are of bodies that live, Exits are owed for bodies that do not,   *)
(* one for each pair, and together they are what the listener thinks.      *)
Listening(w) ==
  /\ \A p \in w.pairs : p \subseteq HandlesOf(w)
  /\ \A e \in w.exits : e.phase = "exit" /\ \E h \in e.pair : Stale(w, h)
  /\ \A e, f \in w.exits : e.pair = f.pair => e = f
  /\ open = w.pairs \cup {e.pair : e \in w.exits}
  /\ ~w.overflow

(* A name is held once, and a body has a target if it was told to move.    *)
Steerable(w) ==
  /\ \A i, j \in Occupied(w) : w.slots[i].name = w.slots[j].name => i = j
  /\ \A i \in Applications(w) :
       /\ w.slots[i].target <=> HandleAt(w, i) \in told
       /\ w.slots[i].target => w.slots[i].kind \in {"sensor", "kinematic"}
  /\ told \subseteq {HandleAt(w, i) : i \in Applications(w)}

Good(w) == IsWorld(w) /\ Listening(w) /\ Steerable(w)

OpenFits == IsFiniteSet(open) /\ Cardinality(open) <= MaxContactEvents

-----------------------------------------------------------------------------
LEMMA SlotFacts ==
  ASSUME NEW w, IsWorld(w)
  PROVE  /\ Len(w.slots) \in Nat /\ DOMAIN w.slots = 1 .. Len(w.slots)
         /\ \A i \in DOMAIN w.slots :
              /\ w.slots[i] \in Slot
              /\ w.slots[i].generation \in Nat /\ w.slots[i].generation >= 1
         /\ Occupied(w) \subseteq DOMAIN w.slots
         /\ Canonical(w) \subseteq Occupied(w) /\ Applications(w) \subseteq Occupied(w)
<1>1. w.slots \in Seq(Slot)
  BY DEF IsWorld
<1>2. /\ Len(w.slots) \in Nat /\ DOMAIN w.slots = 1 .. Len(w.slots)
      /\ \A i \in DOMAIN w.slots : w.slots[i] \in Slot
  BY <1>1
<1>3. \A s \in Slot : s.generation \in Nat /\ s.generation >= 1
  BY DEF Slot
<1> QED BY <1>2, <1>3 DEF Occupied, Canonical, Applications

LEMMA HandleParts ==
  \A w, i : HandleAt(w, i)[2] = i /\ HandleAt(w, i)[3] = w.slots[i].generation
  BY DEF HandleAt

LEMMA FreedSlots ==
  ASSUME NEW w, IsWorld(w), NEW i \in DOMAIN w.slots
  PROVE  /\ Freed(w.slots, i) \in Seq(Slot)
         /\ DOMAIN Freed(w.slots, i) = DOMAIN w.slots
         /\ \A j \in DOMAIN w.slots \ {i} : Freed(w.slots, i)[j] = w.slots[j]
         /\ Freed(w.slots, i)[i].name = Vacant
         /\ Freed(w.slots, i)[i].generation = w.slots[i].generation + 1
<1>1. w.slots \in Seq(Slot) /\ w.slots[i] \in Slot
  BY SlotFacts DEF IsWorld
<1>2. PICK o : o = w.slots[i]
  OBVIOUS
<1>3. PICK s : s = [o EXCEPT !.name = Vacant, !.generation = Generation(o.generation)]
  OBVIOUS
<1>4. o \in Slot
  BY <1>1, <1>2
<1>5. s = [generation |-> o.generation + 1, name |-> Vacant, kind |-> o.kind, shape |-> o.shape,
           canonical |-> o.canonical, target |-> o.target, gliding |-> o.gliding]
  BY <1>3, <1>4 DEF Slot, Generation
<1>6. s \in Slot /\ s.name = Vacant /\ s.generation = o.generation + 1
  BY <1>4, <1>5 DEF Slot
<1>7. Freed(w.slots, i) = [w.slots EXCEPT ![i] = s]
  BY <1>2, <1>3 DEF Freed
<1>8. [w.slots EXCEPT ![i] = s] \in Seq(Slot)
  BY <1>1, <1>6
<1> QED BY <1>1, <1>2, <1>6, <1>7, <1>8

(* After remove: one body and its handle are gone, nothing else moved.     *)
LEMMA RemovedWorld ==
  ASSUME NEW w, IsWorld(w), NEW i \in Occupied(w), NEW reason
  PROVE  LET r == Removed(w, i, reason) IN
         /\ IsWorld(r) /\ Occupied(r) = Occupied(w) \ {i}
         /\ DOMAIN r.slots = DOMAIN w.slots
         /\ \A j \in DOMAIN w.slots \ {i} : r.slots[j] = w.slots[j]
         /\ r.slots[i].generation = w.slots[i].generation + 1
         /\ r.slots[i].name = Vacant
<1>1. i \in DOMAIN w.slots
  BY DEF Occupied
<1>2. PICK r : r = Removed(w, i, reason)
  OBVIOUS
<1>3. r = [slots |-> r.slots, pairs |-> r.pairs, exits |-> r.exits, overflow |-> r.overflow]
      /\ r.slots = Freed(w.slots, i)
  BY <1>2 DEF Removed
<1>4. /\ r.slots \in Seq(Slot) /\ DOMAIN r.slots = DOMAIN w.slots
      /\ \A j \in DOMAIN w.slots \ {i} : r.slots[j] = w.slots[j]
      /\ r.slots[i].name = Vacant
      /\ r.slots[i].generation = w.slots[i].generation + 1
  BY <1>1, <1>3, FreedSlots
<1>5. Occupied(r) = Occupied(w) \ {i}
  BY <1>4 DEF Occupied
<1> QED BY <1>2, <1>3, <1>4, <1>5 DEF IsWorld

LEMMA RemovedHandles ==
  ASSUME NEW w, IsWorld(w), NEW i \in Occupied(w), NEW reason
  PROVE  LET r == Removed(w, i, reason)  h == HandleAt(w, i) IN
         /\ HandlesOf(r) = HandlesOf(w) \ {h}
         /\ Stale(r, h)
         /\ \A g : Stale(w, g) => Stale(r, g)
<1> PICK r : r = Removed(w, i, reason)
  OBVIOUS
<1>1. /\ Occupied(r) = Occupied(w) \ {i} /\ DOMAIN r.slots = DOMAIN w.slots
      /\ \A j \in DOMAIN w.slots \ {i} : r.slots[j] = w.slots[j]
      /\ r.slots[i].generation = w.slots[i].generation + 1
  BY RemovedWorld
<1>2. \A j \in Occupied(r) : HandleAt(r, j) = HandleAt(w, j) /\ HandleAt(w, j) # HandleAt(w, i)
  BY <1>1 DEF HandleAt, Occupied
<1>3. HandlesOf(r) = HandlesOf(w) \ {HandleAt(w, i)}
  BY <1>1, <1>2 DEF HandlesOf
<1>4. i \in DOMAIN w.slots /\ w.slots[i].generation \in Nat
  BY SlotFacts
<1>5. Stale(r, HandleAt(w, i))
  BY <1>1, <1>4, HandleParts DEF Stale
<1>6. ASSUME NEW g, Stale(w, g) PROVE Stale(r, g)
  <2>1. g[2] \in DOMAIN w.slots /\ g[3] \in Nat /\ g[3] < w.slots[g[2]].generation
    BY <1>6 DEF Stale
  <2>2. CASE g[2] = i
    BY <2>1, <2>2, <1>1, <1>4 DEF Stale
  <2>3. CASE g[2] # i
    BY <2>1, <2>3, <1>1 DEF Stale
  <2> QED BY <2>2, <2>3
<1> QED BY <1>3, <1>5, <1>6

(* The exits owed are the pairs the listener still has, so they fit.       *)
LEMMA ExitsFit ==
  ASSUME NEW w, IsWorld(w), Listening(w), OpenFits, NEW i \in Occupied(w), NEW reason
  PROVE  LET owed == {Event(p, "exit", reason) : p \in Leaving(w, HandleAt(w, i))} IN
         /\ Cardinality(w.exits) + Cardinality(owed) <= MaxContactEvents
         /\ \A e \in owed, f \in w.exits : e.pair # f.pair
<1> DEFINE P == Leaving(w, HandleAt(w, i))
           owed == {Event(p, "exit", reason) : p \in P}
           X == {e.pair : e \in w.exits}
<1>1. P \subseteq w.pairs /\ w.pairs \subseteq open /\ X \subseteq open
  BY DEF Leaving, Listening
<1>2. ASSUME NEW h \in HandlesOf(w) PROVE ~Stale(w, h)
  <2>1. PICK j \in Occupied(w) : h = HandleAt(w, j)
    BY DEF HandlesOf
  <2>2. w.slots[j].generation \in Nat
    BY SlotFacts
  <2> QED BY <2>1, <2>2, HandleParts DEF Stale
<1>3. P \cap X = {}
  BY <1>1, <1>2 DEF Listening
<1>4. IsFiniteSet(open) /\ IsFiniteSet(P) /\ IsFiniteSet(X) /\ Cardinality(open) <= MaxContactEvents
  BY <1>1, FS_Subset DEF OpenFits
<1>5. IsFiniteSet(P \cup X) /\ Cardinality(P \cup X) = Cardinality(P) + Cardinality(X)
  <2>1. Cardinality(P \cup X) = Cardinality(P) + Cardinality(X) - Cardinality(P \cap X)
        /\ IsFiniteSet(P \cup X)
    BY <1>4, FS_Union
  <2>2. Cardinality({}) = 0
    BY FS_EmptySet
  <2>3. Cardinality(P) \in Nat /\ Cardinality(X) \in Nat
    BY <1>4, FS_CardinalityType
  <2>4. Cardinality(P \cap X) = 0
    BY <2>2, <1>3
  <2> QED BY <2>1, <2>3, <2>4
<1>6. Cardinality(P \cup X) <= Cardinality(open)
  BY <1>1, <1>4, FS_Subset
<1>7. Cardinality(owed) <= Cardinality(P) /\ IsFiniteSet(owed)
  <2> DEFINE f == [p \in P |-> Event(p, "exit", reason)]
  <2>1. f \in Surjection(P, owed)
    BY DEF Surjection
  <2> QED BY <2>1, <1>4, FS_Surjection
<1>8. Cardinality(w.exits) <= Cardinality(X) /\ IsFiniteSet(w.exits)
  <2> DEFINE g == [x \in X |-> CHOOSE e \in w.exits : e.pair = x]
  <2>1. \A e \in w.exits : g[e.pair] = e
    BY DEF Listening
  <2>2. \A x \in X : g[x] \in w.exits
    OBVIOUS
  <2>3. g \in Surjection(X, w.exits)
    <3>1. g \in [X -> w.exits]
      BY <2>2
    <3>2. \A e \in w.exits : e.pair \in X
      OBVIOUS
    <3> HIDE DEF g, X
    <3> QED BY <2>1, <3>1, <3>2 DEF Surjection
  <2> QED BY <2>3, <1>4, FS_Surjection
<1>9. /\ Cardinality(owed) \in Nat /\ Cardinality(w.exits) \in Nat /\ Cardinality(P) \in Nat
      /\ Cardinality(X) \in Nat /\ Cardinality(open) \in Nat /\ MaxContactEvents \in Nat
  BY <1>4, <1>7, <1>8, FS_CardinalityType, LimitsAssumption
<1>10. Cardinality(w.exits) + Cardinality(owed) <= MaxContactEvents
  BY <1>4, <1>5, <1>6, <1>7, <1>8, <1>9
<1>11. \A e \in owed, f \in w.exits : e.pair # f.pair
  BY <1>3 DEF Event
<1> QED BY <1>10, <1>11

LEMMA RemovedListening ==
  ASSUME NEW w, IsWorld(w), Listening(w), OpenFits, NEW i \in Occupied(w), NEW reason
  PROVE  Listening(Removed(w, i, reason))
<1> DEFINE h == HandleAt(w, i)
           owed == {Event(p, "exit", reason) : p \in Leaving(w, h)}
<1> PICK r : r = Removed(w, i, reason)
  OBVIOUS
<1>1. /\ Cardinality(w.exits) + Cardinality(owed) <= MaxContactEvents
      /\ \A e \in owed, f \in w.exits : e.pair # f.pair
  BY ExitsFit
<1>2. r.pairs = Remaining(w, h) /\ r.exits = w.exits \cup owed /\ ~r.overflow
  <2>1. r = [slots |-> Freed(w.slots, i), pairs |-> Remaining(w, h),
             exits |-> w.exits \cup owed, overflow |-> w.overflow]
    BY <1>1, SMTT(30) DEF Removed
  <2> QED BY <2>1 DEF Listening
<1>3. /\ HandlesOf(r) = HandlesOf(w) \ {h}
      /\ Stale(r, h)
      /\ \A g : Stale(w, g) => Stale(r, g)
  BY RemovedHandles
<1>4. \A e \in owed : e.phase = "exit" /\ h \in e.pair /\ e = Event(e.pair, "exit", reason)
                      /\ e.pair \in Leaving(w, h)
  BY DEF Event, Leaving
<1>5. \A p \in r.pairs : p \subseteq HandlesOf(r)
  BY <1>2, <1>3 DEF Listening, Remaining
<1>6. \A e \in r.exits : e.phase = "exit" /\ \E g \in e.pair : Stale(r, g)
  BY <1>2, <1>3, <1>4 DEF Listening
<1>7. \A e, f \in r.exits : e.pair = f.pair => e = f
  <2>1. \A e, f \in owed : e.pair = f.pair => e = f
    BY <1>4
  <2>2. \A e, f \in w.exits : e.pair = f.pair => e = f
    BY DEF Listening
  <2> HIDE DEF owed
  <2> QED BY <2>1, <2>2, <1>1, <1>2
<1>8. open = r.pairs \cup {e.pair : e \in r.exits}
  <2>0. \A p \in Leaving(w, h) : Event(p, "exit", reason) \in owed /\ Event(p, "exit", reason).pair = p
    BY DEF Event
  <2>1. {e.pair : e \in owed} = Leaving(w, h)
    <3> HIDE DEF owed
    <3> QED BY <2>0, <1>4
  <2>2. Leaving(w, h) \cup Remaining(w, h) = w.pairs
    BY DEF Leaving, Remaining
  <2>3. {e.pair : e \in r.exits} = {e.pair : e \in w.exits} \cup {e.pair : e \in owed}
    BY <1>2
  <2> HIDE DEF owed
  <2> QED BY <1>2, <2>1, <2>2, <2>3 DEF Listening
<1> QED BY <1>2, <1>5, <1>6, <1>7, <1>8 DEF Listening
LEMMA RemovedCanonical ==
  ASSUME NEW w, IsWorld(w), Steerable(w), NEW i \in Canonical(w), NEW reason
  PROVE  LET r == Removed(w, i, reason) IN Steerable(r) /\ Applications(r) = Applications(w)
<1> PICK r : r = Removed(w, i, reason)
  OBVIOUS
<1>0. i \in Occupied(w) /\ i \notin Applications(w) /\ Occupied(w) \subseteq DOMAIN w.slots
      /\ Applications(w) \subseteq Occupied(w)
  BY DEF Canonical, Applications, Occupied
<1>1. /\ Occupied(r) = Occupied(w) \ {i}
      /\ \A j \in DOMAIN w.slots \ {i} : r.slots[j] = w.slots[j]
  BY <1>0, RemovedWorld
<1>2. \A j \in Occupied(r) : r.slots[j] = w.slots[j] /\ HandleAt(r, j) = HandleAt(w, j)
  BY <1>0, <1>1 DEF HandleAt
<1>3. Applications(r) = Applications(w)
  BY <1>0, <1>1, <1>2 DEF Applications, Canonical
<1>4. \A j \in Applications(w) : r.slots[j] = w.slots[j] /\ HandleAt(r, j) = HandleAt(w, j)
  BY <1>0, <1>1, <1>2
<1>5. \A j, k \in Occupied(r) : r.slots[j].name = r.slots[k].name => j = k
  BY <1>1, <1>2 DEF Steerable
<1>6. {HandleAt(r, j) : j \in Applications(r)} = {HandleAt(w, j) : j \in Applications(w)}
  BY <1>3, <1>4
<1>7. \A j \in Applications(r) :
        /\ r.slots[j].target <=> HandleAt(r, j) \in told
        /\ r.slots[j].target => r.slots[j].kind \in {"sensor", "kinematic"}
  BY <1>3, <1>4 DEF Steerable
<1> QED BY <1>3, <1>5, <1>6, <1>7 DEF Steerable

-----------------------------------------------------------------------------
(* A set of numbers has a least element; what is shown of it by contra-    *)
(* diction is what induction would show.                                   *)
LEMMA LeastNumber ==
  ASSUME NEW T, T \subseteq Nat, T # {}
  PROVE  \E x \in T : \A y \in T : x <= y
<1>1. PICK n \in T : TRUE
  OBVIOUS
<1> DEFINE D == {m \in T : m <= n}
           U == {0 .. m : m \in D}
<1>2. IsWellFoundedOn(StrictSubsetOrdering(0 .. n), SUBSET (0 .. n))
  <2>1. IsFiniteSet(0 .. n)
    BY FS_Interval
  <2>2. FiniteSubsetsOf(0 .. n) = SUBSET (0 .. n)
    BY <2>1, FS_FiniteSubsetsOfFinite
  <2>3. IsWellFoundedOn(StrictSubsetOrdering(0 .. n), FiniteSubsetsOf(0 .. n))
    BY FS_StrictSubsetOrderingWellFounded
  <2> QED BY <2>2, <2>3
<1>3. U \subseteq SUBSET (0 .. n) /\ U # {}
  BY <1>1
<1>4. PICK x \in U : \A y \in U : <<y, x>> \notin StrictSubsetOrdering(0 .. n)
  BY <1>2, <1>3, WFMin
<1>5. PICK k \in D : x = 0 .. k
  BY <1>4
<1>6. \A m \in D : m >= k
  <2> SUFFICES ASSUME NEW m \in D, m < k PROVE FALSE
    OBVIOUS
  <2>1. 0 .. m \in U /\ 0 .. m \subseteq 0 .. k /\ k \in 0 .. k /\ k \notin 0 .. m
    OBVIOUS
  <2>2. 0 .. m \in SUBSET (0 .. n) /\ 0 .. k \in SUBSET (0 .. n)
    OBVIOUS
  <2> QED BY <1>4, <1>5, <2>1, <2>2 DEF StrictSubsetOrdering
<1> QED BY <1>6

-----------------------------------------------------------------------------
(* create finds a slot, within the slots there are or right behind them.   *)
LEMMA FirstFreeIsFree ==
  ASSUME NEW w, IsWorld(w)
  PROVE  FirstFree(w) \in (1 .. Len(w.slots) + 1) \ Occupied(w)
<1> DEFINE T == (1 .. Len(w.slots) + 1) \ Occupied(w)
<1>1. Len(w.slots) \in Nat /\ Occupied(w) \subseteq 1 .. Len(w.slots)
  BY SlotFacts
<1>2. T \subseteq Nat /\ T # {}
  <2>1. Len(w.slots) + 1 \in T
    BY <1>1
  <2> QED BY <2>1
<1>3. PICK i \in T : \A j \in T : i <= j
  <2> HIDE DEF T
  <2> QED BY <1>2, LeastNumber
<1>4. i \in 1 .. Len(w.slots) + 1 /\ i \notin Occupied(w) /\ \A j \in 1 .. i - 1 : j \in Occupied(w)
  BY <1>1, <1>3
<1> QED BY <1>4 DEF FirstFree

LEMMA CreatedWorld ==
  ASSUME NEW w, IsWorld(w), NEW name \in Names,
         NEW kind \in {"sensor", "kinematic", "prop", "static"},
         NEW shape \in Shapes \cup {"none"}, NEW canonical \in BOOLEAN
  PROVE  LET c == Created(w, name, kind, shape, canonical)  i == FirstFree(w) IN
         /\ IsWorld(c) /\ c.pairs = w.pairs /\ c.exits = w.exits /\ c.overflow = w.overflow
         /\ DOMAIN c.slots = DOMAIN w.slots \cup {i}
         /\ Occupied(c) = Occupied(w) \cup {i} /\ i \notin Occupied(w)
         /\ \A j \in DOMAIN w.slots \ {i} : c.slots[j] = w.slots[j]
         /\ i \in DOMAIN w.slots => c.slots[i].generation = w.slots[i].generation
         /\ c.slots[i].name = name /\ c.slots[i].kind = kind
         /\ c.slots[i].canonical = canonical /\ ~c.slots[i].target
<1> PICK c : c = Created(w, name, kind, shape, canonical)
  OBVIOUS
<1> PICK i : i = FirstFree(w)
  OBVIOUS
<1>1. /\ Len(w.slots) \in Nat /\ DOMAIN w.slots = 1 .. Len(w.slots)
      /\ \A j \in DOMAIN w.slots : w.slots[j] \in Slot /\ w.slots[j].generation \in Nat
                                   /\ w.slots[j].generation >= 1
      /\ Occupied(w) \subseteq DOMAIN w.slots
  BY SlotFacts
<1>2. i \in 1 .. Len(w.slots) + 1 /\ i \notin Occupied(w)
  BY FirstFreeIsFree
<1>3. PICK slot : slot = [generation |-> IF i \in DOMAIN w.slots THEN w.slots[i].generation ELSE 1,
                          name |-> name, kind |-> kind, shape |-> shape, canonical |-> canonical,
                          target |-> FALSE, gliding |-> kind = "kinematic"]
  OBVIOUS
<1>4. slot \in Slot
  <2>1. slot.generation \in Nat \ {0}
    BY <1>1, <1>3
  <2>2. slot.gliding \in BOOLEAN /\ slot.target \in BOOLEAN
    BY <1>3
  <2> QED BY <1>3, <2>1, <2>2 DEF Slot
<1>5. PICK s : s = [j \in 1 .. Len(w.slots) \cup {i} |-> IF j = i THEN slot ELSE w.slots[j]]
  OBVIOUS
<1>6. c = [w EXCEPT !.slots = s]
  BY <1>3, <1>5 DEF Created, Target
<1>7. c = [slots |-> s, pairs |-> w.pairs, exits |-> w.exits, overflow |-> w.overflow]
  BY <1>6 DEF IsWorld
<1>8. PICK n \in Nat : 1 .. Len(w.slots) \cup {i} = 1 .. n
  <2>1. CASE i = Len(w.slots) + 1
    <3>1. 1 .. Len(w.slots) \cup {i} = 1 .. Len(w.slots) + 1
      BY <1>1, <2>1
    <3> QED BY <1>1, <3>1
  <2>2. CASE i # Len(w.slots) + 1
    <3>1. 1 .. Len(w.slots) \cup {i} = 1 .. Len(w.slots)
      BY <1>1, <1>2, <2>2
    <3> QED BY <1>1, <3>1
  <2> QED BY <2>1, <2>2
<1>9. \A j \in 1 .. n : s[j] \in Slot
  BY <1>1, <1>4, <1>5, <1>8
<1>10. s \in Seq(Slot)
  <2>1. s \in [1 .. n -> Slot]
    BY <1>5, <1>8, <1>9
  <2> QED BY <2>1
<1>11. IsWorld(c) /\ c.slots = s /\ c.pairs = w.pairs /\ c.exits = w.exits /\ c.overflow = w.overflow
  BY <1>7, <1>10 DEF IsWorld
<1>12. DOMAIN s = DOMAIN w.slots \cup {i} /\ s[i] = slot
       /\ \A j \in DOMAIN w.slots \ {i} : s[j] = w.slots[j]
  BY <1>1, <1>5
<1>13. slot.name = name /\ name # Vacant /\ slot.kind = kind /\ slot.canonical = canonical
       /\ slot.target = FALSE
       /\ (i \in DOMAIN w.slots => slot.generation = w.slots[i].generation)
  BY <1>3, NamesAssumption
<1>14. Occupied(c) = Occupied(w) \cup {i}
  BY <1>1, <1>2, <1>11, <1>12, <1>13 DEF Occupied
<1> QED BY <1>2, <1>11, <1>12, <1>13, <1>14

LEMMA CreatedGood ==
  ASSUME NEW w, Good(w), NEW name \in Names \ NamesIn(w),
         NEW kind \in {"sensor", "kinematic", "prop", "static"},
         NEW shape \in Shapes \cup {"none"}, NEW canonical \in BOOLEAN
  PROVE  Good(Created(w, name, kind, shape, canonical))
<1> PICK c : c = Created(w, name, kind, shape, canonical)
  OBVIOUS
<1> PICK i : i = FirstFree(w)
  OBVIOUS
<1>1. /\ IsWorld(c) /\ c.pairs = w.pairs /\ c.exits = w.exits /\ c.overflow = w.overflow
      /\ DOMAIN c.slots = DOMAIN w.slots \cup {i}
      /\ Occupied(c) = Occupied(w) \cup {i} /\ i \notin Occupied(w)
      /\ \A j \in DOMAIN w.slots \ {i} : c.slots[j] = w.slots[j]
      /\ i \in DOMAIN w.slots => c.slots[i].generation = w.slots[i].generation
      /\ c.slots[i].name = name /\ c.slots[i].kind = kind
      /\ c.slots[i].canonical = canonical /\ ~c.slots[i].target
  BY CreatedWorld DEF Good
<1>2. Occupied(w) \subseteq DOMAIN w.slots /\ Applications(w) \subseteq Occupied(w)
  BY DEF Occupied, Applications
<1>3. \A j \in Occupied(w) : c.slots[j] = w.slots[j] /\ HandleAt(c, j) = HandleAt(w, j) /\ j # i
  BY <1>1, <1>2 DEF HandleAt
<1>4. HandlesOf(w) \subseteq HandlesOf(c)
  BY <1>1, <1>3 DEF HandlesOf
<1>5. ASSUME NEW h, Stale(w, h) PROVE Stale(c, h)
  <2>1. h[2] \in DOMAIN w.slots /\ h[3] \in Nat /\ h[3] < w.slots[h[2]].generation
    BY <1>5 DEF Stale
  <2>2. c.slots[h[2]].generation = w.slots[h[2]].generation
    BY <1>1, <2>1
  <2> QED BY <1>1, <2>1, <2>2 DEF Stale
<1>6. Listening(c)
  <2>1. /\ \A p \in w.pairs : p \subseteq HandlesOf(w)
        /\ \A e \in w.exits : e.phase = "exit" /\ \E h \in e.pair : Stale(w, h)
        /\ \A e, f \in w.exits : e.pair = f.pair => e = f
        /\ open = w.pairs \cup {e.pair : e \in w.exits}
        /\ ~w.overflow
    BY DEF Good, Listening
  <2>2. \A p \in c.pairs : p \subseteq HandlesOf(c)
    BY <1>1, <1>4, <2>1
  <2>3. \A e \in c.exits : e.phase = "exit" /\ \E h \in e.pair : Stale(c, h)
    BY <1>1, <1>5, <2>1
  <2> QED BY <1>1, <2>1, <2>2, <2>3 DEF Listening
<1>7. Applications(c) \subseteq Applications(w) \cup {i} /\ Applications(w) \subseteq Applications(c)
  BY <1>1, <1>3 DEF Applications, Canonical
<1>8. \A j, k \in Occupied(c) : c.slots[j].name = c.slots[k].name => j = k
  <2>1. \A j \in Occupied(w) : w.slots[j].name # name
    BY DEF NamesIn
  <2> QED BY <1>1, <1>3, <2>1 DEF Steerable, Good
<1>9. \A j \in Applications(w) :
        /\ c.slots[j] = w.slots[j] /\ HandleAt(c, j) = HandleAt(w, j)
        /\ w.slots[j].target <=> HandleAt(w, j) \in told
        /\ w.slots[j].target => w.slots[j].kind \in {"sensor", "kinematic"}
  BY <1>2, <1>3 DEF Steerable, Good
<1>10. told \subseteq {HandleAt(w, j) : j \in Applications(w)}
  BY DEF Steerable, Good
<1>11. HandleAt(c, i) \notin told
  <2>1. \A j \in Applications(w) : HandleAt(w, j) # HandleAt(c, i)
    BY <1>1, <1>2, HandleParts
  <2> QED BY <1>10, <2>1
<1>12. told \subseteq {HandleAt(c, j) : j \in Applications(c)}
  BY <1>7, <1>9, <1>10
<1>13. \A j \in Applications(c) :
        /\ c.slots[j].target <=> HandleAt(c, j) \in told
        /\ c.slots[j].target => c.slots[j].kind \in {"sensor", "kinematic"}
  <2> SUFFICES ASSUME NEW j \in Applications(c)
               PROVE  /\ c.slots[j].target <=> HandleAt(c, j) \in told
                      /\ c.slots[j].target => c.slots[j].kind \in {"sensor", "kinematic"}
    OBVIOUS
  <2>1. CASE j \in Applications(w)
    BY <1>9, <2>1
  <2>2. CASE j = i
    BY <1>1, <1>11, <2>2
  <2> QED BY <1>7, <2>1, <2>2
<1>14. Steerable(c)
  BY <1>8, <1>12, <1>13 DEF Steerable
<1> QED BY <1>1, <1>6, <1>14 DEF Good
-----------------------------------------------------------------------------
(* The walks over the colliders: each step keeps a world in order, so the  *)
(* whole walk does.  No application's body has the name of a collider,     *)
(* which synchronize checks first: what a walk removes is canonical.       *)
NoneShadowed(w) == \A i \in Applications(w) : w.slots[i].name \notin DOMAIN statics
StaticsInv == \E ids \in SUBSET Colliders : statics \in [ids -> Shapes]
Sound(w) == Good(w) /\ NoneShadowed(w)

LEMMA HoldingHolds ==
  ASSUME NEW w, NEW name \in NamesIn(w)
  PROVE  Holding(w, name) \in Occupied(w) /\ w.slots[Holding(w, name)].name = name
<1>1. \E i \in Occupied(w) : w.slots[i].name = name
  BY DEF NamesIn
<1> QED BY <1>1 DEF Holding

LEMMA RemovedSound ==
  ASSUME NEW w, Sound(w), OpenFits, NEW i \in Canonical(w), NEW reason
  PROVE  LET r == Removed(w, i, reason) IN
         /\ Sound(r) /\ Applications(r) = Applications(w)
         /\ w.slots[i].name \notin NamesIn(r)
<1> PICK r : r = Removed(w, i, reason)
  OBVIOUS
<1>1. i \in Occupied(w) /\ IsWorld(w) /\ Listening(w) /\ Steerable(w) /\ i \notin Applications(w)
      /\ Applications(w) \subseteq Occupied(w) /\ Occupied(w) \subseteq DOMAIN w.slots
  BY DEF Canonical, Sound, Good, Applications, Occupied
<1>2. /\ IsWorld(r) /\ Occupied(r) = Occupied(w) \ {i}
      /\ \A j \in DOMAIN w.slots \ {i} : r.slots[j] = w.slots[j]
  BY <1>1, RemovedWorld
<1>3. Listening(r)
  BY <1>1, RemovedListening
<1>4. Steerable(r) /\ Applications(r) = Applications(w)
  BY <1>1, RemovedCanonical
<1>5. \A j \in Applications(w) : r.slots[j] = w.slots[j]
  BY <1>1, <1>2
<1>6. NoneShadowed(r)
  BY <1>4, <1>5 DEF Sound, NoneShadowed
<1>7. w.slots[i].name \notin NamesIn(r)
  <2>1. \A j \in Occupied(r) : r.slots[j] = w.slots[j] /\ w.slots[j].name # w.slots[i].name
    BY <1>1, <1>2 DEF Steerable
  <2> QED BY <2>1 DEF NamesIn
<1> QED BY <1>2, <1>3, <1>4, <1>6, <1>7 DEF Sound, Good

LEMMA SweptSound ==
  ASSUME NEW v, Sound(v), OpenFits, NEW name
  PROVE  Sound(Swept(v, name))
<1>1. CASE name \in {v.slots[i].name : i \in Canonical(v)} \ DOMAIN statics
  <2>1. PICK i \in Canonical(v) : v.slots[i].name = name
    BY <1>1
  <2>2. i \in Occupied(v) /\ name \in NamesIn(v)
    BY <2>1 DEF Canonical, NamesIn
  <2>3. Holding(v, name) \in Occupied(v) /\ v.slots[Holding(v, name)].name = name
    BY <2>2, HoldingHolds
  <2>4. Holding(v, name) = i
    BY <2>1, <2>2, <2>3 DEF Sound, Good, Steerable
  <2>5. Sound(Removed(v, i, "removed"))
    BY RemovedSound
  <2> QED BY <1>1, <2>4, <2>5 DEF Swept
<1>2. CASE name \notin {v.slots[i].name : i \in Canonical(v)} \ DOMAIN statics
  BY <1>2 DEF Swept
<1> QED BY <1>1, <1>2

LEMMA CreatedCanonicalSound ==
  ASSUME NEW w, Sound(w), NEW name \in Names \ NamesIn(w),
         NEW kind \in {"sensor", "kinematic", "prop", "static"},
         NEW shape \in Shapes \cup {"none"}, NEW canonical \in BOOLEAN
  PROVE  canonical => Sound(Created(w, name, kind, shape, canonical))
<1>1. PICK c : c = Created(w, name, kind, shape, canonical)
  OBVIOUS
<1>2. PICK i : i = FirstFree(w)
  OBVIOUS
<1>3. IsWorld(w) /\ Good(w)
  BY DEF Sound, Good
<1>4. /\ Occupied(c) = Occupied(w) \cup {i} /\ i \notin Occupied(w)
      /\ \A j \in DOMAIN w.slots \ {i} : c.slots[j] = w.slots[j]
      /\ c.slots[i].canonical = canonical
  BY <1>1, <1>2, <1>3, CreatedWorld
<1>5. canonical => \A j \in Applications(c) : j \in Applications(w) /\ c.slots[j] = w.slots[j]
  BY <1>4 DEF Applications, Canonical, Occupied
<1>6. canonical => NoneShadowed(c)
  BY <1>5 DEF Sound, NoneShadowed
<1>7. Good(c)
  BY <1>1, <1>3, CreatedGood
<1> QED BY <1>1, <1>6, <1>7 DEF Sound

LEMMA CanonicalSound ==
  ASSUME NEW w, Sound(w), NEW name \in Names \ NamesIn(w), NEW shape \in Shapes
  PROVE  Sound(Created(w, name, "static", shape, TRUE))
<1>1. PICK kind \in {"sensor", "kinematic", "prop", "static"} : kind = "static"
  OBVIOUS
<1>2. PICK canonical \in BOOLEAN : canonical = TRUE
  OBVIOUS
<1>3. Sound(Created(w, name, kind, shape, canonical))
  BY <1>2, CreatedCanonicalSound
<1> QED BY <1>1, <1>2, <1>3

LEMMA PlacedSound ==
  ASSUME NEW v, Sound(v.world), OpenFits, StaticsInv, NEW name \in Names, NEW refused
  PROVE  Sound(Placed(v, name, refused).world)
<1> PICK w : w = v.world
  OBVIOUS
<1> PICK freed : freed = IF name \in NamesIn(w) THEN Removed(w, Holding(w, name), "replaced") ELSE w
  OBVIOUS
<1> SUFFICES ASSUME name \in DOMAIN statics
             PROVE  Sound(freed) /\ Sound(Created(freed, name, "static", statics[name], TRUE))
  <2>0. name \in DOMAIN statics => Sound(freed) /\ Sound(Created(freed, name, "static", statics[name], TRUE))
    OBVIOUS
  <2>1. CASE v.failed \/ name \notin DOMAIN statics \/ ~Changed(v.world, name)
    <3>1. Placed(v, name, refused) = v
      BY <2>1, Zenon DEF Placed
    <3> QED BY <3>1
  <2>2. CASE ~(v.failed \/ name \notin DOMAIN statics \/ ~Changed(v.world, name))
    <3>1. CASE name \in refused
      <4>1. Placed(v, name, refused) = [world |-> freed, failed |-> TRUE]
        BY <2>2, <3>1, Zenon DEF Placed
      <4>2. Placed(v, name, refused).world = freed
        BY <4>1
      <4> QED BY <2>0, <2>2, <4>2, Zenon
    <3>2. CASE name \notin refused
      <4>1. Placed(v, name, refused)
              = [world |-> Created(freed, name, "static", statics[name], TRUE), failed |-> FALSE]
        BY <2>2, <3>2, Zenon DEF Placed
      <4>2. Placed(v, name, refused).world = Created(freed, name, "static", statics[name], TRUE)
        BY <4>1
      <4> QED BY <2>0, <2>2, <4>2, Zenon
    <3> QED BY <3>1, <3>2
  <2> QED BY <2>1, <2>2
<1>1. Sound(freed) /\ name \notin NamesIn(freed)
  <2>1. CASE name \in NamesIn(w)
    <3>1. PICK i : i = Holding(w, name)
      OBVIOUS
    <3>2. i \in Occupied(w) /\ w.slots[i].name = name
      BY <2>1, <3>1, HoldingHolds
    <3>3. i \in Canonical(w)
      BY <3>2 DEF Sound, NoneShadowed, Applications
    <3>4. Sound(Removed(w, i, "replaced")) /\ w.slots[i].name \notin NamesIn(Removed(w, i, "replaced"))
      BY <3>3, RemovedSound
    <3> QED BY <2>1, <3>1, <3>2, <3>4
  <2>2. CASE name \notin NamesIn(w)
    BY <2>2
  <2> QED BY <2>1, <2>2
<1>2. PICK shape \in Shapes : shape = statics[name]
  BY DEF StaticsInv
<1>3. Sound(Created(freed, name, "static", shape, TRUE))
  BY <1>1, CanonicalSound
<1> QED BY <1>1, <1>2, <1>3

-----------------------------------------------------------------------------
SweepOf(f, w, k) ==
  f = [n \in 0 .. k |-> IF n = 0 THEN w ELSE Swept(f[n - 1], Order[n])]

LEMMA SweepExtends ==
  ASSUME NEW w, NEW k \in Nat, NEW f, SweepOf(f, w, k)
  PROVE  \E g : SweepOf(g, w, k + 1)
<1> DEFINE g == [n \in 0 .. k + 1 |-> IF n = k + 1 THEN Swept(f[k], Order[k + 1]) ELSE f[n]]
<1>1. f[0] = w /\ \A n \in 1 .. k : f[n] = Swept(f[n - 1], Order[n])
  <2>1. f = [n \in 0 .. k |-> IF n = 0 THEN w ELSE Swept(f[n - 1], Order[n])]
    BY DEF SweepOf
  <2> HIDE DEF g
  <2> QED BY <2>1
<1>2. ASSUME NEW n \in 0 .. k + 1
      PROVE  g[n] = IF n = 0 THEN w ELSE Swept(g[n - 1], Order[n])
  BY <1>1
<1>3. g = [n \in 0 .. k + 1 |-> IF n = 0 THEN w ELSE Swept(g[n - 1], Order[n])]
  BY <1>2
<1> QED BY <1>3 DEF SweepOf

LEMMA SweepExists ==
  ASSUME NEW w, NEW k \in Nat
  PROVE  \E f : SweepOf(f, w, k)
<1> DEFINE T == {n \in Nat : ~\E f : SweepOf(f, w, n)}
<1> SUFFICES ASSUME k \in T PROVE FALSE
  OBVIOUS
<1>1. PICK n \in T : \A m \in T : n <= m
  <2>1. T \subseteq Nat /\ T # {}
    OBVIOUS
  <2> HIDE DEF T
  <2> QED BY <2>1, LeastNumber
<1>2. CASE n = 0
  <2>1. PICK f : f = [m \in 0 .. 0 |-> w]
    OBVIOUS
  <2>2. f = [m \in 0 .. 0 |-> IF m = 0 THEN w ELSE Swept(f[m - 1], Order[m])]
    BY <2>1
  <2>3. SweepOf(f, w, 0)
    BY <2>2 DEF SweepOf
  <2> QED BY <1>1, <1>2, <2>3
<1>3. CASE n # 0
  <2>1. n - 1 \in Nat /\ n - 1 \notin T
    BY <1>1, <1>3
  <2>2. PICK f : SweepOf(f, w, n - 1)
    BY <2>1
  <2>3. \E g : SweepOf(g, w, n - 1 + 1)
    BY <2>1, <2>2, SweepExtends
  <2> QED BY <1>1, <2>3
<1> QED BY <1>2, <1>3

LEMMA WithoutStaleSound ==
  ASSUME NEW w, Sound(w), OpenFits
  PROVE  Sound(WithoutStale(w))
<1>1. Len(Order) \in Nat
  BY NamesAssumption
<1>2. PICK f : SweepOf(f, w, Len(Order)) /\ WithoutStale(w) = f[Len(Order)]
  <2>1. \E f : SweepOf(f, w, Len(Order))
    BY <1>1, SweepExists
  <2> DEFINE h == CHOOSE f : f = [n \in 0 .. Len(Order) |->
                                   IF n = 0 THEN w ELSE Swept(f[n - 1], Order[n])]
  <2>2. SweepOf(h, w, Len(Order))
    BY <2>1 DEF SweepOf
  <2>3. WithoutStale(w) = h[Len(Order)]
    BY DEF WithoutStale
  <2> QED BY <2>2, <2>3
<1> DEFINE T == {n \in 0 .. Len(Order) : ~Sound(f[n])}
<1>3. T = {}
  <2> SUFFICES ASSUME T # {} PROVE FALSE
    OBVIOUS
  <2>1. PICK n \in T : \A m \in T : n <= m
    <3>1. T \subseteq Nat
      BY <1>1
    <3> HIDE DEF T
    <3> QED BY <3>1, LeastNumber
  <2>2. f = [m \in 0 .. Len(Order) |-> IF m = 0 THEN w ELSE Swept(f[m - 1], Order[m])]
    BY <1>2 DEF SweepOf
  <2>3. f[0] = w /\ \A m \in 1 .. Len(Order) : f[m] = Swept(f[m - 1], Order[m])
    <3> HIDE DEF T
    <3> QED BY <1>1, <2>2
  <2>4. n # 0
    BY <2>1, <2>3
  <2>5. n - 1 \in 0 .. Len(Order) /\ n - 1 \notin T /\ n \in 1 .. Len(Order)
    BY <1>1, <2>1, <2>4
  <2>6. Sound(Swept(f[n - 1], Order[n]))
    BY <2>5, SweptSound
  <2> QED BY <2>1, <2>3, <2>5, <2>6
<1> QED BY <1>1, <1>2, <1>3
PlacementOf(f, v, refused, k) ==
  f = [n \in 0 .. k |-> IF n = 0 THEN v
                        ELSE Placed(f[n - 1], Order[n], refused)]

LEMMA PlacementExtends ==
  ASSUME NEW v, NEW refused, NEW k \in Nat, NEW f, PlacementOf(f, v, refused, k)
  PROVE  \E g : PlacementOf(g, v, refused, k + 1)
<1> DEFINE g == [n \in 0 .. k + 1 |->
                   IF n = k + 1 THEN Placed(f[k], Order[k + 1], refused) ELSE f[n]]
<1>1. f[0] = v /\ \A n \in 1 .. k : f[n] = Placed(f[n - 1], Order[n], refused)
  <2>1. f = [n \in 0 .. k |-> IF n = 0 THEN v ELSE Placed(f[n - 1], Order[n], refused)]
    BY DEF PlacementOf
  <2> HIDE DEF g
  <2> QED BY <2>1
<1>2. ASSUME NEW n \in 0 .. k + 1
      PROVE  g[n] = IF n = 0 THEN v ELSE Placed(g[n - 1], Order[n], refused)
  BY <1>1
<1>3. g = [n \in 0 .. k + 1 |-> IF n = 0 THEN v ELSE Placed(g[n - 1], Order[n], refused)]
  BY <1>2
<1> QED BY <1>3 DEF PlacementOf

LEMMA PlacementExists ==
  ASSUME NEW v, NEW refused, NEW k \in Nat
  PROVE  \E f : PlacementOf(f, v, refused, k)
<1> DEFINE T == {n \in Nat : ~\E f : PlacementOf(f, v, refused, n)}
<1> SUFFICES ASSUME k \in T PROVE FALSE
  OBVIOUS
<1>1. PICK n \in T : \A m \in T : n <= m
  <2>1. T \subseteq Nat /\ T # {}
    OBVIOUS
  <2> HIDE DEF T
  <2> QED BY <2>1, LeastNumber
<1>2. CASE n = 0
  <2>1. PICK f : f = [m \in 0 .. 0 |-> v]
    OBVIOUS
  <2>2. f = [m \in 0 .. 0 |-> IF m = 0 THEN v
                              ELSE Placed(f[m - 1], Order[m], refused)]
    BY <2>1
  <2>3. PlacementOf(f, v, refused, 0)
    BY <2>2 DEF PlacementOf
  <2> QED BY <1>1, <1>2, <2>3
<1>3. CASE n # 0
  <2>1. n - 1 \in Nat /\ n - 1 \notin T
    BY <1>1, <1>3
  <2>2. PICK f : PlacementOf(f, v, refused, n - 1)
    BY <2>1
  <2>3. \E g : PlacementOf(g, v, refused, n - 1 + 1)
    BY <2>1, <2>2, PlacementExtends
  <2> QED BY <1>1, <2>3
<1> QED BY <1>2, <1>3

(* synchronize keeps the world in order, however far it gets.              *)
LEMMA SynchronizedSound ==
  ASSUME NEW w, Sound(w), OpenFits, StaticsInv, NEW refused
  PROVE  Sound(Synchronized(w, refused).world)
<1>1. Len(Order) \in Nat /\ \A n \in 1 .. Len(Order) : Order[n] \in Names
  BY NamesAssumption
<1> PICK v : v = WithoutStale(w)
  OBVIOUS
<1>0. PICK a : a = [world |-> v, failed |-> FALSE]
  OBVIOUS
<1>2. PICK f : PlacementOf(f, a, refused, Len(Order))
               /\ Synchronized(w, refused) = f[Len(Order)]
  <2>1. \E f : PlacementOf(f, a, refused, Len(Order))
    BY <1>1, PlacementExists
  <2> DEFINE h == CHOOSE f : f = [n \in 0 .. Len(Order) |->
                                   IF n = 0 THEN a
                                   ELSE Placed(f[n - 1], Order[n], refused)]
  <2>2. PlacementOf(h, a, refused, Len(Order))
    BY <2>1 DEF PlacementOf
  <2>3. Synchronized(w, refused) = h[Len(Order)]
    BY <1>0 DEF Synchronized
  <2> QED BY <2>2, <2>3
<1> DEFINE T == {n \in 0 .. Len(Order) : ~Sound(f[n].world)}
<1>3. T = {}
  <2> SUFFICES ASSUME T # {} PROVE FALSE
    OBVIOUS
  <2>1. PICK n \in T : \A m \in T : n <= m
    <3>1. T \subseteq Nat
      BY <1>1
    <3> HIDE DEF T
    <3> QED BY <3>1, LeastNumber
  <2>2. f = [m \in 0 .. Len(Order) |->
              IF m = 0 THEN a
              ELSE Placed(f[m - 1], Order[m], refused)]
    BY <1>2 DEF PlacementOf
  <2>3. f[0] = a
        /\ \A m \in 1 .. Len(Order) : f[m] = Placed(f[m - 1], Order[m], refused)
    <3> HIDE DEF T
    <3> QED BY <1>1, <2>2
  <2>4. n # 0
    <3>1. Sound(f[0].world)
      BY <1>0, <2>3, WithoutStaleSound
    <3> QED BY <2>1, <3>1
  <2>5. n - 1 \in 0 .. Len(Order) /\ n - 1 \notin T /\ n \in 1 .. Len(Order)
    BY <1>1, <2>1, <2>4
  <2>6. PICK b : b = f[n - 1]
    OBVIOUS
  <2>7. Sound(b.world) /\ Order[n] \in Names
    BY <1>1, <2>5, <2>6
  <2>8. Sound(Placed(b, Order[n], refused).world)
    BY <2>7, PlacedSound
  <2> QED BY <2>1, <2>3, <2>5, <2>6, <2>8
<1> QED BY <1>1, <1>2, <1>3

-----------------------------------------------------------------------------
(* Before the solver runs, told bodies glide and the orders are spent.     *)
LEMMA SteeredSlots ==
  ASSUME NEW w, IsWorld(w)
  PROVE  LET r == Steered(w) IN
         /\ IsWorld(r) /\ r.pairs = w.pairs /\ r.exits = w.exits /\ r.overflow = w.overflow
         /\ DOMAIN r.slots = DOMAIN w.slots
         /\ \A i \in DOMAIN w.slots :
              /\ r.slots[i].generation = w.slots[i].generation
              /\ r.slots[i].name = w.slots[i].name
              /\ r.slots[i].kind = w.slots[i].kind
              /\ r.slots[i].canonical = w.slots[i].canonical
              /\ i \in Applications(w) /\ w.slots[i].kind \in {"sensor", "kinematic"}
                   => ~r.slots[i].target /\ r.slots[i].gliding = w.slots[i].target
              /\ ~(i \in Applications(w) /\ w.slots[i].kind \in {"sensor", "kinematic"})
                   => r.slots[i] = w.slots[i]
<1> PICK r : r = Steered(w)
  OBVIOUS
<1>1. /\ Len(w.slots) \in Nat /\ DOMAIN w.slots = 1 .. Len(w.slots)
      /\ \A i \in DOMAIN w.slots : w.slots[i] \in Slot
  BY SlotFacts
<1>2. PICK s : s = [i \in DOMAIN w.slots |->
                     IF i \in Applications(w) /\ w.slots[i].kind \in {"sensor", "kinematic"}
                     THEN [w.slots[i] EXCEPT !.gliding = w.slots[i].target, !.target = FALSE]
                     ELSE w.slots[i]]
  OBVIOUS
<1>3. r = [w EXCEPT !.slots = s]
  BY <1>2 DEF Steered
<1>4. r = [slots |-> s, pairs |-> w.pairs, exits |-> w.exits, overflow |-> w.overflow]
  BY <1>3 DEF IsWorld
<1>5. ASSUME NEW o \in Slot
      PROVE  LET n == [o EXCEPT !.gliding = o.target, !.target = FALSE] IN
             /\ n \in Slot /\ n.generation = o.generation /\ n.name = o.name /\ n.kind = o.kind
             /\ n.canonical = o.canonical /\ ~n.target /\ n.gliding = o.target
  <2>1. PICK n : n = [o EXCEPT !.gliding = o.target, !.target = FALSE]
    OBVIOUS
  <2>2. n = [generation |-> o.generation, name |-> o.name, kind |-> o.kind, shape |-> o.shape,
             canonical |-> o.canonical, target |-> FALSE, gliding |-> o.target]
    BY <2>1 DEF Slot
  <2> QED BY <2>1, <2>2 DEF Slot
<1>6. ASSUME NEW i \in DOMAIN w.slots
      PROVE  /\ s[i] \in Slot
             /\ s[i].generation = w.slots[i].generation
             /\ s[i].name = w.slots[i].name
             /\ s[i].kind = w.slots[i].kind
             /\ s[i].canonical = w.slots[i].canonical
             /\ i \in Applications(w) /\ w.slots[i].kind \in {"sensor", "kinematic"}
                  => ~s[i].target /\ s[i].gliding = w.slots[i].target
             /\ ~(i \in Applications(w) /\ w.slots[i].kind \in {"sensor", "kinematic"})
                  => s[i] = w.slots[i]
  <2>1. CASE i \in Applications(w) /\ w.slots[i].kind \in {"sensor", "kinematic"}
    <3>1. s[i] = [w.slots[i] EXCEPT !.gliding = w.slots[i].target, !.target = FALSE]
      BY <1>2, <2>1
    <3>2. PICK o \in Slot : o = w.slots[i]
      BY <1>1
    <3>3. PICK n : n = [o EXCEPT !.gliding = o.target, !.target = FALSE]
      OBVIOUS
    <3>4. /\ n \in Slot /\ n.generation = o.generation /\ n.name = o.name /\ n.kind = o.kind
          /\ n.canonical = o.canonical /\ ~n.target /\ n.gliding = o.target
      BY <1>5, <3>3
    <3>5. s[i] = n
      BY <3>1, <3>2, <3>3
    <3> QED BY <2>1, <3>2, <3>4, <3>5
  <2>2. CASE ~(i \in Applications(w) /\ w.slots[i].kind \in {"sensor", "kinematic"})
    <3>1. s[i] = w.slots[i]
      BY <1>2, <2>2
    <3> QED BY <1>1, <2>2, <3>1
  <2> QED BY <2>1, <2>2
<1>7. s \in Seq(Slot) /\ DOMAIN s = DOMAIN w.slots
  <2>1. s \in [1 .. Len(w.slots) -> Slot]
    BY <1>1, <1>2, <1>6
  <2> QED BY <1>1, <2>1
<1>8. IsWorld(r)
  BY <1>4, <1>7 DEF IsWorld
<1> QED BY <1>4, <1>6, <1>7, <1>8

LEMMA SteeredGood ==
  ASSUME NEW w, Good(w)
  PROVE  LET r == Steered(w) IN
         /\ IsWorld(r) /\ Listening(r)
         /\ \A i, j \in Occupied(r) : r.slots[i].name = r.slots[j].name => i = j
         /\ \A i \in Applications(r) :
              /\ ~r.slots[i].target
              /\ r.slots[i].kind = "kinematic" =>
                   (r.slots[i].gliding <=> HandleAt(r, i) \in told)
<1> PICK r : r = Steered(w)
  OBVIOUS
<1>1. /\ IsWorld(r) /\ r.pairs = w.pairs /\ r.exits = w.exits /\ r.overflow = w.overflow
      /\ DOMAIN r.slots = DOMAIN w.slots
      /\ \A i \in DOMAIN w.slots :
           /\ r.slots[i].generation = w.slots[i].generation
           /\ r.slots[i].name = w.slots[i].name
           /\ r.slots[i].kind = w.slots[i].kind
           /\ r.slots[i].canonical = w.slots[i].canonical
           /\ i \in Applications(w) /\ w.slots[i].kind \in {"sensor", "kinematic"}
                => ~r.slots[i].target /\ r.slots[i].gliding = w.slots[i].target
           /\ ~(i \in Applications(w) /\ w.slots[i].kind \in {"sensor", "kinematic"})
                => r.slots[i] = w.slots[i]
  BY SteeredSlots DEF Good
<1>2. Occupied(r) = Occupied(w) /\ Applications(r) = Applications(w)
      /\ Applications(w) \subseteq DOMAIN w.slots /\ Occupied(w) \subseteq DOMAIN w.slots
  BY <1>1 DEF Occupied, Applications, Canonical
<1>3. \A i \in DOMAIN w.slots : HandleAt(r, i) = HandleAt(w, i)
  BY <1>1 DEF HandleAt
<1>4. HandlesOf(r) = HandlesOf(w) /\ \A h : Stale(w, h) => Stale(r, h)
  BY <1>1, <1>2, <1>3 DEF HandlesOf, Stale
<1>5. Listening(r)
  <2>1. /\ \A p \in w.pairs : p \subseteq HandlesOf(w)
        /\ \A e \in w.exits : e.phase = "exit" /\ \E h \in e.pair : Stale(w, h)
        /\ \A e, f \in w.exits : e.pair = f.pair => e = f
        /\ open = w.pairs \cup {e.pair : e \in w.exits}
        /\ ~w.overflow
    BY DEF Good, Listening
  <2>2. \A e \in r.exits : e.phase = "exit" /\ \E h \in e.pair : Stale(r, h)
    BY <1>1, <1>4, <2>1
  <2> QED BY <1>1, <1>4, <2>1, <2>2 DEF Listening
<1>6. \A i, j \in Occupied(r) : r.slots[i].name = r.slots[j].name => i = j
  BY <1>1, <1>2 DEF Good, Steerable
<1>7. \A i \in Applications(w) :
        /\ w.slots[i].target <=> HandleAt(w, i) \in told
        /\ w.slots[i].target => w.slots[i].kind \in {"sensor", "kinematic"}
  BY DEF Good, Steerable
<1>8. \A i \in Applications(r) :
        /\ ~r.slots[i].target
        /\ r.slots[i].kind = "kinematic" => (r.slots[i].gliding <=> HandleAt(r, i) \in told)
  BY <1>1, <1>2, <1>3, <1>7
<1> QED BY <1>1, <1>5, <1>6, <1>8
-----------------------------------------------------------------------------
RigidInv == tick \in Nat /\ updates = tick /\ StaticsInv /\ OpenFits /\ Good(state)

(* A call that leaves owner, open and told alone keeps what is said of w.  *)
LEMMA GoodCarries ==
  ASSUME NEW w, Good(w), OpenFits, state' = w, UNCHANGED <<owner, open, told>>
  PROVE  Good(state)' /\ OpenFits'
<1>1. IsWorld(state)'
  BY DEF Good, IsWorld
<1>2. Listening(state)'
  BY DEF Good, Listening, HandlesOf, HandleAt, Occupied, Stale
<1>3. Steerable(state)'
  BY DEF Good, Steerable, HandleAt, Occupied, Applications, Canonical
<1> QED BY <1>1, <1>2, <1>3 DEF Good, OpenFits

LEMMA EmptyGood ==
  ASSUME state' = EmptyWorld, open' = {}, told' = {}
  PROVE  Good(state)' /\ OpenFits'
<1>1. state' = [slots |-> <<>>, pairs |-> {}, exits |-> {}, overflow |-> FALSE] /\ <<>> \in Seq(Slot)
  BY DEF EmptyWorld
<1>2. IsWorld(state)' /\ Occupied(state)' = {}
  BY <1>1 DEF IsWorld, Occupied
<1>3. Listening(state)'
  BY <1>1 DEF Listening
<1>4. Steerable(state)'
  BY <1>2 DEF Steerable, Applications
<1>5. OpenFits'
  BY FS_EmptySet, LimitsAssumption DEF OpenFits
<1> QED BY <1>2, <1>3, <1>4, <1>5 DEF Good

LEMMA StateSound ==
  ASSUME Good(state), ~Impossible(state)
  PROVE  Sound(state)
BY DEF Impossible, Sound, NoneShadowed

LEMMA RigidInit == Init => RigidInv
<1> SUFFICES ASSUME Init PROVE RigidInv
  OBVIOUS
<1>1. /\ state = [slots |-> <<>>, pairs |-> {}, exits |-> {}, overflow |-> FALSE]
      /\ open = {} /\ told = {} /\ <<>> \in Seq(Slot)
  BY DEF Init, EmptyWorld
<1>2. IsWorld(state) /\ Occupied(state) = {}
  BY <1>1 DEF IsWorld, Occupied
<1>3. Listening(state)
  BY <1>1 DEF Listening
<1>4. Steerable(state)
  BY <1>1, <1>2 DEF Steerable, Applications
<1>5. OpenFits
  BY <1>1, FS_EmptySet, LimitsAssumption DEF OpenFits
<1>6. StaticsInv
  BY DEF Init, StaticsInv
<1> QED BY <1>2, <1>3, <1>4, <1>5, <1>6 DEF RigidInv, Good, Init

LEMMA RemoveBodyGood ==
  ASSUME RigidInv, NEW i \in DOMAIN state.slots, RemoveBody(i)
  PROVE  RigidInv'
<1> PICK w : w = state
  OBVIOUS
<1>0. i \in Occupied(w) /\ i \in Applications(w)
      /\ Applications(w) \subseteq Occupied(w) /\ Occupied(w) \subseteq DOMAIN w.slots
  BY DEF RemoveBody, Applications, Occupied
<1>1. PICK r : r = Removed(w, i, "removed")
  OBVIOUS
<1>2. state' = r /\ told' = told \ {HandleAt(w, i)}
      /\ UNCHANGED <<owner, tick, statics, open, updates>>
  BY <1>1 DEF RemoveBody
<1>3. IsWorld(w) /\ Listening(w) /\ Steerable(w) /\ OpenFits
  BY DEF RigidInv, Good
<1>4. /\ IsWorld(r) /\ Occupied(r) = Occupied(w) \ {i}
      /\ \A j \in DOMAIN w.slots \ {i} : r.slots[j] = w.slots[j]
  BY <1>0, <1>1, <1>3, RemovedWorld
<1>5. Listening(r)
  BY <1>0, <1>1, <1>3, RemovedListening
<1>6. Listening(state)' /\ IsWorld(state)'
  <2>1. IsWorld(state)'
    BY <1>2, <1>4 DEF IsWorld
  <2>2. Listening(state)'
    BY <1>2, <1>5 DEF Listening, HandlesOf, HandleAt, Occupied, Stale
  <2> QED BY <2>1, <2>2
<1>7. Applications(r) = Applications(w) \ {i}
  BY <1>0, <1>4 DEF Applications, Canonical
<1>8. \A j \in Occupied(r) :
        r.slots[j] = w.slots[j] /\ HandleAt(r, j) = HandleAt(w, j) /\ HandleAt(w, j) # HandleAt(w, i)
  BY <1>0, <1>4 DEF HandleAt
<1>9. \A j, k \in Occupied(r) : r.slots[j].name = r.slots[k].name => j = k
  BY <1>3, <1>4, <1>8 DEF Steerable
<1>10. \A j \in Applications(r) :
         /\ r.slots[j].target <=> HandleAt(r, j) \in told \ {HandleAt(w, i)}
         /\ r.slots[j].target => r.slots[j].kind \in {"sensor", "kinematic"}
  BY <1>0, <1>3, <1>4, <1>7, <1>8 DEF Steerable
<1>11. told \ {HandleAt(w, i)} \subseteq {HandleAt(r, j) : j \in Applications(r)}
  <2>1. told \subseteq {HandleAt(w, j) : j \in Applications(w)}
    BY <1>3 DEF Steerable
  <2>2. \A j \in Applications(w) \ {i} : HandleAt(r, j) = HandleAt(w, j)
    BY <1>0, <1>4, <1>8
  <2> QED BY <1>7, <2>1, <2>2
<1>12. Steerable(state)'
  <2>1. HandleAt(state, 0)' = HandleAt(state, 0)' /\ \A j : (HandleAt(state, j))' = HandleAt(r, j)
    BY <1>2 DEF HandleAt
  <2> QED BY <1>2, <1>9, <1>10, <1>11 DEF Steerable, HandleAt, Occupied, Applications, Canonical
<1> QED BY <1>2, <1>6, <1>12 DEF RigidInv, Good, OpenFits, StaticsInv

LEMMA MoveKinematicGood ==
  ASSUME RigidInv, NEW i \in DOMAIN state.slots, MoveKinematic(i)
  PROVE  RigidInv'
<1> PICK w : w = state
  OBVIOUS
<1>0. i \in Applications(w) /\ i \in DOMAIN w.slots /\ w.slots[i].kind \in {"sensor", "kinematic"}
      /\ Applications(w) \subseteq DOMAIN w.slots
  BY DEF MoveKinematic, Applications, Occupied
<1>1. IsWorld(w) /\ Listening(w) /\ Steerable(w) /\ OpenFits
  BY DEF RigidInv, Good
<1>2. PICK o \in Slot : o = w.slots[i]
  BY <1>0, <1>1, SlotFacts
<1>3. PICK n : n = [o EXCEPT !.target = TRUE, !.gliding = TRUE]
  OBVIOUS
<1>4. n = [generation |-> o.generation, name |-> o.name, kind |-> o.kind, shape |-> o.shape,
           canonical |-> o.canonical, target |-> TRUE, gliding |-> TRUE]
  BY <1>3 DEF Slot
<1>5. /\ n \in Slot /\ n.generation = o.generation /\ n.name = o.name /\ n.kind = o.kind
      /\ n.canonical = o.canonical /\ n.target = TRUE
  BY <1>4 DEF Slot
<1>6. PICK s : s = [w.slots EXCEPT ![i] = n]
  OBVIOUS
<1>7. s \in Seq(Slot) /\ DOMAIN s = DOMAIN w.slots /\ s[i] = n
      /\ \A j \in DOMAIN w.slots \ {i} : s[j] = w.slots[j]
  BY <1>0, <1>1, <1>5, <1>6 DEF IsWorld
<1>8. PICK r : r = [w EXCEPT !.slots[i].target = TRUE, !.slots[i].gliding = TRUE]
  OBVIOUS
<1>9. r = [slots |-> s, pairs |-> w.pairs, exits |-> w.exits, overflow |-> w.overflow]
  <2>1. r.slots = s /\ r = [w EXCEPT !.slots = s]
    BY <1>0, <1>1, <1>2, <1>3, <1>6, <1>8 DEF IsWorld
  <2> QED BY <1>1, <2>1 DEF IsWorld
<1>10. state' = r /\ told' = told \cup {HandleAt(w, i)}
       /\ UNCHANGED <<owner, tick, statics, open, updates>>
  BY <1>8 DEF MoveKinematic
<1>11. DOMAIN r.slots = DOMAIN w.slots /\ r.slots[i] = n
       /\ \A j \in DOMAIN w.slots \ {i} : r.slots[j] = w.slots[j]
  BY <1>7, <1>9
<1>12. \A j \in DOMAIN w.slots :
         /\ r.slots[j].generation = w.slots[j].generation /\ r.slots[j].name = w.slots[j].name
         /\ r.slots[j].canonical = w.slots[j].canonical /\ r.slots[j].kind = w.slots[j].kind
  BY <1>2, <1>5, <1>11
<1>13. Occupied(r) = Occupied(w) /\ Applications(r) = Applications(w)
  <2>1. Occupied(r) = Occupied(w)
    BY <1>11, <1>12 DEF Occupied
  <2>2. Canonical(r) = Canonical(w)
    BY <1>12, <2>1 DEF Canonical, Occupied
  <2> QED BY <2>1, <2>2 DEF Applications
<1>14. /\ \A j \in DOMAIN w.slots : HandleAt(r, j) = HandleAt(w, j)
       /\ HandlesOf(r) = HandlesOf(w) /\ \A h : Stale(w, h) => Stale(r, h)
  <2>1. \A j \in DOMAIN w.slots : HandleAt(r, j) = HandleAt(w, j)
    BY <1>12 DEF HandleAt
  <2>2. HandlesOf(r) = HandlesOf(w)
    <3>1. \A j \in Occupied(w) : HandleAt(r, j) = HandleAt(w, j)
      BY <2>1 DEF Occupied
    <3> QED BY <1>13, <3>1 DEF HandlesOf
  <2>3. \A h : Stale(w, h) => Stale(r, h)
    BY <1>11, <1>12 DEF Stale
  <2> QED BY <2>1, <2>2, <2>3
<1>15. Listening(r)
  <2>1. /\ \A p \in w.pairs : p \subseteq HandlesOf(w)
        /\ \A e \in w.exits : e.phase = "exit" /\ \E h \in e.pair : Stale(w, h)
        /\ \A e, f \in w.exits : e.pair = f.pair => e = f
        /\ open = w.pairs \cup {e.pair : e \in w.exits}
        /\ ~w.overflow
    BY <1>1 DEF Listening
  <2>2. \A e \in r.exits : e.phase = "exit" /\ \E h \in e.pair : Stale(r, h)
    BY <1>9, <1>14, <2>1
  <2>3. r.pairs = w.pairs /\ r.exits = w.exits /\ r.overflow = w.overflow
    BY <1>9
  <2> QED BY <1>14, <2>1, <2>2, <2>3 DEF Listening
<1>16. Listening(state)' /\ IsWorld(state)'
  <2>1. IsWorld(state)'
    BY <1>7, <1>9, <1>10 DEF IsWorld
  <2>2. Listening(state)'
    BY <1>10, <1>15 DEF Listening, HandlesOf, HandleAt, Occupied, Stale
  <2> QED BY <2>1, <2>2
<1>17. \A j, k \in Occupied(r) : r.slots[j].name = r.slots[k].name => j = k
  <2>1. \A j \in Occupied(w) : r.slots[j].name = w.slots[j].name
    BY <1>12 DEF Occupied
  <2> QED BY <1>1, <1>13, <2>1 DEF Steerable
<1>18. \A j \in Applications(r) :
         /\ r.slots[j].target <=> HandleAt(r, j) \in told \cup {HandleAt(w, i)}
         /\ r.slots[j].target => r.slots[j].kind \in {"sensor", "kinematic"}
  <2> SUFFICES ASSUME NEW j \in Applications(w)
               PROVE  /\ r.slots[j].target <=> HandleAt(w, j) \in told \cup {HandleAt(w, i)}
                      /\ r.slots[j].target => r.slots[j].kind \in {"sensor", "kinematic"}
    BY <1>0, <1>13, <1>14
  <2>1. CASE j = i
    BY <1>0, <1>2, <1>5, <1>11, <2>1
  <2>2. CASE j # i
    <3>1. HandleAt(w, j) # HandleAt(w, i)
      BY <2>2, HandleParts
    <3>2. r.slots[j] = w.slots[j]
      BY <1>0, <1>11, <2>2
    <3>3. /\ w.slots[j].target <=> HandleAt(w, j) \in told
          /\ w.slots[j].target => w.slots[j].kind \in {"sensor", "kinematic"}
      BY <1>1 DEF Steerable
    <3> QED BY <3>1, <3>2, <3>3
  <2> QED BY <2>1, <2>2
<1>19. told \cup {HandleAt(w, i)} \subseteq {HandleAt(r, j) : j \in Applications(r)}
  <2>1. told \subseteq {HandleAt(w, j) : j \in Applications(w)}
    BY <1>1 DEF Steerable
  <2>2. \A j \in Applications(w) : HandleAt(r, j) = HandleAt(w, j)
    BY <1>0, <1>14
  <2> QED BY <1>0, <1>13, <2>1, <2>2
<1>20. Steerable(state)'
  BY <1>10, <1>17, <1>18, <1>19 DEF Steerable, HandleAt, Occupied, Applications, Canonical
<1> QED BY <1>10, <1>16, <1>20 DEF RigidInv, Good, OpenFits, StaticsInv
-----------------------------------------------------------------------------
LEMMA LiveHandles ==
  ASSUME NEW w, IsWorld(w)
  PROVE  \A h \in HandlesOf(w) : ~Stale(w, h)
<1> SUFFICES ASSUME NEW h \in HandlesOf(w) PROVE ~Stale(w, h)
  OBVIOUS
<1>1. PICK j \in Occupied(w) : h = HandleAt(w, j)
  BY DEF HandlesOf
<1>2. w.slots[j].generation \in Nat
  BY SlotFacts
<1> QED BY <1>1, <1>2, HandleParts DEF Stale

LEMMA SensorPairsFinite ==
  ASSUME NEW w, IsWorld(w), NEW touching, touching \subseteq SensorPairs(w)
  PROVE  IsFiniteSet(touching) /\ \A p \in touching : p \subseteq HandlesOf(w)
<1>1. IsFiniteSet(Occupied(w))
  <2>1. Len(w.slots) \in Nat /\ Occupied(w) \subseteq 1 .. Len(w.slots)
    BY SlotFacts
  <2>2. IsFiniteSet(1 .. Len(w.slots))
    BY <2>1, FS_Interval
  <2> QED BY <2>1, <2>2, FS_Subset
<1>2. IsFiniteSet(HandlesOf(w))
  <2> DEFINE f == [i \in Occupied(w) |-> HandleAt(w, i)]
  <2>1. f \in Surjection(Occupied(w), HandlesOf(w))
    BY DEF Surjection, HandlesOf
  <2> QED BY <1>1, <2>1, FS_Surjection
<1>3. \A p \in SensorPairs(w) : p \subseteq HandlesOf(w)
  BY DEF SensorPairs
<1>4. touching \subseteq SUBSET HandlesOf(w)
  BY <1>3
<1>5. IsFiniteSet(SUBSET HandlesOf(w))
  BY <1>2, FS_SUBSET
<1>6. IsFiniteSet(touching)
  BY <1>4, <1>5, FS_Subset
<1> QED BY <1>3, <1>6

(* What extract returns, told to a listener of everything before.          *)
LEMMA EventsOf ==
  ASSUME NEW w, IsWorld(w), Listening(w), NEW touching,
         \A p \in touching : p \subseteq HandlesOf(w)
  PROVE  LET result == w.exits \cup Diff(w, touching) IN
         /\ \A e \in result : (e.phase = "enter") <=> (e.pair \notin open)
         /\ \A e, f \in result : e.pair = f.pair => e = f
         /\ (open \ {e.pair : e \in {x \in result : x.phase = "exit"}})
              \cup {e.pair : e \in {x \in result : x.phase = "enter"}} = touching
<1> DEFINE result == w.exits \cup Diff(w, touching)
           X == {e.pair : e \in w.exits}
<1>1. /\ \A p \in w.pairs : p \subseteq HandlesOf(w)
      /\ \A e \in w.exits : e.phase = "exit" /\ \E h \in e.pair : Stale(w, h)
      /\ \A e, f \in w.exits : e.pair = f.pair => e = f
      /\ open = w.pairs \cup X
  BY DEF Listening
<1>2. \A x \in X : x \notin w.pairs /\ x \notin touching
  BY <1>1, LiveHandles
<1>3. \A e \in Diff(w, touching) :
        \/ e = Event(e.pair, "enter", "none") /\ e.phase = "enter" /\ e.pair \in touching \ w.pairs
        \/ e = Event(e.pair, "stay", "none") /\ e.phase = "stay" /\ e.pair \in touching \cap w.pairs
        \/ e = Event(e.pair, "exit", "separated") /\ e.phase = "exit" /\ e.pair \in w.pairs \ touching
  BY DEF Diff, Event
<1>4. \A e \in w.exits : e.phase = "exit" /\ e.pair \in X
  BY <1>1
<1>5. /\ \A p \in touching \ w.pairs : \E e \in Diff(w, touching) : e.pair = p /\ e.phase = "enter"
      /\ \A p \in w.pairs \ touching : \E e \in Diff(w, touching) : e.pair = p /\ e.phase = "exit"
  <2>1. \A p, phase, reason : Event(p, phase, reason).pair = p /\ Event(p, phase, reason).phase = phase
    BY DEF Event
  <2>2. /\ \A p \in touching \ w.pairs : Event(p, "enter", "none") \in Diff(w, touching)
        /\ \A p \in w.pairs \ touching : Event(p, "exit", "separated") \in Diff(w, touching)
    BY DEF Diff
  <2> QED BY <2>1, <2>2
<1>6. \A e \in result : (e.phase = "enter") <=> (e.pair \notin open)
  <2>1. \A e \in w.exits : e.phase # "enter" /\ e.pair \in open
    BY <1>1, <1>4
  <2>2. \A e \in Diff(w, touching) : (e.phase = "enter") <=> (e.pair \notin open)
    BY <1>1, <1>2, <1>3
  <2> QED BY <2>1, <2>2
<1>7. \A e, f \in result : e.pair = f.pair => e = f
  <2>1. \A e, f \in Diff(w, touching) : e.pair = f.pair => e = f
    BY <1>3
  <2>2. \A e \in Diff(w, touching), f \in w.exits : e.pair # f.pair
    BY <1>2, <1>3, <1>4
  <2>3. \A e, f \in w.exits : e.pair = f.pair => e = f
    BY <1>1
  <2> QED BY <2>1, <2>2, <2>3
<1>8. {e.pair : e \in {x \in result : x.phase = "exit"}} = X \cup (w.pairs \ touching)
  <2>1. \A e \in result : e.phase = "exit" => e.pair \in X \cup (w.pairs \ touching)
    BY <1>3, <1>4
  <2>2. \A p \in X : \E e \in result : e.phase = "exit" /\ e.pair = p
    BY <1>4
  <2>3. \A p \in w.pairs \ touching : \E e \in result : e.phase = "exit" /\ e.pair = p
    BY <1>5
  <2> HIDE DEF result, X
  <2> QED BY <2>1, <2>2, <2>3
<1>9. {e.pair : e \in {x \in result : x.phase = "enter"}} = touching \ w.pairs
  <2>1. \A e \in result : e.phase = "enter" => e.pair \in touching \ w.pairs
    BY <1>3, <1>4
  <2>2. \A p \in touching \ w.pairs : \E e \in result : e.phase = "enter" /\ e.pair = p
    BY <1>5
  <2> HIDE DEF result
  <2> QED BY <2>1, <2>2
<1>10. (open \ (X \cup (w.pairs \ touching))) \cup (touching \ w.pairs) = touching
  <2> HIDE DEF X
  <2> QED BY <1>1, <1>2
<1> QED BY <1>6, <1>7, <1>8, <1>9, <1>10

(* What one step may do to the events and to the kinematic bodies.         *)
Alternates ==
  /\ \A e \in events' : (e.phase = "enter") <=> (e.pair \notin open)
  /\ \A e, f \in events' : e.pair = f.pair => e = f
MovesWhenTold ==
  tick' > tick =>
    \A i \in Applications(state') : state'.slots[i].kind = "kinematic" =>
      (state'.slots[i].gliding <=> HandleAt(state', i) \in told)

LEMMA StepIsGood ==
  ASSUME RigidInv, NEW touching, NEW overflowed, NEW broken, Step(touching, overflowed, broken)
  PROVE  RigidInv' /\ Alternates /\ MovesWhenTold
<1> PICK y : y = Synchronized(state, {}).world
  OBVIOUS
<1> PICK w : w = Steered(y)
  OBVIOUS
<1>1. Good(y)
  <2>1. Sound(state)
    BY StateSound DEF RigidInv, Step
  <2>2. Sound(Synchronized(state, {}).world)
    BY <2>1, SynchronizedSound DEF RigidInv
  <2> QED BY <2>2 DEF Sound
<1>2. /\ IsWorld(w) /\ Listening(w)
      /\ \A i, j \in Occupied(w) : w.slots[i].name = w.slots[j].name => i = j
      /\ \A i \in Applications(w) :
           /\ ~w.slots[i].target
           /\ w.slots[i].kind = "kinematic" => (w.slots[i].gliding <=> HandleAt(w, i) \in told)
  BY <1>1, SteeredGood
<1>3. /\ touching \subseteq SensorPairs(w)
      /\ Cardinality(touching) > MaxContactEvents => overflowed
      /\ UNCHANGED statics
  BY DEF Step
<1>4. IsFiniteSet(touching) /\ \A p \in touching : p \subseteq HandlesOf(w)
  BY <1>2, <1>3, SensorPairsFinite
<1> PICK result : result = w.exits \cup Diff(w, touching)
  OBVIOUS
<1>5. /\ \A e \in result : (e.phase = "enter") <=> (e.pair \notin open)
      /\ \A e, f \in result : e.pair = f.pair => e = f
      /\ (open \ {e.pair : e \in {x \in result : x.phase = "exit"}})
           \cup {e.pair : e \in {x \in result : x.phase = "enter"}} = touching
  BY <1>2, <1>4, EventsOf
<1>6. CASE Abandoned /\ events' = {}
  <2>1. /\ tick' = 0 /\ updates' = 0 /\ state' = EmptyWorld /\ open' = {} /\ told' = {}
        /\ events' = {}
    BY <1>6 DEF Abandoned, Destroyed
  <2>2. Good(state)' /\ OpenFits'
    BY <2>1, EmptyGood
  <2> QED BY <1>3, <2>1, <2>2 DEF RigidInv, StaticsInv, Alternates, MovesWhenTold
<1>7. CASE /\ ~overflowed
           /\ state' = [w EXCEPT !.pairs = touching, !.exits = {}]
           /\ events' = result
           /\ open' = (open \ {e.pair : e \in {x \in result : x.phase = "exit"}})
                        \cup {e.pair : e \in {x \in result : x.phase = "enter"}}
           /\ tick' = tick + 1 /\ updates' = updates + 1 /\ told' = {}
           /\ UNCHANGED owner
  <2>1. PICK r : r = [w EXCEPT !.pairs = touching, !.exits = {}]
    OBVIOUS
  <2>2. r = [slots |-> w.slots, pairs |-> touching, exits |-> {}, overflow |-> w.overflow]
    BY <1>2, <2>1 DEF IsWorld
  <2>3. state' = r /\ open' = touching /\ told' = {} /\ owner' = owner
    BY <1>5, <1>7, <2>1
  <2>4. r.slots = w.slots /\ r.pairs = touching /\ r.exits = {} /\ ~r.overflow /\ IsWorld(r)
    BY <1>2, <2>2 DEF IsWorld, Listening
  <2>5. Occupied(r) = Occupied(w) /\ Applications(r) = Applications(w) /\ HandlesOf(r) = HandlesOf(w)
        /\ \A i : HandleAt(r, i) = HandleAt(w, i)
    BY <2>4 DEF Occupied, Applications, Canonical, HandlesOf, HandleAt
  <2>6. IsWorld(state)'
    BY <2>3, <2>4 DEF IsWorld
  <2>7. Listening(state)'
    <3>1. \A p \in touching : p \subseteq HandlesOf(r)
      BY <1>4, <2>5
    <3>2. HandlesOf(state)' = HandlesOf(r)
      BY <2>3 DEF HandlesOf, HandleAt, Occupied
    <3> QED BY <2>3, <2>4, <3>1, <3>2 DEF Listening
  <2>8. Steerable(state)'
    <3>1. Applications(state)' = Applications(r) /\ Occupied(state)' = Occupied(r)
      BY <2>3 DEF Applications, Canonical, Occupied
    <3> QED BY <1>2, <2>3, <2>4, <2>5, <3>1 DEF Steerable
  <2>9. OpenFits'
    <3>1. ~(Cardinality(touching) > MaxContactEvents)
      BY <1>3, <1>7
    <3>2. Cardinality(touching) \in Nat /\ MaxContactEvents \in Nat
      BY <1>4, FS_CardinalityType, LimitsAssumption
    <3> QED BY <1>4, <2>3, <3>1, <3>2 DEF OpenFits
  <2>10. tick' \in Nat /\ updates' = tick' /\ StaticsInv'
    BY <1>3, <1>7 DEF RigidInv, StaticsInv
  <2>11. Alternates
    BY <1>5, <1>7 DEF Alternates
  <2>12. MovesWhenTold
    <3>1. Applications(state') = Applications(w) /\ state'.slots = w.slots
          /\ \A i : HandleAt(state', i) = HandleAt(w, i)
      BY <2>3, <2>4, <2>5
    <3> QED BY <1>2, <3>1 DEF MovesWhenTold
  <2> QED BY <2>6, <2>7, <2>8, <2>9, <2>10, <2>11, <2>12 DEF RigidInv, Good
<1> QED BY <1>6, <1>7 DEF Step
LEMMA RigidNext ==
  ASSUME RigidInv, Next
  PROVE  RigidInv' /\ Alternates /\ MovesWhenTold
<1> USE DEF RigidInv
<1>0. tick \in Nat /\ updates = tick /\ StaticsInv /\ OpenFits /\ Good(state)
  OBVIOUS
<1>a. events' = {} => Alternates
  BY DEF Alternates
<1>b. tick' = tick => MovesWhenTold
  BY <1>0 DEF MovesWhenTold
<1>1. CASE Initialize
  <2>1. state' = EmptyWorld /\ open' = {} /\ told' = {} /\ events' = {}
        /\ tick' = 0 /\ updates' = 0 /\ UNCHANGED statics
    BY <1>1 DEF Initialize
  <2>2. Good(state)' /\ OpenFits'
    BY <2>1, EmptyGood
  <2>3. MovesWhenTold
    BY <1>0, <2>1 DEF MovesWhenTold
  <2> QED BY <1>0, <1>a, <2>1, <2>2, <2>3 DEF StaticsInv
<1>2. CASE Shutdown
  <2>1. state' = EmptyWorld /\ open' = {} /\ told' = {} /\ events' = {}
        /\ tick' = 0 /\ updates' = 0 /\ UNCHANGED statics
    BY <1>2 DEF Shutdown, Destroyed
  <2>2. Good(state)' /\ OpenFits'
    BY <2>1, EmptyGood
  <2>3. MovesWhenTold
    BY <1>0, <2>1 DEF MovesWhenTold
  <2> QED BY <1>0, <1>a, <2>1, <2>2, <2>3 DEF StaticsInv
<1>3. CASE ChangeStatics
  <2>1. state' = state /\ UNCHANGED <<owner, open, told, tick, updates>> /\ events' = {}
        /\ StaticsInv'
    BY <1>3 DEF ChangeStatics, StaticsInv, Colliders
  <2>2. Good(state)' /\ OpenFits'
    BY <1>0, <2>1, GoodCarries
  <2> QED BY <1>0, <1>a, <1>b, <2>1, <2>2
<1>4. ASSUME NEW name \in Bodies, CreateBody(name)
      PROVE  RigidInv' /\ Alternates /\ MovesWhenTold
  <2>1. name \in Names \ NamesIn(state)
    BY <1>4, NamesAssumption DEF CreateBody, Refuses
  <2>2. PICK kind \in {"sensor", "kinematic", "prop", "static"} : kind = KindOf[name]
    BY <1>4, NamesAssumption
  <2>3. PICK shape \in Shapes \cup {"none"} : shape = "none"
    OBVIOUS
  <2>4. PICK canonical \in BOOLEAN : canonical = FALSE
    OBVIOUS
  <2>5. PICK c : c = Created(state, name, kind, shape, canonical)
    OBVIOUS
  <2>6. Good(c)
    BY <1>0, <2>1, <2>5, CreatedGood
  <2>7. state' = c
    BY <1>4, <2>2, <2>3, <2>4, <2>5 DEF CreateBody
  <2>8. UNCHANGED <<owner, open, told, tick, updates, statics>> /\ events' = {}
    BY <1>4 DEF CreateBody
  <2>9. Good(state)' /\ OpenFits'
    BY <1>0, <2>6, <2>7, <2>8, GoodCarries
  <2> QED BY <1>0, <1>a, <1>b, <2>8, <2>9 DEF StaticsInv
<1>5. ASSUME NEW i \in DOMAIN state.slots, RemoveBody(i)
      PROVE  RigidInv' /\ Alternates /\ MovesWhenTold
  <2>1. RigidInv'
    BY <1>5, RemoveBodyGood
  <2>2. tick' = tick /\ events' = {}
    BY <1>5 DEF RemoveBody
  <2> QED BY <1>a, <1>b, <2>1, <2>2
<1>6. ASSUME NEW i \in DOMAIN state.slots, MoveKinematic(i)
      PROVE  RigidInv' /\ Alternates /\ MovesWhenTold
  <2>1. RigidInv'
    BY <1>6, MoveKinematicGood
  <2>2. tick' = tick /\ events' = {}
    BY <1>6 DEF MoveKinematic
  <2> QED BY <1>a, <1>b, <2>1, <2>2
<1>7. ASSUME NEW t, StepRefused(t)
      PROVE  RigidInv' /\ Alternates /\ MovesWhenTold
  <2>1. state' = state /\ UNCHANGED <<owner, open, told, tick, updates, statics>> /\ events' = {}
    BY <1>7 DEF StepRefused
  <2>2. Good(state)' /\ OpenFits'
    BY <1>0, <2>1, GoodCarries
  <2> QED BY <1>0, <1>a, <1>b, <2>1, <2>2 DEF StaticsInv
<1>8. ASSUME NEW refused, StepHalfDone(refused)
      PROVE  RigidInv' /\ Alternates /\ MovesWhenTold
  <2>1. PICK w : w = Synchronized(state, refused).world
    OBVIOUS
  <2>2. Sound(state)
    BY <1>0, <1>8, StateSound DEF StepHalfDone
  <2>3. Good(w)
    BY <1>0, <2>1, <2>2, SynchronizedSound DEF Sound
  <2>4. state' = w /\ UNCHANGED <<owner, open, told, tick, updates, statics>> /\ events' = {}
    BY <1>8, <2>1 DEF StepHalfDone
  <2>5. Good(state)' /\ OpenFits'
    BY <1>0, <2>3, <2>4, GoodCarries
  <2> QED BY <1>0, <1>a, <1>b, <2>4, <2>5 DEF StaticsInv
<1>9. ASSUME NEW touching, NEW overflowed, NEW broken, Step(touching, overflowed, broken)
      PROVE  RigidInv' /\ Alternates /\ MovesWhenTold
  BY <1>9, StepIsGood
<1> QED BY <1>1, <1>2, <1>3, <1>4, <1>5, <1>6, <1>7, <1>8, <1>9 DEF Next

LEMMA RigidStutter == RigidInv /\ UNCHANGED vars => RigidInv'
<1> SUFFICES ASSUME RigidInv, UNCHANGED vars PROVE RigidInv'
  OBVIOUS
<1>1. state' = state /\ UNCHANGED <<owner, open, told, tick, updates, statics>>
  BY DEF vars
<1>2. Good(state)' /\ OpenFits'
  BY <1>1, GoodCarries DEF RigidInv
<1> QED BY <1>1, <1>2 DEF RigidInv, StaticsInv

LEMMA RigidInvariant == Spec => []RigidInv
<1>1. RigidInv /\ [Next]_vars => RigidInv'
  BY RigidNext, RigidStutter
<1> QED BY <1>1, RigidInit, PTL DEF Spec

-----------------------------------------------------------------------------
(* Whatever bodies come and go and whichever ticks fail, a listener who    *)
(* heard every event holds exactly the pairs that touch or owe an Exit,    *)
(* and the Exits owed fit (RigidBodyWorld.cpp, Impl::remove and extract).  *)
THEOREM ListenersAreUpToDate == Spec => []ListenerIsUpToDate
<1>1. RigidInv => ListenerIsUpToDate
  BY DEF RigidInv, Good, Listening, ListenerIsUpToDate
<1> QED BY <1>1, RigidInvariant, PTL

(* The solver advanced a world as often as its tick says: no failure makes *)
(* step simulate a tick again (RigidBodyWorld.cpp, RigidBodyWorld::step).  *)
THEOREM TicksRunOnce == Spec => []NoTickTwice
<1>1. RigidInv => NoTickTwice
  BY DEF RigidInv, NoTickTwice
<1> QED BY <1>1, RigidInvariant, PTL

(* Every call returns at most one event of a pair, Enter exactly for pairs *)
(* the listener does not hold (RigidBodyWorld.cpp, Impl::extract, remove). *)
THEOREM PairsAlternate == Spec => EventsAlternate
<1>1. RigidInv /\ [Next]_vars =>
        [/\ \A e \in events' : (e.phase = "enter") <=> (e.pair \notin open)
         /\ \A e, f \in events' : e.pair = f.pair => e = f]_vars
  BY RigidNext DEF Alternates
<1> QED BY <1>1, RigidInvariant, PTL DEF Spec, EventsAlternate

(* In a tick just those kinematic bodies glide that were told to since the *)
(* last, whoever had their slot before, and whatever synchronize did to    *)
(* the slots meanwhile (RigidBodyWorld.cpp, moveKinematic and step).       *)
THEOREM KinematicsFollowOrders == Spec => KinematicsMoveWhenTold
<1>1. RigidInv /\ [Next]_vars =>
        [tick' > tick =>
           \A i \in Applications(state') : state'.slots[i].kind = "kinematic" =>
             (state'.slots[i].gliding <=> HandleAt(state', i) \in told)]_vars
  BY RigidNext DEF MovesWhenTold
<1> QED BY <1>1, RigidInvariant, PTL DEF Spec, KinematicsMoveWhenTold
=============================================================================
