---------------------------- MODULE RigidBodyWorld ----------------------------
(***************************************************************************)
(* physics/RigidBodyWorld.cpp: the engine's bodies around the Jolt solver. *)
(* Slots with generations, the canonical colliders that follow the game's  *)
(* PhysicsWorld, the protocol of fixed ticks, and the stream of sensor     *)
(* events.  Which bodies touch, and whether the solver fails, are inputs;  *)
(* poses and the order within one result are left out.                     *)
(***************************************************************************)
EXTENDS Naturals, FiniteSets, Sequences

CONSTANTS
  Names,             (* application ids of bodies and colliders            *)
  Bodies,            (* those the game creates bodies for                  *)
  KindOf,            (* "sensor", "kinematic" or "prop", by name           *)
  Order,             (* the ids of static colliders, in map order          *)
  Shapes,            (* shapes of a static collider                        *)
  Vacant,            (* the name in a slot without a native body           *)
  MaxBodies, MaxContactEvents,
  MaxTick, MaxWorlds, MaxCalls  (* bounds: ticks, worlds, other calls      *)

Colliders == {Order[i] : i \in DOMAIN Order}

ASSUME NamesAssumption ==
  /\ Bodies \subseteq Names /\ Order \in Seq(Names) /\ Vacant \notin Names
  /\ KindOf \in [Bodies -> {"sensor", "kinematic", "prop"}]
ASSUME LimitsAssumption ==
  /\ MaxBodies \in Nat \ {0} /\ MaxContactEvents \in Nat
  /\ MaxTick \in Nat /\ MaxWorlds \in Nat /\ MaxCalls \in Nat

VARIABLES
  owner,        (* the owner id of the world, 0 when there is none         *)
  worlds,       (* nextWorld, less one                                     *)
  tick,
  state,        (* slots, sensorPairs, pendingExits, captureOverflow       *)
  statics,      (* the game's static colliders: id -> shape                *)
  events,       (* the sensor events the last call returned                *)
  open,         (* the pairs a listener of all events takes as touching    *)
  updates,      (* how often the solver advanced this world                *)
  told,         (* bodies given a target since the last tick               *)
  calls

vars == <<owner, worlds, tick, state, statics, events, open, updates, told, calls>>

EmptyWorld == [slots |-> <<>>, pairs |-> {}, exits |-> {}, overflow |-> FALSE]
Event(pair, phase, reason) == [pair |-> pair, phase |-> phase, reason |-> reason]

(* A handle names a world, a slot and a generation.                        *)
HandleAt(w, i) == <<owner, i, w.slots[i].generation>>
Occupied(w) == {i \in DOMAIN w.slots : w.slots[i].name # Vacant}
HandlesOf(w) == {HandleAt(w, i) : i \in Occupied(w)}
NamesIn(w) == {w.slots[i].name : i \in Occupied(w)}
Holding(w, name) == CHOOSE i \in Occupied(w) : w.slots[i].name = name
Canonical(w) == {i \in Occupied(w) : w.slots[i].canonical}

Init ==
  /\ owner = 0 /\ worlds = 0 /\ tick = 0 /\ state = EmptyWorld
  /\ statics \in [{} -> Shapes]
  /\ events = {} /\ open = {} /\ updates = 0 /\ told = {} /\ calls = 0

-----------------------------------------------------------------------------
(* create: the body takes the first slot without a native body.            *)
FirstFree(w) ==
  CHOOSE i \in 1 .. Len(w.slots) + 1 :
    /\ i \notin Occupied(w)
    /\ \A j \in 1 .. i - 1 : j \in Occupied(w)
Refuses(w, name, kind) ==
  \/ name \in NamesIn(w) \/ Cardinality(Occupied(w)) >= MaxBodies
  \/ kind = "sensor" /\ MaxContactEvents = 0

(* Variant for Target: what the slot's last body was told is kept.         *)
TargetOfLast(w, i) == i \in DOMAIN w.slots /\ w.slots[i].target
Target(w, i) == FALSE

Created(w, name, kind, shape, canonical) ==
  LET i == FirstFree(w)
      slot == [generation |-> IF i \in DOMAIN w.slots THEN w.slots[i].generation ELSE 1,
               name |-> name, kind |-> kind, shape |-> shape, canonical |-> canonical,
               target |-> Target(w, i), gliding |-> kind = "kinematic"]
  IN  [w EXCEPT !.slots = [j \in 1 .. Len(w.slots) \cup {i} |-> IF j = i THEN slot ELSE w.slots[j]]]

Generation(g) == g + 1

(* Variant for Leaving: removal forgets the pairs it ends.                 *)
LeavingNone(w, h) == {}
Leaving(w, h) == {p \in w.pairs : h \in p}
Remaining(w, h) == {p \in w.pairs : h \notin p}

Freed(slots, i) ==
  LET freed == [slots[i] EXCEPT !.name = Vacant,
                                !.generation = Generation(slots[i].generation)]
  IN  [slots EXCEPT ![i] = freed]

(* remove: every pair the body was in owes an Exit; then its slot is freed *)
(* under a new generation.  Once Exits no longer fit the world is doomed,  *)
(* and which of them fitted is left out.                                   *)
Removed(w, i, reason) ==
  LET h == HandleAt(w, i)
      owed == {Event(p, "exit", reason) : p \in Leaving(w, h)}
      left == [slots |-> Freed(w.slots, i), pairs |-> Remaining(w, h),
               exits |-> w.exits, overflow |-> w.overflow]
  IN  IF Cardinality(w.exits) + Cardinality(owed) <= MaxContactEvents
      THEN [left EXCEPT !.exits = w.exits \cup owed]
      ELSE [left EXCEPT !.overflow = TRUE]

-----------------------------------------------------------------------------
(* synchronize: the canonical bodies follow the game's colliders.  It      *)
(* refuses, before anything changes, what it can see to be impossible; a   *)
(* body the solver refuses ends it half way.                               *)
Applications(w) == Occupied(w) \ Canonical(w)
Impossible(w) ==
  \/ \E i \in Applications(w) : w.slots[i].name \in DOMAIN statics
  \/ Cardinality(DOMAIN statics) + Cardinality(Applications(w)) > MaxBodies

(* Both walk the colliders in map order, one after the other.              *)
Swept(v, name) ==
  IF name \in {v.slots[i].name : i \in Canonical(v)} \ DOMAIN statics
  THEN Removed(v, Holding(v, name), "removed") ELSE v

WithoutStale(w) ==
  LET after[n \in 0 .. Len(Order)] ==
        IF n = 0 THEN w ELSE Swept(after[n - 1], Order[n])
  IN  after[Len(Order)]

Changed(v, name) ==
  \/ name \notin NamesIn(v)
  \/ v.slots[Holding(v, name)].shape # statics[name]

Placed(v, name, refused) ==
  LET freed == IF name \in NamesIn(v.world)
               THEN Removed(v.world, Holding(v.world, name), "replaced") ELSE v.world
  IN  IF v.failed \/ name \notin DOMAIN statics \/ ~Changed(v.world, name) THEN v
      ELSE IF name \in refused THEN [world |-> freed, failed |-> TRUE]
      ELSE [world |-> Created(freed, name, "static", statics[name], TRUE), failed |-> FALSE]

Synchronized(w, refused) ==
  LET after[n \in 0 .. Len(Order)] ==
        IF n = 0 THEN [world |-> WithoutStale(w), failed |-> FALSE]
        ELSE Placed(after[n - 1], Order[n], refused)
  IN  after[Len(Order)]

-----------------------------------------------------------------------------
(* extract: the pairs that touch now against those known so far.           *)
(* Variant for Diff: a pair that stopped touching is not reported.         *)
DiffWithoutExits(w, touching) ==
  {Event(p, "enter", "none") : p \in touching \ w.pairs} \cup
  {Event(p, "stay", "none") : p \in touching \cap w.pairs}
Diff(w, touching) ==
  {Event(p, "enter", "none") : p \in touching \ w.pairs} \cup
  {Event(p, "stay", "none") : p \in touching \cap w.pairs} \cup
  {Event(p, "exit", "separated") : p \in w.pairs \ touching}

(* The bodies a solver callback may report: one of them a sensor.          *)
IsSensor(w, h) == w.slots[h[2]].kind = "sensor"
SensorPairs(w) ==
  {{a, b} : a \in {h \in HandlesOf(w) : IsSensor(w, h)}, b \in HandlesOf(w)}
    \ {{h} : h \in HandlesOf(w)}

(* Before the solver runs, what was given no target is stopped.            *)
Steered(w) ==
  [w EXCEPT !.slots = [i \in DOMAIN w.slots |->
     IF i \in Applications(w) /\ w.slots[i].kind \in {"sensor", "kinematic"}
     THEN [w.slots[i] EXCEPT !.gliding = w.slots[i].target, !.target = FALSE]
     ELSE w.slots[i]]]

-----------------------------------------------------------------------------
Destroyed ==
  owner' = 0 /\ tick' = 0 /\ state' = EmptyWorld /\ open' = {} /\ updates' = 0 /\ told' = {}
Call == calls < MaxCalls /\ calls' = calls + 1

(* initialize: a new world under a new owner; the old one is destroyed.    *)
Initialize ==
  /\ worlds < MaxWorlds
  /\ worlds' = worlds + 1
  /\ owner' = worlds + 1 /\ tick' = 0 /\ state' = EmptyWorld
  /\ open' = {} /\ updates' = 0 /\ told' = {} /\ events' = {}
  /\ UNCHANGED <<statics, calls>>

Shutdown ==
  /\ owner # 0 /\ Destroyed /\ events' = {}
  /\ UNCHANGED <<worlds, statics, calls>>

CreateBody(name) ==
  /\ owner # 0 /\ Call
  /\ ~Refuses(state, name, KindOf[name])
  /\ state' = Created(state, name, KindOf[name], "none", FALSE)
  /\ events' = {}
  /\ UNCHANGED <<owner, worlds, tick, statics, open, updates, told>>

(* removeBody: the game cannot remove a canonical body.                    *)
RemoveBody(i) ==
  /\ i \in Applications(state) /\ Call
  /\ state' = Removed(state, i, "removed")
  /\ told' = told \ {HandleAt(state, i)}
  /\ events' = {}
  /\ UNCHANGED <<owner, worlds, tick, statics, open, updates>>

MoveKinematic(i) ==
  /\ i \in Applications(state) /\ state.slots[i].kind \in {"sensor", "kinematic"} /\ Call
  /\ state' = [state EXCEPT !.slots[i].target = TRUE, !.slots[i].gliding = TRUE]
  /\ told' = told \cup {HandleAt(state, i)}
  /\ events' = {}
  /\ UNCHANGED <<owner, worlds, tick, statics, open, updates>>

(* The game adds, removes or reshapes static colliders.                    *)
ChangeStatics ==
  /\ Call
  /\ \E ids \in SUBSET Colliders : statics' \in [ids -> Shapes]
  /\ events' = {}
  /\ UNCHANGED <<owner, worlds, tick, state, open, updates, told>>

(* step, up to the solver: without a world, for another tick than the      *)
(* next, or with colliders that cannot be, it changes nothing; a refused   *)
(* body leaves it half synchronized, at the same tick.  The code also ends *)
(* a world whose Exits overflowed between two ticks: ListenerIsUpToDate    *)
(* says that they never do, so there is no such step.                      *)
StepRefused(t) ==
  /\ owner = 0 \/ t # tick + 1 \/ (~state.overflow /\ Impossible(state))
  /\ events' = {}
  /\ UNCHANGED <<owner, worlds, tick, state, statics, open, updates, told, calls>>

StepHalfDone(refused) ==
  LET done == Synchronized(state, refused) IN
  /\ owner # 0 /\ ~state.overflow /\ ~Impossible(state) /\ Call
  /\ done.failed
  /\ state' = done.world
  /\ events' = {}
  /\ UNCHANGED <<owner, worlds, tick, statics, open, updates, told>>

Fails(w, touching) ==
  MaxContactEvents > 0 /\ Cardinality(w.exits \cup Diff(w, touching)) > MaxContactEvents

(* Variant for Abandoned: a failed tick may be tried again.                *)
KeptForRetry ==
  updates' = updates + 1 /\ UNCHANGED <<owner, tick, state, open, told>>
(* Whatever fails after the solver began ends the world: it may have       *)
(* advanced part of the way.                                               *)
Abandoned == Destroyed

(* ... and from there on: the solver advances, its contacts are captured   *)
(* in a buffer that may be too small, and the events are extracted.        *)
Step(touching, overflowed, broken) ==
  LET w == Steered(Synchronized(state, {}).world)
      result == w.exits \cup Diff(w, touching)
  IN
  /\ owner # 0 /\ ~state.overflow /\ ~Impossible(state) /\ tick < MaxTick
  /\ touching \subseteq SensorPairs(w)
  /\ overflowed => MaxContactEvents > 0
  /\ Cardinality(touching) > MaxContactEvents => overflowed
  /\ IF broken \/ overflowed \/ (MaxContactEvents > 0 /\ w.overflow) \/ Fails(w, touching)
     THEN Abandoned /\ events' = {}
     ELSE /\ state' = [w EXCEPT !.pairs = touching, !.exits = {}]
          /\ events' = result
          /\ open' = (open \ {e.pair : e \in {x \in result : x.phase = "exit"}})
                       \cup {e.pair : e \in {x \in result : x.phase = "enter"}}
          /\ tick' = tick + 1 /\ updates' = updates + 1 /\ told' = {}
          /\ UNCHANGED owner
  /\ UNCHANGED <<worlds, statics, calls>>

Next ==
  \/ Initialize \/ Shutdown \/ ChangeStatics
  \/ \E name \in Bodies : CreateBody(name)
  \/ \E i \in DOMAIN state.slots : RemoveBody(i) \/ MoveKinematic(i)
  \/ \E t \in {tick, tick + 1} : StepRefused(t)
  \/ \E refused \in SUBSET Colliders : StepHalfDone(refused)
  \/ \E touching \in SUBSET SensorPairs(Synchronized(state, {}).world) :
       \E overflowed, broken \in BOOLEAN : Step(touching, overflowed, broken)

Spec == Init /\ [][Next]_vars
-----------------------------------------------------------------------------
(* What a listener who heard every event takes as touching is what the     *)
(* world remembers, plus the pairs it still owes an Exit for: no Exit is   *)
(* lost when a body is removed between two ticks or a tick is refused, and *)
(* the Exits owed always fit: the world is not ended for their number.     *)
ListenerIsUpToDate ==
  owner # 0 =>
    /\ ~state.overflow
    /\ open = state.pairs \cup {e.pair : e \in state.exits}

(* Every pair's events read Enter Stay* Exit: nothing is entered twice, and *)
(* nothing stays or exits that was not entered; one event per pair a tick.  *)
EventsAlternate ==
  [][/\ \A e \in events' : (e.phase = "enter") <=> (e.pair \notin open)
     /\ \A e, f \in events' : e.pair = f.pair => e = f]_vars

(* No tick is simulated twice, whatever failed before it.                  *)
NoTickTwice == owner # 0 => updates = tick

(* In a tick exactly those kinematic bodies move that were told to since   *)
(* the last one, whoever had their slot before.                            *)
KinematicsMoveWhenTold ==
  [][tick' > tick =>
       \A i \in Applications(state') : state'.slots[i].kind = "kinematic" =>
         (state'.slots[i].gliding <=> HandleAt(state', i) \in told)]_vars
=============================================================================
