---------------------------- MODULE SnapshotDelta ----------------------------
(***************************************************************************)
(* net/SnapshotReplication.cpp: what a delta between two world snapshots   *)
(* says and what applying it does.  The vectors of the code are in         *)
(* canonical order and free of duplicates wherever they are read, so a     *)
(* snapshot is a function from entity ids to entities, and an entity's     *)
(* components are a function from component ids to payloads.  "id" stands  *)
(* for the whole header (snapshotId, serverTick, acknowledgedInputTick),   *)
(* which travels unchanged.                                                *)
(***************************************************************************)
EXTENDS Naturals, FiniteSets

CONSTANTS
  SnapshotIds,
  EntityIds, ComponentIds,   (* without 0, which validation refuses        *)
  Generations,
  Payloads,                  (* revision and bytes of a component          *)
  MaxEntities,               (* kMaxSnapshotEntities                       *)
  MaxComponents,             (* kMaxComponentsPerEntity                    *)
  Refused                    (* nullopt                                    *)

Partial(S, T) == UNION {[D -> T] : D \in SUBSET S}

Entity == [generation : Generations, components : Partial(ComponentIds, Payloads)]
Snapshot == [id : SnapshotIds, entities : Partial(EntityIds, Entity)]
Change == [generation : Generations, created : BOOLEAN,
           removed : SUBSET ComponentIds, changed : Partial(ComponentIds, Payloads)]
Delta == [id : SnapshotIds, baseline : SnapshotIds, removed : SUBSET EntityIds,
          changes : Partial(EntityIds, Change)]

ASSUME IdsAssumption == IsFiniteSet(EntityIds) /\ IsFiniteSet(ComponentIds)
ASSUME LimitsAssumption == MaxEntities \in Nat /\ MaxComponents \in Nat
ASSUME RefusedAssumption == Refused \notin Snapshot

-----------------------------------------------------------------------------
(* validateSnapshot *)
ValidSnapshot(s) ==
  /\ Cardinality(DOMAIN s.entities) <= MaxEntities
  /\ \A e \in DOMAIN s.entities :
       Cardinality(DOMAIN s.entities[e].components) <= MaxComponents

(* validateSnapshotDelta *)
ValidChange(c) ==
  /\ c.created \/ c.removed # {} \/ DOMAIN c.changed # {}
  /\ c.created => c.removed = {}
  /\ Cardinality(c.removed) <= MaxComponents
  /\ Cardinality(DOMAIN c.changed) <= MaxComponents
  /\ c.removed \cap DOMAIN c.changed = {}

ValidDelta(d) ==
  /\ Cardinality(d.removed) <= MaxEntities
  /\ Cardinality(DOMAIN d.changes) <= MaxEntities
  /\ d.removed \cap DOMAIN d.changes = {}
  /\ \A e \in DOMAIN d.changes : ValidChange(d.changes[e])

-----------------------------------------------------------------------------
(* Variant for Recreated: a reused id is taken for the same entity.        *)
NeverRecreated(old, new) == FALSE

(* buildSnapshotDelta: an entity that is new, or new under its id, is sent *)
(* whole; of the others only the components that differ.                   *)
Recreated(old, new) == old.generation # new.generation

Whole(entity) ==
  [generation |-> entity.generation, created |-> TRUE,
   removed |-> {}, changed |-> entity.components]

Differing(old, new) ==
  {k \in DOMAIN new.components : k \in DOMAIN old.components =>
                                   old.components[k] # new.components[k]}

Difference(old, new) ==
  [generation |-> new.generation, created |-> FALSE,
   removed |-> DOMAIN old.components \ DOMAIN new.components,
   changed |-> [k \in Differing(old, new) |-> new.components[k]]]

ChangeOf(baseline, current, e) ==
  IF e \notin DOMAIN baseline.entities
     \/ Recreated(baseline.entities[e], current.entities[e])
  THEN Whole(current.entities[e])
  ELSE Difference(baseline.entities[e], current.entities[e])

NotEmpty(change) == change.created \/ change.removed # {} \/ DOMAIN change.changed # {}

BuildDelta(baseline, current) ==
  [id       |-> current.id,
   baseline |-> baseline.id,
   removed  |-> DOMAIN baseline.entities \ DOMAIN current.entities,
   changes  |-> [e \in {x \in DOMAIN current.entities :
                          NotEmpty(ChangeOf(baseline, current, x))} |->
                   ChangeOf(baseline, current, e)]]

-----------------------------------------------------------------------------
(* Variant for Patched: removed components stay.                           *)
PatchedKeepingAll(components, change) ==
  [k \in DOMAIN components \cup DOMAIN change.changed |->
     IF k \in DOMAIN change.changed THEN change.changed[k] ELSE components[k]]

(* applySnapshotDelta: what is left of the baseline, the entities it       *)
(* cannot change, and the outcome.                                         *)
Kept(baseline, delta) == DOMAIN baseline.entities \ delta.removed

Unchangeable(baseline, delta) ==
  {e \in DOMAIN delta.changes :
     /\ ~delta.changes[e].created
     /\ \/ e \notin Kept(baseline, delta)
        \/ baseline.entities[e].generation # delta.changes[e].generation}

Patched(components, change) ==
  [k \in (DOMAIN components \ change.removed) \cup DOMAIN change.changed |->
     IF k \in DOMAIN change.changed THEN change.changed[k] ELSE components[k]]

Changed(baseline, change, e) ==
  [generation |-> change.generation,
   components |-> IF change.created THEN change.changed
                  ELSE Patched(baseline.entities[e].components, change)]

Outcome(baseline, delta) ==
  [id |-> delta.id,
   entities |-> [e \in Kept(baseline, delta) \cup DOMAIN delta.changes |->
                   IF e \in DOMAIN delta.changes
                   THEN Changed(baseline, delta.changes[e], e)
                   ELSE baseline.entities[e]]]

ApplyDelta(baseline, delta) ==
  IF /\ ValidSnapshot(baseline) /\ ValidDelta(delta)
     /\ baseline.id = delta.baseline
     /\ Unchangeable(baseline, delta) = {}
     /\ ValidSnapshot(Outcome(baseline, delta))
  THEN Outcome(baseline, delta)
  ELSE Refused
=============================================================================
