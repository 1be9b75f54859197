----------------------- MODULE MCSnapshotReplication -----------------------
(* Instances of SnapshotReplication small enough for TLC. *)
EXTENDS SnapshotReplication, TLC

CONSTANTS e1, e2, k1, k2, p1, p2

Ent(generation, components) == [generation |-> generation, components |-> components]
Nothing == [e \in {} |-> 0]

(* An entity changes a component, gains and loses another, comes back under *)
(* its id with another generation, and a second entity comes and goes.      *)
FewWorlds ==
  { Nothing,
    e1 :> Ent(0, k1 :> p1),
    e1 :> Ent(0, k2 :> p1),
    (e1 :> Ent(1, Nothing)) @@ (e2 :> Ent(0, k1 :> p2)) }
=============================================================================
