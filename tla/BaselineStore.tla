---------------------------- MODULE BaselineStore ----------------------------
(***************************************************************************)
(* net/SnapshotReplication.cpp, class SnapshotBaselineStore.  The vector   *)
(* is kept sorted by sequenceMoreRecent and holds each id once, so it is a *)
(* set of snapshots here; its front and back are the ids than which every  *)
(* other is more, or less, recent.  That order is total while the ids held *)
(* span less than half the sequence space.                                 *)
(***************************************************************************)
EXTENDS SequenceNumbers, FiniteSets

Ids(store) == {s.id : s \in store}
Find(store, id) == {s \in store : s.id = id}

(* snapshots_.begin() and snapshots_.back() after the sort *)
Oldest(store) ==
  CHOOSE s \in store : \A t \in store : t = s \/ MoreRecent(t.id, s.id)
NewestSnapshotId(store) ==
  CHOOSE i \in Ids(store) : \A j \in Ids(store) : j = i \/ MoreRecent(i, j)

(* Variant for Stored: the wrong end is dropped.                            *)
StoredDroppingNewest(store, snapshot, capacity) ==
  LET grown == (store \ Find(store, snapshot.id)) \cup {snapshot}
  IN  IF Cardinality(grown) > capacity
      THEN grown \ Find(grown, NewestSnapshotId(grown)) ELSE grown

(* store: replace or insert, then drop the oldest while over capacity; one *)
(* call adds at most one, so one is dropped at most.                       *)
Stored(store, snapshot, capacity) ==
  LET grown == (store \ Find(store, snapshot.id)) \cup {snapshot}
  IN  IF Cardinality(grown) > capacity THEN grown \ {Oldest(grown)} ELSE grown

(* acknowledgeThrough: the acknowledged snapshot itself stays.             *)
Acknowledged(store, id) ==
  {s \in store : s.id = id \/ MoreRecent(s.id, id)}
=============================================================================
