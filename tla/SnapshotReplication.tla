------------------------- MODULE SnapshotReplication -------------------------
(***************************************************************************)
(* A server that replicates its world to one client with the parts of      *)
(* net/SnapshotReplication.cpp: it keeps the snapshots it took in a        *)
(* SnapshotBaselineStore and sends the newest one whole or as a delta from *)
(* the one the client acknowledged; the client keeps what it reconstructed *)
(* in a store of its own and acknowledges the newest of it.  Who calls     *)
(* what is taken from docs/08_NETCODE.md and the tests: the transport that *)
(* would drive it is not written yet.  Datagrams are lost, repeated and    *)
(* reordered: one sent stays deliverable for ever.                         *)
(***************************************************************************)
EXTENDS SnapshotDelta, BaselineStore

CONSTANTS
  Worlds,           (* the worlds the server simulates                     *)
  FirstId,          (* id of the first snapshot                            *)
  MaxSnapshots,     (* bound on the snapshots taken                        *)
  ServerCapacity, ClientCapacity   (* the two stores' capacities           *)

ASSUME SnapshotIdsAssumption ==
  /\ SnapshotIds = SequenceNumber /\ FirstId \in SequenceNumber
  /\ MaxSnapshots \in Nat /\ MaxSnapshots <= Modulus   (* no id used twice *)
(* SnapshotBaselineStore takes a capacity of 0 for 1.                      *)
ASSUME StoresAssumption ==
  ServerCapacity \in Nat \ {0} /\ ClientCapacity \in Nat \ {0}
ASSUME WorldsAssumption ==
  \A w \in Worlds : /\ w \in Partial(EntityIds, Entity)
                    /\ ValidSnapshot([id |-> FirstId, entities |-> w])

VARIABLES
  taken,         (* every snapshot the server took, in order               *)
  serverStore,   (* the server's SnapshotBaselineStore                     *)
  acknowledged,  (* the id the client acknowledged last: {} or a singleton *)
  clientStore,   (* the client's SnapshotBaselineStore                     *)
  downstream,    (* snapshots and deltas sent                              *)
  upstream       (* ids acknowledged by the client, as sent                *)

vars == <<taken, serverStore, acknowledged, clientStore, downstream, upstream>>

Count == Cardinality(DOMAIN taken)
Current == taken[Count]
IdAfter(n) == IF n = 0 THEN FirstId ELSE NextSequence(taken[n].id)

Init ==
  /\ taken = [n \in {} |-> Refused]
  /\ serverStore = {}
  /\ acknowledged = {}
  /\ clientStore = {}
  /\ downstream = {}
  /\ upstream = {}

(* The server takes a snapshot of its world, whatever became of it.        *)
Take(world) ==
  LET snapshot == [id |-> IdAfter(Count), entities |-> world] IN
  /\ Count < MaxSnapshots
  /\ taken' = [n \in 1 .. Count + 1 |-> IF n = Count + 1 THEN snapshot ELSE taken[n]]
  /\ serverStore' = Stored(serverStore, snapshot, ServerCapacity)
  /\ UNCHANGED <<acknowledged, clientStore, downstream, upstream>>

Baselines == UNION {Find(serverStore, id) : id \in acknowledged}

(* It sends its newest snapshot: as a delta when it still holds the        *)
(* acknowledged baseline, whole otherwise.                                 *)
Send ==
  /\ Count > 0
  /\ downstream' = downstream \cup
       (IF Baselines = {} THEN {Current}
        ELSE {BuildDelta(b, Current) : b \in Baselines})
  /\ UNCHANGED <<taken, serverStore, acknowledged, clientStore, upstream>>

(* What the client makes of a datagram: nothing, when it does not hold the *)
(* baseline a delta names.                                                 *)
Reconstructed(m) ==
  IF "baseline" \in DOMAIN m
  THEN {ApplyDelta(b, m) : b \in Find(clientStore, m.baseline)} \ {Refused}
  ELSE {m}

Receive(m) ==
  \E s \in Reconstructed(m) :
    /\ clientStore' = Stored(clientStore, s, ClientCapacity)
    /\ UNCHANGED <<taken, serverStore, acknowledged, downstream, upstream>>

Acknowledge ==
  /\ clientStore # {}
  /\ upstream' = upstream \cup {NewestSnapshotId(clientStore)}
  /\ UNCHANGED <<taken, serverStore, acknowledged, clientStore, downstream>>

ReceiveAcknowledgement(id) ==
  /\ \A a \in acknowledged : MoreRecent(id, a)
  /\ acknowledged' = {id}
  /\ serverStore' = Acknowledged(serverStore, id)
  /\ UNCHANGED <<taken, clientStore, downstream, upstream>>

Next ==
  \/ \E w \in Worlds : Take(w)
  \/ Send
  \/ \E m \in downstream : Receive(m)
  \/ Acknowledge
  \/ \E id \in upstream : ReceiveAcknowledgement(id)

Spec == Init /\ [][Next]_vars

(* Both ends keep sending, and a message sent again and again is not lost  *)
(* for ever.                                                               *)
FairSpec ==
  /\ Spec
  /\ WF_vars(Send) /\ WF_vars(Acknowledge)
  /\ WF_vars(\E m \in downstream : m.id = Current.id /\ Receive(m))
  /\ WF_vars(\E id \in upstream : ReceiveAcknowledgement(id))
-----------------------------------------------------------------------------
(* What the client holds under an id is exactly the world the server took  *)
(* under it, however many deltas, each from another baseline, lie between. *)
ClientMirrorsServer ==
  \A s \in clientStore : \E n \in DOMAIN taken : taken[n] = s

(* The server only builds deltas on a world it took itself and the client  *)
(* reconstructed: the client is never behind the baseline.                 *)
BaselineIsShared ==
  \A b \in Baselines :
    /\ \E n \in DOMAIN taken : taken[n] = b
    /\ clientStore # {} /\ ~MoreRecent(b.id, NewestSnapshotId(clientStore))

(* Lost, late and repeated datagrams do not keep the client out of step:   *)
(* once the server's world stops changing the client comes to hold it.     *)
EventuallyCurrent ==
  <>[](Count > 0 => Current \in clientStore)
=============================================================================
