--------------------------- MODULE SequenceBuffer ---------------------------
(***************************************************************************)
(* net/SequenceBuffer.hpp: Capacity slots addressed by sequence %          *)
(* Capacity.  A slot whose occupied flag is false keeps its old bytes in   *)
(* the code, but every reader tests the flag first, so a free slot is just *)
(* Vacant here.                                                            *)
(***************************************************************************)
EXTENDS Naturals, FiniteSets

CONSTANTS
  Capacity,     (* the template parameter                                  *)
  MaxSequence,  (* largest value of the sequence type (2^64 - 1)           *)
  Sequences,    (* the sequence numbers callers pass                       *)
  Values,       (* the values callers store                                *)
  Vacant        (* content of a free slot                                  *)

Entry == [sequence : Sequences, value : Values]

ASSUME CapacityAssumption == Capacity \in Nat \ {0}
ASSUME SequencesAssumption ==
  /\ MaxSequence \in Nat
  /\ Sequences \subseteq 0 .. MaxSequence
ASSUME VacantAssumption == Vacant \notin Entry

VARIABLES
  entries,         (* entries_                                             *)
  size,            (* size_                                                *)
  newestSequence,  (* newestSequence_, 0 while there is none               *)
  hasNewest,       (* hasNewest_                                           *)
  call,            (* the operation last called, and its sequence          *)
  returned         (* what the last call returned (1 for true)             *)

ringVars == <<entries, size, newestSequence, hasNewest, call, returned>>

Slots == 0 .. Capacity - 1
SlotFor(s) == s % Capacity

Occupied == {i \in Slots : entries[i] # Vacant}
Vacate(gone) == [i \in Slots |-> IF i \in gone THEN Vacant ELSE entries[i]]

Contains(s) ==
  /\ entries[SlotFor(s)] # Vacant
  /\ entries[SlotFor(s)].sequence = s

TooOld(s) ==
  /\ hasNewest
  /\ newestSequence >= Capacity
  /\ s <= newestSequence - Capacity

(* newestSequence_ + 1U wraps to zero at the top of the type. *)
Successor(n) == IF n = MaxSequence THEN 0 ELSE n + 1
WindowFloor(n) == IF Successor(n) <= Capacity THEN 0 ELSE n + 1 - Capacity

RingInit ==
  /\ entries = [i \in Slots |-> Vacant]
  /\ size = 0
  /\ newestSequence = 0
  /\ hasNewest = FALSE
  /\ call = <<"none", 0>>
  /\ returned = 0

StoreRejected(s) ==
  /\ call' = <<"store", s>>
  /\ TooOld(s)
  /\ returned' = 0
  /\ UNCHANGED <<entries, size, newestSequence, hasNewest>>

Advances(s) == ~hasNewest \/ s > newestSequence
(* Variant for Expired: advancing the window forgets nothing.              *)
ExpiredNever(s) == {}
Expired(s) == IF Advances(s)
              THEN {i \in Occupied : entries[i].sequence < WindowFloor(s)}
              ELSE {}

StoreAccepted(s, v) ==
  LET kept == Vacate(Expired(s)) IN
  /\ call' = <<"store", s>>
  /\ ~TooOld(s)
  /\ newestSequence' = IF Advances(s) THEN s ELSE newestSequence
  /\ hasNewest' = TRUE
  /\ entries' = [kept EXCEPT ![SlotFor(s)] = [sequence |-> s, value |-> v]]
  /\ size' = size - Cardinality(Expired(s))
                  + (IF kept[SlotFor(s)] = Vacant THEN 1 ELSE 0)
  /\ returned' = 1

Erase(s) ==
  /\ call' = <<"erase", s>>
  /\ IF Contains(s)
     THEN /\ entries' = Vacate({SlotFor(s)})
          /\ size' = size - 1
          /\ returned' = 1
     ELSE /\ returned' = 0
          /\ UNCHANGED <<entries, size>>
  /\ UNCHANGED <<newestSequence, hasNewest>>

(* The loop shared by eraseThrough and eraseAfter. *)
Remove(gone) ==
  /\ entries' = Vacate(gone)
  /\ size' = size - Cardinality(gone)
  /\ returned' = Cardinality(gone)

EraseThrough(s) ==
  /\ call' = <<"eraseThrough", s>>
  /\ Remove({i \in Occupied : entries[i].sequence <= s})
  /\ UNCHANGED <<newestSequence, hasNewest>>

(* recomputeNewest over the surviving slots. *)
RecomputeNewest(left) ==
  /\ hasNewest' = (left # {})
  /\ newestSequence' = IF left = {} THEN 0
       ELSE CHOOSE n \in {entries[i].sequence : i \in left} :
              \A i \in left : entries[i].sequence <= n

EraseAfter(s) ==
  LET later == {i \in Occupied : entries[i].sequence > s} IN
  /\ call' = <<"eraseAfter", s>>
  /\ Remove(later)
  /\ IF later = {} THEN UNCHANGED <<newestSequence, hasNewest>>
                   ELSE RecomputeNewest(Occupied \ later)

Clear ==
  /\ call' = <<"clear", 0>>
  /\ entries' = [i \in Slots |-> Vacant]
  /\ size' = 0
  /\ newestSequence' = 0
  /\ hasNewest' = FALSE
  /\ returned' = 0

RingNext ==
  \/ \E s \in Sequences, v \in Values : StoreAccepted(s, v)
  \/ \E s \in Sequences :
       StoreRejected(s) \/ Erase(s) \/ EraseThrough(s) \/ EraseAfter(s)
  \/ Clear

RingSpec == RingInit /\ [][RingNext]_ringVars
-----------------------------------------------------------------------------
Operations == {"none", "store", "erase", "eraseThrough", "eraseAfter", "clear"}

(* Types of the four members of SequenceBuffer and of the last call.       *)
RingTypeOK ==
  /\ entries \in [Slots -> Entry \cup {Vacant}]
  /\ size \in Nat
  /\ newestSequence \in IF hasNewest THEN Sequences ELSE {0}
  /\ hasNewest \in BOOLEAN
  /\ call \in Operations \X (0 .. MaxSequence)
  /\ returned \in Nat

(* size_ is maintained by increments and decrements scattered over store,  *)
(* erase, the two range erasures and the expiry loop; it must still be the *)
(* number of occupied slots after any sequence of calls.                   *)
SizeCountsOccupied == size = Cardinality(Occupied)

(* After any mix of stores, erasures and rollbacks every live entry is in  *)
(* its home slot and inside the window that ends at the newest sequence:   *)
(* what contains and find answer is never an expired entry.                *)
LiveEntriesInWindow ==
  \A i \in Occupied :
    /\ SlotFor(entries[i].sequence) = i
    /\ hasNewest
    /\ entries[i].sequence <= newestSequence
    /\ newestSequence < entries[i].sequence + Capacity

(* The inductive invariant: what one call leaves for the next to rely on.  *)
IInv ==
  /\ RingTypeOK
  /\ SizeCountsOccupied
  /\ LiveEntriesInWindow

-----------------------------------------------------------------------------
Content == {entries[i] : i \in Occupied}
Window == INSTANCE SequenceWindow
            WITH content <- Content,
                 newest  <- IF hasNewest THEN {newestSequence} ELSE {}

(* The ring of slots implements the window map: no two live sequences ever *)
(* fight for a slot, and a call stores, forgets, rejects and returns just  *)
(* what the map would.                                                     *)
ImplementsWindow == Window!Spec
=============================================================================
