--------------------------- MODULE SequenceWindow ---------------------------
(***************************************************************************)
(* What net/SequenceBuffer.hpp promises its users (the interpolation       *)
(* buffer and the prediction buffer): a map from sequence numbers to       *)
(* values that remembers only the Capacity sequences ending at the newest  *)
(* one, whatever the order in which they arrive.  Nothing is said here of  *)
(* slots or of how an entry is found.                                      *)
(***************************************************************************)
EXTENDS Naturals, FiniteSets

CONSTANTS
  Capacity,   (* number of consecutive sequences the window spans          *)
  Sequences,  (* the sequence numbers callers pass                         *)
  Values      (* the values callers store                                  *)

VARIABLES
  content,    (* the stored [sequence, value] records                      *)
  newest,     (* {} before the first store, {n} once n is the newest       *)
  call,       (* the operation last called, and its sequence               *)
  returned    (* what the last call returned (1 for true)                  *)

windowVars == <<content, newest, call, returned>>

TooOld(s) == \E n \in newest : s + Capacity <= n

Init ==
  /\ content = {}
  /\ newest = {}
  /\ call = <<"none", 0>>
  /\ returned = 0

StoreRejected(s) ==
  /\ call' = <<"store", s>>
  /\ TooOld(s)
  /\ returned' = 0
  /\ UNCHANGED <<content, newest>>

StoreAccepted(s, v) ==
  /\ call' = <<"store", s>>
  /\ ~TooOld(s)
  /\ newest' = IF \E n \in newest : s <= n THEN newest ELSE {s}
  /\ content' = {e \in content : e.sequence # s
                               /\ \A n \in newest' : n < e.sequence + Capacity}
                \cup {[sequence |-> s, value |-> v]}
  /\ returned' = 1

(* Forget the entries in gone; every erasing call returns how many it forgot. *)
Forget(gone) ==
  /\ content' = content \ gone
  /\ returned' = Cardinality(gone)

Erase(s) ==
  /\ call' = <<"erase", s>>
  /\ Forget({e \in content : e.sequence = s})
  /\ UNCHANGED newest

EraseThrough(s) ==
  /\ call' = <<"eraseThrough", s>>
  /\ Forget({e \in content : e.sequence <= s})
  /\ UNCHANGED newest

(* Rolling back moves the window down to the newest survivor. *)
EraseAfter(s) ==
  LET later == {e \in content : e.sequence > s} IN
  /\ call' = <<"eraseAfter", s>>
  /\ Forget(later)
  /\ newest' = IF later = {} THEN newest
               ELSE {e.sequence : e \in {d \in content \ later :
                      \A other \in content \ later : other.sequence <= d.sequence}}

Clear ==
  /\ call' = <<"clear", 0>>
  /\ content' = {}
  /\ newest' = {}
  /\ returned' = 0

Next ==
  \/ \E s \in Sequences, v \in Values : StoreAccepted(s, v)
  \/ \E s \in Sequences :
       StoreRejected(s) \/ Erase(s) \/ EraseThrough(s) \/ EraseAfter(s)
  \/ Clear

Spec == Init /\ [][Next]_windowVars
=============================================================================
