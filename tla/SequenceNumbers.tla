-------------------------- MODULE SequenceNumbers --------------------------
(***************************************************************************)
(* The wrap-safe arithmetic of 32-bit packet sequences (net/Protocol.cpp,  *)
(* PacketSequence in net/Types.hpp), for any Modulus.  On arguments below  *)
(* the Modulus one addition or subtraction of it is all that wrapping does.*)
(***************************************************************************)
EXTENDS Naturals

CONSTANT Modulus   (* 2^32 in the code *)

ASSUME ModulusAssumption == Modulus \in Nat \ {0, 1}

SequenceNumber == 0 .. Modulus - 1

(* numeric_limits<uint32_t>::max() / 2 *)
HalfRange == (Modulus - 1) \div 2

(* PacketSequence::next *)
NextSequence(s) == IF s = Modulus - 1 THEN 0 ELSE s + 1

(* sequenceDistance: the unsigned subtraction newer - older. *)
Distance(newer, older) ==
  IF newer >= older THEN newer - older ELSE newer + Modulus - older

(* latest - k, as the acknowledgement walk computes it. *)
Back(latest, k) == Distance(latest, k)

(* sequenceMoreRecent *)
MoreRecent(lhs, rhs) ==
  \/ lhs > rhs /\ lhs - rhs <= HalfRange
  \/ rhs > lhs /\ rhs - lhs > HalfRange
=============================================================================
