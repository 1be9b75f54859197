-------------------------- MODULE MCSequenceBuffer --------------------------
(* Instances of SequenceBuffer and InterpolationBuffer small enough for TLC. *)
EXTENDS InterpolationBuffer

(* Every sequence number below the top of the type: three windows' worth. *)
BelowTop == 0 .. MaxSequence - 1

(* From before the first sequence number to two ticks after the last. *)
AllPositions == -1 .. 2 * MaxSequence + 2
=============================================================================
