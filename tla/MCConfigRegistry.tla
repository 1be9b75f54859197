--------------------------- MODULE MCConfigRegistry ---------------------------
EXTENDS ConfigRegistry

(* Each path leads to a file of its own.                                   *)
OwnFile == [p \in Paths |-> p]
=============================================================================
