--------------------------- MODULE MCRigidBodyWorld ---------------------------
(* A zone that senses, a player and a floor; the game may also name a      *)
(* static collider like its player.                                        *)
EXTENDS RigidBodyWorld

Kinds == [b \in Bodies |-> IF b = "zone" THEN "sensor" ELSE "kinematic"]
FloorThenPlayer == <<"floor", "player">>
=============================================================================
