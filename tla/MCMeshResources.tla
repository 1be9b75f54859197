-------------------------- MODULE MCMeshResources --------------------------
(* Instances of MeshResources small enough for TLC. *)
EXTENDS MeshResources

FewHandles == Indices \X (1 .. MaxGeneration)
=============================================================================
