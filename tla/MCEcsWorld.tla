------------------------------ MODULE MCEcsWorld ------------------------------
EXTENDS EcsWorld
=============================================================================
