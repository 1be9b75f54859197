\* Two slots, two component types, three generations, seven entities.
CONSTANTS
  Types = {position, health}
  GenerationModulus = 3
  MaxSlots = 2
  MaxBirths = 7
SPECIFICATION EcsSpec
INVARIANTS FreeListIsExact ComponentsBelongToTheLiving StaleIdsStayDead
